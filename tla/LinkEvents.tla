------------------------------ MODULE LinkEvents ------------------------------
(***************************************************************************)
(* One connection and the slot that follows it (conn_follower.c): event    *)
(* counter, anchor, channel and PHY of the slot next to those of the link  *)
(* itself.  The slot is carried over from event to event by serve_open and *)
(* serve_close; events are skipped by subrating and by the yields of a     *)
(* relock; updates are heard in the clear, or relayed by the host after    *)
(* their instant, or missed.                                               *)
(*                                                                         *)
(* The link is where it really is, the slot where the code thinks it is:   *)
(* next_mts says when an access address ends; it is kept in two parts, the *)
(* predicted start of the packet (mts, 0 where the packet really starts)   *)
(* and the air time of the preamble and access address it was measured     *)
(* with (head).  Times are in the code's microseconds.  One slot: another  *)
(* slot's claim on the radio is a window in which nothing is heard.        *)
(***************************************************************************)
EXTENDS ChannelSelection

CONSTANTS
  ChanId, Hop,   \* of the link
  Maps,          \* channel maps the link may use
  Intervals,     \* of connections: by CONNECT_IND, connection or rate update
  ConnIntervals, \* ... those that come with a transmit window
  LongestFirst,  \* ... the longest whose lead leaves a first window enough
  Offsets, WinSize,   \* of updates
  Guard, LeadPer, Preamble, RxReady,     \* how early a window opens
  Steady, Coded, RelockSpan, LateLead,   \* how wide it is
  RelockAfter, UnmappedRelock, ProbeAfter, WidenMax, Limit,  \* misses
  SingleTarget,
  Factors, Continuation,    \* of subrating
  Starts,        \* event numbers at which following starts
  SkipsAtStart,  \* events already past when a slot is injected
  MaxEvents, MaxAhead, MaxLate, MaxUpdates   \* bounds of the environment

\* Event counters and instants are kept modulo W.  The code subtracts the
\* base of subrating modulo W as well: a factor that divides W.
ASSUME CountersAssumption ==
  /\ ChanId \in 0..W-1
  /\ Maps \subseteq SUBSET (0..NChannels-1)
  /\ \A map \in Maps : IsFiniteSet(map) /\ Cardinality(map) > 1
  /\ \A i \in Factors : i \in Nat \ {0} /\ W % i = 0
  /\ {Hop, Continuation, RelockAfter, UnmappedRelock, ProbeAfter, WidenMax} \subseteq Nat
  /\ Limit \in Nat \ {0} /\ SingleTarget \in BOOLEAN

\* An instant is told from one long past: it is ahead, or late, by less than
\* half the range of the counter.
ASSUME InstantsAssumption ==
  /\ Starts \cup SkipsAtStart \cup {MaxEvents, MaxAhead, MaxLate, MaxUpdates} \subseteq Nat
  /\ MaxAhead < W \div 2
  /\ \A i \in Factors \cup {1} : MaxLate + 2 * i < W \div 2

Phys == {"1M", "2M", "Coded"}

\* open_guard_us: the base, the preamble and access address of the central's
\* PHY and a share of the interval, at most a third of a short interval.
OpenLead(phy, interval) ==
  LET lead == Guard + Preamble[phy] + interval \div LeadPer
      cap == interval \div 3
  IN  IF lead > cap /\ cap > RxReady THEN cap ELSE lead

\* An event has room for the lead and a preamble, and for the transmit window
\* where there is one (at most the interval less 1.25 ms); a third of an event
\* is longer than a preamble.
ASSUME WindowsAssumption ==
  /\ \A x \in {Guard, Steady, Coded, RelockSpan, RxReady, LateLead, WinSize, LongestFirst} :
       x \in Nat
  /\ LeadPer \in Nat \ {0} /\ Preamble \in [Phys -> Nat]
  /\ Offsets \subseteq Nat /\ Intervals \subseteq Nat /\ ConnIntervals \subseteq Intervals
  /\ \A x, y \in Phys, i \in Intervals :
       /\ Preamble[x] <= OpenLead(x, i)
       /\ LateLead + OpenLead(x, i) + Preamble[y] <= i
       /\ i \in ConnIntervals => LateLead + OpenLead(x, i) + Preamble[y] + WinSize <= i
       /\ i <= LongestFirst => OpenLead(x, i) + Preamble[y] <= 2 * Guard + Steady
  /\ \A x \in Phys : Preamble[x] <= Steady /\ Preamble[x] <= Coded
  /\ 0 < Steady /\ 0 < Coded /\ Steady <= 2 * Guard + Coded

VARIABLES
  link,    \* the connection at the event the slot is at
  upd,     \* the link's last update procedure, or NoUpdate
  slot,    \* the follower's slot
  win,     \* the window open for it, or Closed
  ghost    \* what the slot could know

vars == <<link, upd, slot, win, ghost>>

Prn == [cnt \in 0..W-1 |-> PrnE(cnt, ChanId)]

NoUpdate == [kind |-> "none"]
Kinds == {"map", "conn", "rate", "phy"}
Closed == [open |-> FALSE]

----------------------------------------------------------------------------
(* Channels.                                                               *)

Csa2Next(cnt, map) == Csa2Channel(Prn[cnt], map)

\* ble_csa2_next with every channel in use
UnmappedChannel(cnt) == Prn[cnt] % NChannels

\* Where the link really is in its event n.
TrueChannel(l, csa2) ==
  IF csa2 THEN Csa2Next(l.n % W, l.map)
  ELSE Csa1Channel(((l.n + 1) * Hop) % NChannels, l.map)

----------------------------------------------------------------------------
(* The link: d events later.                                               *)

InForce(u, n) == u # NoUpdate /\ u.instant <= n

\* An update comes into force within the next d events.
TakesEffect(d) == InForce(upd, link.n + d) /\ ~InForce(upd, link.n)

LinkAfter(d) ==
  LET l == [link EXCEPT !.n = @ + d]
  IN  CASE ~TakesEffect(d) -> l
        [] TakesEffect(d) /\ upd.kind = "map" -> [l EXCEPT !.map = upd.map]
        [] TakesEffect(d) /\ upd.kind = "phy" -> [l EXCEPT !.phy = upd.phy]
        [] OTHER -> [l EXCEPT !.interval = upd.interval]

\* From one anchor to that of the d-th event after it.
Distance(d) ==
  IF TakesEffect(d) /\ upd.kind \in {"conn", "rate"}
  THEN (upd.instant - link.n) * link.interval + upd.offset + upd.place
         + (link.n + d - upd.instant) * upd.interval
  ELSE d * link.interval

\* What the central may decide now, its previous procedure being complete.
\* An offset is at most the new interval.
Updates ==
  LET instants == (link.n + 1) .. (link.n + MaxAhead)
  IN  { [kind |-> "map", instant |-> j, told |-> FALSE, map |-> m]
          : j \in instants, m \in Maps }
      \cup { [kind |-> "phy", instant |-> j, told |-> FALSE, phy |-> p]
          : j \in instants, p \in Phys }
      \cup { u \in
        { [kind |-> "conn", instant |-> j, told |-> FALSE,
              interval |-> i, offset |-> o, place |-> p]
          : j \in instants, i \in ConnIntervals, o \in Offsets, p \in {0, WinSize} }
        \cup { [kind |-> "rate", instant |-> j, told |-> FALSE,
              interval |-> i, offset |-> o, place |-> 0, factor |-> x]
          : j \in instants, i \in Intervals, o \in Offsets, x \in Factors }
        : u.offset <= u.interval }

CentralFree ==
  /\ link.updates < MaxUpdates
  /\ upd = NoUpdate \/ InForce(upd, link.n)

\* An update in force that the slot will not apply any more.
Miss(g, u) ==
  [g EXCEPT !.anchorLost = @ \/ u.kind \in {"conn", "rate"},
            !.mapLost = @ \/ u.kind = "map",
            !.phyLost = @ \/ u.kind = "phy"]

\* A procedure that follows one the slot was never told of.
Forget(g) == IF upd = NoUpdate \/ upd.told THEN g ELSE Miss(g, upd)

----------------------------------------------------------------------------
(* The slot's arithmetic.                                                  *)

\* (int16_t)x
Signed(x) == IF x % W < W \div 2 THEN x % W ELSE (x % W) - W

UnmappedMode(s) == s.csa2 /\ s.encrypted /\ ~s.trusted
RelockThreshold(s) == IF UnmappedMode(s) THEN UnmappedRelock ELSE RelockAfter
Relocking(s) == s.miss >= RelockThreshold(s)

ProbeUnmapped(s) ==
  /\ s.csa2 /\ s.encrypted /\ s.trusted
  /\ s.miss >= ProbeAfter
  /\ ((s.miss - ProbeAfter) \div 2) % 2 = 1

YieldsToScan(s) ==
  SingleTarget /\ Relocking(s) /\ (s.miss - RelockThreshold(s)) % 2 = 0

\* Mutation: a hint that arrives after its instant waits for ever.
DueExactly(s) == s.pending # NoUpdate /\ s.cnt = s.pending.instant

Due(s) == s.pending # NoUpdate /\ Signed(s.cnt - s.pending.instant) >= 0

Late(s) == (s.cnt - s.pending.instant) % W

\* Mutation: an update applied late is not compensated.
ApplyConnUncompensated(s, u) ==
  [s EXCEPT !.interval = u.interval, !.mts = @ + u.offset,
            !.firstWin = WinSize + 2 * Guard + Steady]

ApplyConn(s, u) ==
  [s EXCEPT !.interval = u.interval,
            !.mts = @ + u.offset + Late(s) * (u.interval - s.interval),
            !.firstWin = WinSize + 2 * Guard + Steady]

ApplyRate(s, u) ==
  LET r == [s EXCEPT !.interval = u.interval,
                     !.mts = @ + u.offset,
                     !.firstWin = Least(2 * Guard + Steady, u.interval)]
  IN  IF u.factor = 1 THEN r
      ELSE [r EXCEPT !.factor = u.factor, !.base = s.pending.instant,
                     !.cont = Continuation, !.contLeft = Continuation]

ApplyPhy(s, u) ==
  [s EXCEPT !.phy = u.phy, !.firstWin = 4 * Guard + Coded]

ApplyMap(s, u) ==
  [s EXCEPT !.map = u.map, !.trusted = @ \/ s.pending.hinted]

ApplyPendingIfDue(s) ==
  IF ~Due(s) THEN s
  ELSE LET u == s.pending.update
           applied == CASE u.kind = "conn" -> ApplyConn(s, u)
                        [] u.kind = "rate" -> ApplyRate(s, u)
                        [] u.kind = "phy"  -> ApplyPhy(s, u)
                        [] u.kind = "map"  -> ApplyMap(s, u)
       IN  [applied EXCEPT !.pending = NoUpdate]

\* Skip d events, anchor and counter together.
Skip(s, d) == [s EXCEPT !.cnt = (@ + d) % W, !.mts = @ + d * s.interval]

\* Mutation: subrating skips the instant of a pending update.
SubrateSkipPastInstant(s) ==
  LET phase == ((s.cnt - s.base) % W) % s.factor
  IN  CASE s.factor = 1 -> s
        [] s.factor > 1 /\ s.contLeft > 0 -> [s EXCEPT !.contLeft = @ - 1]
        [] s.factor > 1 /\ s.contLeft = 0 /\ phase = 0 -> s
        [] OTHER -> Skip(s, s.factor - phase)

SubrateSkip(s) ==
  LET phase == ((s.cnt - s.base) % W) % s.factor
      toInstant == Signed(s.pending.instant - s.cnt)
      full == s.factor - phase
      skip == IF s.pending # NoUpdate /\ toInstant >= 0 /\ toInstant < full
              THEN toInstant ELSE full
  IN  CASE s.factor = 1 -> s
        [] s.factor > 1 /\ s.contLeft > 0 -> [s EXCEPT !.contLeft = @ - 1]
        [] s.factor > 1 /\ s.contLeft = 0 /\ phase = 0 -> s
        [] OTHER -> Skip(s, skip)

\* Mutation: the counter is not kept modulo its width.
NextCounterWide(s) == [s EXCEPT !.cnt = @ + 1]

NextCounter(s) == [s EXCEPT !.cnt = (@ + 1) % W]

YieldEvent(s) ==
  IF YieldsToScan(s) THEN SubrateSkip(Skip(s, 1)) ELSE s

\* The width of the window serve_open gives the slot.
OpenGuard(s) == OpenLead(s.phy, s.interval)

Window(s) ==
  LET w == Least(s.miss - RelockThreshold(s), WidenMax)
      steady == 2 * OpenGuard(s) + (IF s.phy = "Coded" THEN Coded ELSE Steady)
      first == IF s.firstWin # 0 THEN s.firstWin ELSE steady
      wide == IF Relocking(s) THEN Greatest(first, 2 * OpenGuard(s) + RelockSpan * 2^w)
              ELSE first
  IN  Least(wide, s.interval - LateLead)

\* Mutation: any slot that lost its link searches through the PHYs.
ListenPhySearching(s) ==
  IF Relocking(s)
  THEN IF (s.miss - RelockThreshold(s)) % 2 = 1 THEN "2M" ELSE "1M"
  ELSE s.phy

ListenPhy(s) ==
  IF Relocking(s) /\ s.encrypted
  THEN IF (s.miss - RelockThreshold(s)) % 2 = 1 THEN "2M" ELSE "1M"
  ELSE s.phy

----------------------------------------------------------------------------
(* What a late or unheard update does to the slot (ghost).                 *)

\* The slot has applied its pending update: the anchor is then wrong if the
\* compensation was not due, the window too narrow for the place of a second
\* update in the transmit window of the first.
NoteApplied(s, g) ==
  IF ~Due(s) THEN g
  ELSE LET u == s.pending.update
       IN  [g EXCEPT
              !.anchorLost = @ \/ (Late(s) # 0 /\ u.kind = "rate")
                               \/ (g.reanchored /\ u.kind \in {"conn", "rate"})
                               \/ (g.unplaced /\ u.kind \in {"conn", "rate", "phy"}),
              !.mapLost = @ /\ u.kind # "map",
              !.phyLost = @ /\ u.kind # "phy",
              !.reanchored = FALSE,
              !.unplaced = @ \/ u.kind = "conn"]

\* The link already has another anchor or interval than the slot applied.
Overdue(u) == u # NoUpdate /\ u.kind \in {"conn", "rate"} /\ u.instant <= link.n
Reanchors ==
  \/ Overdue(upd) /\ ~upd.told
  \/ slot.pending # NoUpdate /\ Overdue(slot.pending.update)

----------------------------------------------------------------------------
(* build_slot: from the slot's own CONNECT_IND, or k events late from an   *)
(* inject.                                                                 *)

Init ==
  \E start \in Starts, k \in SkipsAtStart, csa2 \in BOOLEAN,
     map \in Maps, i \in ConnIntervals, p \in {0, WinSize} :
    /\ start > 0 => csa2 /\ k = 0
    /\ link = [n |-> start + k, last |-> start + MaxEvents, interval |-> i,
               map |-> map, phy |-> "1M", updates |-> 0]
    /\ upd = NoUpdate
    /\ slot = [active |-> TRUE, csa2 |-> csa2, cnt |-> (start + k) % W,
               mts |-> -p, head |-> Preamble["1M"], interval |-> i, map |-> map, last |-> 0, phy |-> "1M",
               firstWin |-> WinSize + 2 * Guard + Steady, miss |-> 0,
               encrypted |-> FALSE, trusted |-> TRUE, pending |-> NoUpdate,
               factor |-> 1, base |-> 0, cont |-> 0, contLeft |-> 0]
    /\ win = Closed
    /\ ghost = [anchorLost |-> FALSE, mapLost |-> FALSE, phyLost |-> FALSE,
                mapMoved |-> FALSE, reanchored |-> FALSE, unplaced |-> TRUE,
                skipped |-> k > 0]

\* The central starts a procedure in an event the sniffer does not hear.
AnnounceUnheard ==
  /\ CentralFree
  /\ \E u \in Updates :
       /\ upd' = u
       /\ link' = [link EXCEPT !.updates = @ + 1]
       /\ ghost' = Forget(ghost)
  /\ UNCHANGED <<slot, win>>

\* poll_hint: the host relays an update it has decrypted, perhaps after its
\* instant.
Hint ==
  /\ slot.active /\ slot.encrypted
  /\ upd # NoUpdate /\ ~upd.told
  /\ link.n - upd.instant <= MaxLate
  /\ upd' = [upd EXCEPT !.told = TRUE]
  /\ slot' = [slot EXCEPT !.pending =
                [kind |-> upd.kind, instant |-> upd.instant % W,
                 hinted |-> TRUE, update |-> upd]]
  /\ ghost' = IF slot.pending = NoUpdate THEN ghost
              ELSE Miss(ghost, slot.pending.update)
  /\ UNCHANGED <<link, win>>

\* The channel of the event; CSA#1 advances its unmapped channel.
Probes(s) == ~UnmappedMode(s) /\ ProbeUnmapped(s)
Hopped(s) == IF s.csa2 THEN s ELSE [s EXCEPT !.last = Csa1Step(@, Hop)]
ChannelForEvent(s) ==
  CASE ~s.csa2 -> Csa1Channel(Hopped(s).last, s.map)
    [] s.csa2 /\ (UnmappedMode(s) \/ Probes(s)) -> UnmappedChannel(s.cnt)
    [] OTHER -> Csa2Next(s.cnt, s.map)

\* The timer was armed for next_mts less the lead before an update is applied
\* here: the window opens there also when the update moves the anchor.
ServeOpen ==
  /\ slot.active /\ ~win.open /\ link.n < link.last
  /\ LET s == ApplyPendingIfDue(slot)
     IN  /\ slot' = Hopped(s)
         /\ win' = [open |-> TRUE, probing |-> Probes(s),
                    channel |-> ChannelForEvent(s),
                    phy |-> ListenPhy(s),
                    armed |-> slot.phy,
                    from |-> slot.mts + slot.head - OpenGuard(slot),
                    to |-> slot.mts + slot.head - OpenGuard(slot) + Window(s),
                    moved |-> Due(slot) /\ slot.pending.kind \in {"conn", "rate"},
                    informed |-> ~(InForce(upd, link.n) /\ ~upd.told),
                    heard |-> "nothing"]
  /\ ghost' = NoteApplied(slot, ghost)
  /\ UNCHANGED <<link, upd>>

\* The receiver syncs on a packet whose preamble and access address are inside
\* the window.
InWindow == win.from <= 0 /\ Preamble[link.phy] <= win.to

Reaches ==
  /\ win.open /\ win.heard = "nothing"
  /\ win.channel = TrueChannel(link, slot.csa2)
  /\ win.phy = link.phy
  /\ InWindow

\* The event's first packet, CRC wrong: an anchor all the same.
HearCorrupt ==
  /\ Reaches
  /\ win' = [win EXCEPT !.heard = "corrupt"]
  /\ UNCHANGED <<link, upd, slot, ghost>>

HearEmpty ==
  /\ Reaches
  /\ win' = [win EXCEPT !.heard = "good"]
  /\ UNCHANGED <<link, upd, slot, ghost>>

\* A packet with payload that is no LL control PDU, or one not followed.
HearData ==
  /\ Reaches
  /\ win' = [win EXCEPT !.heard = "good"]
  /\ slot' = [slot EXCEPT !.contLeft = slot.cont]
  /\ UNCHANGED <<link, upd, ghost>>

\* LL_ENC_REQ
HearEncryption ==
  /\ Reaches /\ ~slot.encrypted
  /\ win' = [win EXCEPT !.heard = "good"]
  /\ slot' = [slot EXCEPT !.contLeft = slot.cont, !.encrypted = TRUE]
  /\ UNCHANGED <<link, upd, ghost>>

\* LL_CHANNEL_MAP_IND, LL_CONNECTION_UPDATE_IND, LL_PHY_UPDATE_IND,
\* LL_CONNECTION_RATE_IND
HearUpdate ==
  /\ Reaches /\ ~slot.encrypted /\ CentralFree
  /\ \E u \in Updates :
       /\ upd' = [u EXCEPT !.told = TRUE]
       /\ slot' = [slot EXCEPT !.contLeft = slot.cont,
                     !.pending = [kind |-> u.kind, instant |-> u.instant % W,
                                  hinted |-> FALSE, update |-> u]]
  /\ win' = [win EXCEPT !.heard = "good"]
  /\ link' = [link EXCEPT !.updates = @ + 1]
  /\ ghost' = Forget(ghost)

\* LL_SUBRATE_IND: in force from the event that carries it.
HearSubrate ==
  /\ Reaches /\ ~slot.encrypted /\ slot.factor = 1
  /\ \E factor \in Factors :
       slot' = [slot EXCEPT !.factor = factor, !.base = link.n % W,
                            !.cont = Continuation, !.contLeft = Continuation]
  /\ win' = [win EXCEPT !.heard = "good"]
  /\ UNCHANGED <<link, upd, ghost>>

\* Mutation: any packet heard while probing convicts the map.
AccountAnyProbe(s) ==
  IF win.heard # "nothing"
  THEN [s EXCEPT !.miss = 0, !.trusted = @ /\ ~win.probing]
  ELSE [s EXCEPT !.miss = @ + 1, !.active = s.miss + 1 < Limit]

\* serve_close, accounting: liveness, a changed map, loss.
Account(s) ==
  IF win.heard # "nothing"
  THEN [s EXCEPT !.miss = 0,
                 !.trusted = @ /\ ~(win.probing /\ win.channel \notin s.map)]
  ELSE [s EXCEPT !.miss = @ + 1, !.active = s.miss + 1 < Limit]

\* ... the next anchor.
Anchor(s) ==
  IF win.heard # "nothing"
  THEN [s EXCEPT !.mts = s.interval, !.head = Preamble[win.phy], !.firstWin = 0]
  ELSE [s EXCEPT !.mts = @ + s.interval]

ServeClose ==
  /\ win.open
  /\ LET s == Anchor(Account(slot))
         next == YieldEvent(SubrateSkip(NextCounter(s)))
         d == (next.cnt - slot.cnt) % W
         g == [ghost EXCEPT
                 !.skipped = @ \/ d > 1,
                 !.mapMoved = @ \/ (TakesEffect(d) /\ upd.kind = "map" /\ ~upd.told),
                 !.reanchored = @ \/ (win.heard # "nothing" /\ Reanchors),
                 !.unplaced = @ /\ win.heard = "nothing"]
     IN  IF s.active
         THEN /\ slot' = [ApplyPendingIfDue(next) EXCEPT !.mts = @ - Distance(d)]
              /\ link' = LinkAfter(d)
              /\ ghost' = NoteApplied(next, g)
         ELSE /\ slot' = s
              /\ UNCHANGED <<link, ghost>>
  /\ win' = Closed
  /\ UNCHANGED upd

Next ==
  \/ AnnounceUnheard
  \/ Hint
  \/ ServeOpen
  \/ HearCorrupt
  \/ HearEmpty
  \/ HearData
  \/ HearEncryption
  \/ HearUpdate
  \/ HearSubrate
  \/ ServeClose

Spec == Init /\ [][Next]_vars

----------------------------------------------------------------------------

TypeOK ==
  /\ link.n \in Nat /\ link.interval \in Intervals
  /\ link.map \in Maps /\ link.phy \in Phys
  /\ slot.cnt \in 0..W-1 /\ slot.mts \in Int /\ slot.head \in Nat /\ slot.interval \in Intervals
  /\ slot.map \in Maps /\ slot.last \in 0..NChannels-1 /\ slot.phy \in Phys
  /\ slot.miss \in 0..Limit /\ slot.base \in 0..W-1
  /\ slot.factor \in Factors \cup {1}
  /\ slot.contLeft \in 0..Continuation
  /\ {slot.active, slot.encrypted, slot.trusted, win.open} \subseteq BOOLEAN

\* The packet of the event is in the window, whatever was skipped, missed or
\* relayed late, as long as the slot has been told of every update in force.
\* Not promised: a connection rate update applied late (line 1350 does not
\* compensate), nor a hint for a slot that found the new anchor by itself, nor
\* a second update before a packet located the slot after the first (the
\* places in two transmit windows add up, the window of a PHY update is no
\* wider for a transmit window); an anchor an update moves as the window opens;
\* an anchor measured with a longer preamble than the one the lead allows for
\* (an update from Coded to another PHY); a first window at an interval so long
\* that its lead takes all that the window adds to the transmit window.
AnchorInWindow ==
  ( /\ win.open /\ win.informed /\ ~ghost.anchorLost /\ ~win.moved
    /\ slot.head <= Preamble[win.armed]
    /\ slot.firstWin = 0 \/ slot.interval <= LongestFirst )
    => InWindow

\* "the first window is still widened by WinSize to cover any position within
\* the window" (line 1334): at any interval, and whenever it is applied.
FirstWindowCovers ==
  win.open /\ win.informed /\ ~ghost.anchorLost /\ slot.firstWin # 0 => InWindow

\* "the window has to bring the radio up before the packet's very first
\* preamble bit" (line 1580): of a slot that has been told of every update
\* before it armed the window.
OpensBeforePreamble ==
  win.open /\ win.informed /\ ~win.moved /\ ~ghost.anchorLost => win.from <= 0

\* The receiver is on the channel the link is on.  Not while it probes for a
\* changed map; with CSA#1, not once an event was skipped (see HopIsCorrect).
HopsWithLink ==
  ( /\ win.open /\ win.informed /\ ~win.probing /\ ~UnmappedMode(slot)
    /\ ~ghost.mapLost
    /\ slot.csa2 \/ ~ghost.skipped )
    => win.channel = TrueChannel(link, slot.csa2)

\* ... and listens on its PHY, unless it searches for a PHY it may not know.
ListensOnLinkPhy ==
  ( /\ win.open /\ win.informed /\ ~ghost.phyLost
    /\ ~(slot.encrypted /\ Relocking(slot)) )
    => win.phy = link.phy

\* Only a map that did change without the slot's knowledge is distrusted: a
\* packet heard while probing is no accident of the remapping.
DistrustIsJustified == ~slot.trusted => ghost.mapMoved

\* Subrating and relocking skip events, but never a subscribed one nor the
\* instant of an update the slot knows, except the one event that a relock
\* leaves to the guard channel.
SkipsNothingDue ==
  [][ win.open /\ ~win'.open /\ slot'.active =>
        LET due(m) == \/ (m - slot.base) % slot.factor = 0
                      \/ /\ slot.pending # NoUpdate
                         /\ slot.pending.update.instant = m
        IN  Cardinality({m \in (link.n + 1)..(link'.n - 1) : due(m)})
              <= IF YieldsToScan(Account(slot)) THEN 1 ELSE 0 ]_vars

\* poll_inject: "event_counter is set to k accordingly, so the CSA hop is
\* correct".
HopIsCorrect ==
  win.open /\ win.informed /\ ~win.probing /\ ~ghost.mapLost
    => win.channel = TrueChannel(link, slot.csa2)
=============================================================================
