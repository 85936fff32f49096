------------------------------- MODULE IsoEvents -------------------------------
(***************************************************************************)
(* The slots of isochronous streams (conn_follower.c): the streams of one  *)
(* BIG, a CIS, or a periodic train with responses.  An event has several   *)
(* subevents, each on a channel of its own, and every stream has its place *)
(* in the event.  One radio serves them all, earliest opening first; a     *)
(* slot finds its next event from a fixed anchor and the time elapsed, and *)
(* moves the anchor with each packet it hears.                             *)
(*                                                                         *)
(* Every time is relative to now, which moves on with the steps: to the    *)
(* opening of a window, to the end of a packet, to the close.  The air is  *)
(* where the stream really is, a slot where the code thinks it is.         *)
(***************************************************************************)
EXTENDS ChannelSelection

CONSTANTS
  Kinds,         \* of what is followed: "bis", "cis", "pawr"
  NStreams,      \* of a BIG
  ChanIds, Map,  \* channel id of each stream; the channels in use
  Interval, Nse, \* time between events; subevents in one
  Layouts,       \* distance of subevents, distance of streams
  PacketAir, Ifs,                     \* a packet's time on air, T_IFS
  WideGuard, LockedGuard, Tail, LateLead, RxReady,
  Span, SpanMargin, WidenEvery, WidenMax,     \* of the search window
  RspDelay,      \* from a subevent to its first response slot
  RelockMiss, Limit,                          \* events missed
  Rounding,      \* unit of the offset the first anchor comes from
  Errors,        \* by how much the first anchor may be early
  Starts,        \* event counters at which following starts
  Lates, MaxUpsets, MaxDrift                  \* bounds of the environment

ASSUME StreamsAssumption ==
  /\ Kinds \subseteq {"bis", "cis", "pawr"}
  /\ NStreams \in Nat \ {0} /\ Nse \in Nat \ {0} /\ Interval \in Nat \ {0}
  /\ ChanIds \in [1..NStreams -> 0..W-1] /\ Starts \subseteq 0..W-1
  /\ Map \subseteq 0..NChannels-1 /\ IsFiniteSet(Map) /\ Cardinality(Map) > 1

ASSUME TimesAssumption ==
  /\ \A x \in {PacketAir, Ifs, RspDelay, WideGuard, LockedGuard, Tail, LateLead, RxReady,
               Limit, MaxUpsets, MaxDrift, Rounding, Span, SpanMargin, WidenMax} : x \in Nat
  /\ WidenEvery \in Nat \ {0} /\ \A w \in 0..WidenMax : 2^w \in Nat
  /\ Lates \subseteq Nat /\ Errors \subseteq 0..Rounding
  /\ LockedGuard <= WideGuard
  /\ MaxDrift <= WideGuard

\* A packet next to the one a window was opened for is out of its guards: that
\* of another event, of the next subevent but one, of any subevent of a train.
Reach(kind) ==
  LET turn == IF kind = "cis" THEN PacketAir + Ifs ELSE 0
  IN  WideGuard + turn + MaxDrift + Greatest(turn, Rounding)

ASSUME LayoutsAssumption ==
  /\ \A y \in Layouts :
       /\ y.sub \in Nat \ {0} /\ y.spacing \in Nat
       /\ (NStreams - 1) * y.spacing + (Nse - 1) * y.sub + PacketAir < Interval
       /\ \A kind \in Kinds : (kind # "bis" => y.sub > 2 * PacketAir + Ifs + RspDelay) =>
            /\ (Nse - 1) * y.sub + Reach(kind) < Interval
            /\ Nse > 2 => Reach(kind) < 2 * y.sub
  /\ 2 * (MaxDrift + Rounding) <= Interval
  /\ WideGuard + MaxDrift + Rounding <= 2 * PacketAir + Ifs + RspDelay

\* The streams of a BIG take turns: from one subevent to any other, those of the
\* next event included, it is as far as from one subevent to the next.
ASSUME RoomAssumption ==
  /\ \A y \in Layouts :
       LET room == IF Nse > 1 THEN IF y.sub < y.spacing THEN y.sub ELSE y.spacing
                   ELSE y.spacing
       IN  /\ Nse > 1 => y.sub > LateLead
           /\ NStreams > 1 => room > LateLead
           /\ \A b, c \in 1..NStreams, k, l \in 0..Nse-1, j \in -1..1 : b # c =>
                LET d == (c - b) * y.spacing + (l - k) * y.sub + j * Interval
                IN  d >= room \/ -d >= room
  \* Between two packets heard the clocks drift by no more than that lead.
  /\ MaxDrift <= LateLead
  \* A CIS anchored on the peripheral's packet does not hear the central's early.
  /\ LockedGuard <= LateLead \/ LockedGuard + MaxDrift < PacketAir + Ifs

VARIABLES
  group,   \* what is followed, and its layout
  air,     \* the event on the air now, and what the air is like
  slots,   \* one for each stream followed
  win      \* the window open for one of them, or Closed

vars == <<group, air, slots, win>>

Closed == [open |-> FALSE]
Free == [active |-> FALSE]
Active == {b \in DOMAIN slots : slots[b].active}

\* bis_pdu_air_us: a subevent of a CIS has a packet in each direction.
Air == IF group.kind = "cis" THEN 2 * PacketAir + Ifs ELSE PacketAir

\* bis_slot_spacing: from one packet to the next one followed; 0 is none.
SlotSpacing ==
  LET others == group.kind = "bis" /\ NStreams > 1
  IN  CASE Nse > 1 /\ others -> Least(group.sub, group.spacing)
        [] Nse > 1 /\ ~others -> group.sub
        [] Nse = 1 /\ others -> group.spacing
        [] OTHER -> 0

----------------------------------------------------------------------------
(* The air.                                                                *)

\* ble_csa2_iso_event and ble_csa2_iso_subevent for the streams followed.
EventHop == [b \in 1..NStreams |->
              [n \in 0..W-1 |-> IsoEvent(n, ChanIds[b], Map)]]

SubeventHop == [b \in 1..NStreams |->
                 [hop \in [lu : 0..W-1, index : 0..Cardinality(Map)-1] |->
                    IsoSubevent(hop, ChanIds[b], Map)]]

\* The channels of the subevents of event n of stream b.
TrueChannels ==
  LET hops(b, n) ==
        LET h[k \in 0..Nse-1] == IF k = 0 THEN EventHop[b][n]
                                 ELSE SubeventHop[b][h[k - 1]]
        IN  h
  IN  [b \in 1..NStreams |->
         [n \in 0..W-1 |->
            [k \in 0..Nse-1 |-> IsoChannel(hops(b, n)[k], Map)]]]

PawrChannels == [n \in 0..W-1 |->
                  [k \in 0..Nse-1 |-> Csa2Channel(PrnE(Xor(n, k), ChanIds[1]), Map)]]

TrueChannel(b, n, k) ==
  IF group.kind = "pawr" THEN PawrChannels[n][k] ELSE TrueChannels[b][n][k]

\* Where stream b's subevent k of the j-th event from now is.
StartOf(b, j, k) ==
  air.at + j * Interval + (b - 1) * group.spacing + k * group.sub

\* The packets of a stream around now.
Packets(b) ==
  LET p(j, k, dt, aa) == [at |-> StartOf(b, j, k) + dt, aa |-> aa,
                          channel |-> TrueChannel(b, (air.n + j) % W, k)]
      subevents == (-1..2) \X (0..Nse-1)
  IN  {p(x[1], x[2], 0, "own") : x \in subevents}
      \cup (IF group.kind = "cis"
            THEN {p(x[1], x[2], PacketAir + Ifs, "own") : x \in subevents} ELSE {})
      \cup (IF group.kind = "pawr"
            THEN {p(x[1], x[2], RspDelay, "rsp") : x \in subevents} ELSE {})

\* Those the open window still has before it, whole.
InReach == { p \in Packets(win.b) :
               /\ air.on
               /\ p.channel = win.channel /\ p.aa = win.aa
               /\ p.at >= 0 /\ p.at + PacketAir <= win.to }

Coming == {p \in InReach : \A q \in InReach : p.at <= q.at}

\* Time passes.
AirAfter(dt) ==
  LET at == air.at - dt
      k == IF at < 0 THEN (-at) \div Interval ELSE 0
  IN  [air EXCEPT !.n = (@ + k) % W, !.at = at + k * Interval]

SlotAfter(s, dt) ==
  IF s.active THEN [s EXCEPT !.anchor = @ - dt, !.event = @ - dt, !.next = @ - dt]
  ELSE s

SlotsAfter(dt) == [b \in DOMAIN slots |-> SlotAfter(slots[b], dt)]

----------------------------------------------------------------------------
(* The windows.                                                            *)

Guard(s) ==
  LET need == Air + Tail + LateLead
  IN  CASE ~s.locked -> WideGuard
        [] s.locked /\ SlotSpacing = 0 -> LockedGuard
        [] OTHER -> Least(LockedGuard, Greatest(0, SlotSpacing - need))

OpenAt(s) == s.next - Guard(s)

\* arm_next: at its time, or as soon as possible.
Due(s) == IF OpenAt(s) < 0 THEN LateLead ELSE OpenAt(s)

\* earliest_event
IsEarliest(b) ==
  \A c \in Active :
    \/ OpenAt(slots[b]) < OpenAt(slots[c])
    \/ OpenAt(slots[b]) = OpenAt(slots[c]) /\ b <= c

\* Mutation: a locked slot keeps its search window.
WindowAlwaysSearches(s) ==
  IF s.rsp THEN group.sub - RspDelay - RxReady
  ELSE Least(2 * Guard(s) + Air + Span, Interval - SpanMargin)

Window(s) ==
  LET w == Least(s.miss \div WidenEvery, WidenMax)
      whole == Guard(s) + Air + Tail
  IN  CASE s.rsp -> group.sub - RspDelay - RxReady
        [] ~s.rsp /\ s.locked /\ SlotSpacing > LateLead ->
             Least(whole, SlotSpacing - LateLead)
        [] ~s.rsp /\ s.locked /\ SlotSpacing <= LateLead -> whole
        [] OTHER -> Least(2 * Guard(s) + Air + Span * 2^w, Interval - SpanMargin)

\* bis_channel_for_subevent: the walk, and the channel it has come to.
Hopped(b, s) ==
  CASE s.rsp \/ group.kind = "pawr" -> s.hop
    [] ~s.rsp /\ group.kind # "pawr" /\ s.se = 0 -> EventHop[b][s.cnt]
    [] OTHER -> SubeventHop[b][s.hop]

ChannelFor(b, s) ==
  CASE s.rsp -> s.channel
    [] ~s.rsp /\ group.kind = "pawr" -> PawrChannels[s.cnt][s.se]
    [] OTHER -> IsoChannel(Hopped(b, s), Map)

\* The event of stream b nearest to a time, counted from now; how far it is.
EventAt(b, at) == (at - StartOf(b, 0, 0) + Interval \div 2) \div Interval
ErrorAt(b, at) == at - StartOf(b, EventAt(b, at), 0)
AnchorError(b) == ErrorAt(b, slots[b].anchor)

\* All streams are locked, and their anchors no further apart than the time
\* a late opening is given.
Orderly ==
  \A b, c \in Active : slots[b].locked /\ AnchorError(b) - AnchorError(c) <= LateLead

\* A packet of the stream later than the one the window was opened for
\* (ghost): on the same channel by chance, it is taken for that one.
Strays(s, p) == p.at > s.next + WideGuard + (Air - PacketAir)

----------------------------------------------------------------------------
(* serve_close.                                                            *)

\* Whether this was the event's last subevent, or the only one searched for.
EventEnds(s) == ~s.locked \/ s.se + 1 >= Nse

Account(s) ==
  IF s.hit THEN [s EXCEPT !.miss = 0]
  ELSE [s EXCEPT !.miss = @ + 1,
                 !.locked = @ /\ s.miss + 1 < RelockMiss,
                 !.active = s.miss + 1 < Limit]

NextSubevent(s) ==
  [s EXCEPT !.se = @ + 1, !.next = s.event + (s.se + 1) * group.sub]

\* Mutation: the counter goes up by one, whatever was skipped.
NextEventByOne(s) ==
  LET k == (IF s.anchor < 0 THEN (-s.anchor) \div Interval ELSE 0) + 1
      at == s.anchor + k * Interval
  IN  [s EXCEPT !.se = 0, !.hit = FALSE, !.event = at, !.next = at,
                !.cnt = (@ + 1) % W]

NextEvent(s) ==
  LET k == (IF s.anchor < 0 THEN (-s.anchor) \div Interval ELSE 0) + 1
      at == s.anchor + k * Interval
  IN  [s EXCEPT !.se = 0, !.hit = FALSE, !.event = at, !.next = at,
                !.cnt = (s.anchorCnt + k) % W]

ListensToResponses(s) ==
  group.kind = "pawr" /\ ~s.rsp /\ s.locked /\ RspDelay < group.sub

Close(s, data) ==
  LET t == [s EXCEPT !.rsp = FALSE, !.hit = @ \/ (data /\ ~s.rsp)]
      u == IF EventEnds(s) THEN Account(t) ELSE t
  IN  CASE ListensToResponses(s) ->
             [s EXCEPT !.rsp = TRUE, !.hit = @ \/ data,
                       !.next = s.event + s.se * group.sub + RspDelay]
        [] ~ListensToResponses(s) /\ ~u.active -> Free
        [] OTHER -> IF EventEnds(s) THEN NextEvent(u) ELSE NextSubevent(u)

\* How many packets a window waits for.
Want == IF group.kind = "cis" THEN 2 ELSE 1

----------------------------------------------------------------------------

\* start_bis_stream, start_cis, start_periodic: the anchor comes from an
\* offset in units of 30 or 300 us, rounded down.
Init ==
  \E kind \in Kinds, y \in Layouts, n \in Starts, e \in Errors :
    /\ kind # "bis" => y.sub > 2 * PacketAir + Ifs + RspDelay
    /\ group = [kind |-> kind, sub |-> y.sub, spacing |-> y.spacing]
    /\ air = [n |-> n, at |-> WideGuard + e, on |-> TRUE, fading |-> FALSE,
              upsets |-> MaxUpsets, drift |-> 0]
    /\ slots = [b \in IF kind = "bis" THEN 1..NStreams ELSE {1} |->
                  LET at == WideGuard + (b - 1) * y.spacing
                  IN  [active |-> TRUE, locked |-> FALSE, cnt |-> n, anchorCnt |-> n,
                       anchor |-> at, event |-> at, next |-> at, se |-> 0,
                       miss |-> 0, hit |-> FALSE, rsp |-> FALSE, channel |-> 0,
                       hop |-> [lu |-> 0, index |-> 0], overran |-> FALSE]]
    /\ win = Closed

\* serve_open of the earliest slot: at its time, or at once, or later still
\* because the radio was busy with a slot of another kind.
ServeOpen ==
  /\ ~win.open
  /\ \E b \in Active, late \in Lates \cup {0} :
       /\ IsEarliest(b)
       /\ late > 0 => air.upsets > 0
       /\ \E t \in {Due(slots[b]) + late}, channel \in {ChannelFor(b, slots[b])} :
            /\ air' = [AirAfter(t) EXCEPT !.upsets = IF late > 0 THEN @ - 1 ELSE @]
            /\ win' = [open |-> TRUE, b |-> b, channel |-> channel,
                       aa |-> IF slots[b].rsp THEN "rsp" ELSE "own",
                       to |-> Window(slots[b]), packets |-> 0, data |-> FALSE,
                       orderly |-> Orderly /\ t = OpenAt(slots[b])]
            /\ slots' = [SlotsAfter(t) EXCEPT
                            ![b].channel = channel, ![b].hop = Hopped(b, slots[b])]
  /\ UNCHANGED group

\* Mutation: the anchor is the packet's, whatever its subevent.
ReanchorAnySubevent(s, at) ==
  [s EXCEPT !.anchor = at, !.event = at, !.anchorCnt = s.cnt, !.locked = TRUE]

\* Mutation: a stream heard is searched for all the same.
ReanchorKeepsSearching(s, at) ==
  LET start == at - s.se * group.sub
  IN  [s EXCEPT !.anchor = start, !.event = start, !.anchorCnt = s.cnt]

\* A packet of the slot, starting at the time given.
Reanchor(s, at) ==
  LET start == at - s.se * group.sub
  IN  [s EXCEPT !.anchor = start, !.event = start, !.anchorCnt = s.cnt,
                !.locked = TRUE]

\* conn_follower_on_packet: the window closes as soon as it has what it
\* wants.
Hear ==
  /\ win.open /\ ~air.fading
  /\ \E p \in Coming, good \in BOOLEAN :
       /\ good \/ air.upsets > 0
       /\ \E t \in {p.at + PacketAir} :
          \E s \in {SlotAfter(slots[win.b], t)} :
          \E r \in {IF good /\ ~s.rsp
                   THEN [Reanchor(s, -PacketAir) EXCEPT
                           !.overran = @ \/ Strays(slots[win.b], p)]
                   ELSE s} :
            LET w == [win EXCEPT !.to = @ - t, !.packets = @ + 1, !.data = @ \/ good]
                done == r.locked /\ ~r.rsp /\ w.packets >= Want
            IN  /\ air' = [AirAfter(t) EXCEPT !.upsets = IF good THEN @ ELSE @ - 1]
                /\ slots' = [SlotsAfter(t) EXCEPT
                               ![win.b] = IF done THEN Close(r, w.data) ELSE r]
                /\ win' = IF done THEN Closed ELSE w
  /\ UNCHANGED group

\* A packet lost in a fade.
Lose ==
  /\ win.open /\ air.fading
  /\ \E p \in Coming :
       /\ air' = AirAfter(p.at + 1)
       /\ slots' = SlotsAfter(p.at + 1)
       /\ win' = [win EXCEPT !.to = @ - (p.at + 1)]
  /\ UNCHANGED group

\* serve_close, from the timer.
ServeClose ==
  /\ win.open /\ InReach = {}
  /\ air' = AirAfter(win.to)
  /\ \E s \in {SlotAfter(slots[win.b], win.to)} :
       slots' = [SlotsAfter(win.to) EXCEPT ![win.b] = Close(s, win.data)]
  /\ win' = Closed
  /\ UNCHANGED group

\* Fades, and the end of the stream, make a difference in a window only.
FadeIn ==
  /\ win.open /\ air.on /\ ~air.fading /\ air.upsets > 0
  /\ air' = [air EXCEPT !.fading = TRUE, !.upsets = @ - 1]
  /\ UNCHANGED <<group, slots, win>>

FadeOut ==
  /\ win.open /\ air.fading
  /\ air' = [air EXCEPT !.fading = FALSE]
  /\ UNCHANGED <<group, slots, win>>

\* The clocks of the two devices drift apart.
Drift ==
  /\ air.on /\ ~win.open /\ air.drift = 0
  /\ \E d \in -MaxDrift..MaxDrift :
       air' = [air EXCEPT !.at = @ + d, !.drift = d]
  /\ UNCHANGED <<group, slots, win>>

\* The stream ends.
End ==
  /\ win.open /\ air.on
  /\ air' = [air EXCEPT !.on = FALSE]
  /\ UNCHANGED <<group, slots, win>>

Progress ==
  \/ ServeOpen
  \/ Hear
  \/ Lose
  \/ ServeClose

Next ==
  \/ Progress
  \/ FadeIn
  \/ FadeOut
  \/ Drift
  \/ End

Spec == Init /\ [][Next]_vars

\* The timer and the receiver go on, and a fade ends.
LiveSpec ==
  /\ Spec
  /\ WF_vars(Progress)
  /\ WF_vars(FadeOut)

----------------------------------------------------------------------------

Within(x, r) == x \in -r..r

\* Of the anchor of a slot: a packet heard takes the rounding of the first away.
Tolerance(s) == IF s.locked THEN MaxDrift ELSE MaxDrift + Rounding

Near(error, tolerance) ==
  \/ Within(error, tolerance)
  \/ group.kind = "cis" /\ Within(error - PacketAir - Ifs, MaxDrift)

\* Whatever is lost, served late or skipped, anchor and counter name one and
\* the same event of the stream, so that the next event is found again: off by
\* the drift and the rounding of the first anchor, once locked by the drift
\* alone.  Not so once a window took a later packet on its own channel; a CIS
\* may be anchored on the packet of either direction.
AnchorIsAnEvent ==
  \A b \in Active : ~slots[b].overran =>
    /\ Near(AnchorError(b), Tolerance(slots[b]))
    /\ slots[b].anchorCnt = (air.n + EventAt(b, slots[b].anchor)) % W

\* The channel is that of the subevent on the air when the window is due,
\* although the walk through the channels cannot be entered in the middle.
ChannelOfSubevent ==
  win.open /\ ~slots[win.b].overran =>
    LET s == slots[win.b]
        start == s.next - (IF s.rsp THEN RspDelay ELSE 0) - s.se * group.sub
    IN  /\ Near(ErrorAt(win.b, start), MaxDrift + Rounding)
        /\ win.channel = TrueChannel(win.b, (air.n + EventAt(win.b, start)) % W, s.se)

\* Locked streams leave each other room: a window opened on time is closed
\* when the next one is due, that of a sibling or of the slot's own next
\* subevent; and it is open when its packet comes.
WindowsLeaveRoom ==
  win.open /\ win.orderly =>
    LET s == slots[win.b]
    IN  /\ \A c \in Active \ {win.b} : win.to <= OpenAt(slots[c])
        /\ s.se + 1 < Nse /\ ~s.overran => win.to <= s.event + (s.se + 1) * group.sub - Guard(s)

\* Once fades, drifts and delays are over, every slot left is locked on a
\* stream that is there: no slot starves another one or is left behind.
FoundOrReleased ==
  <>[](\A b \in Active : ~slots[b].overran => slots[b].locked /\ air.on)

\* conn_follower.c:2830: "The anchor is defined as the packet start of
\* subevent 0 of this event".
AnchorIsPacketStart ==
  \A b \in Active : ~slots[b].overran => Within(AnchorError(b), Tolerance(slots[b]))

\* conn_follower.c:2826: a good packet confirms the counter.
CounterIsConfirmed ==
  \A b \in Active : slots[b].anchorCnt = (air.n + EventAt(b, slots[b].anchor)) % W
=============================================================================
