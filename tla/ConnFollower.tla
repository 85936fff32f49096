----------------------------- MODULE ConnFollower -----------------------------
(***************************************************************************)
(* The connection follower of one board (conn_follower.c): the table of    *)
(* tracked connections and streams, the one timer line that schedules the  *)
(* radio, the radio modes, and the mailboxes other contexts post to.       *)
(*                                                                         *)
(* All follower code runs in interrupts of one priority (radio RX, TIMER,  *)
(* kick), which never preempt each other.  One interrupt is a sequence of  *)
(* steps of this module: while `isr' is not Idle no other interrupt, and   *)
(* no lower-priority context (host commands over USB), takes a step.       *)
(*                                                                         *)
(* Time is abstracted.  A slot's next_mts is kept only as its order among  *)
(* the other slots (`due', in scheduling units, normalised so that the     *)
(* earliest active slot is at 0); how far the earliest event lies from     *)
(* "now", and whether an AUX packet or the earliest event comes first, are *)
(* nondeterministic.  Payloads are abstracted to what the control flow     *)
(* looks at; event counters, channels and parameter updates are left out.  *)
(***************************************************************************)
EXTENDS Integers, FiniteSets

CONSTANTS
  NSlots,          \* CONN_FOLLOW_MAX_SLOTS
  Links,           \* access addresses of ACL connections
  Streams,         \* access addresses of periodic trains and ISO streams
  TargetLinks,     \* the links whose AdvA is the target MAC of the host
  AuxLinks,        \* the links set up by AUX_CONNECT_REQ
  Malformed,       \* the links whose parameters build_slot refuses
  Interval,        \* [Links \cup Streams -> Nat \ {0}], in scheduling units
  MaxDue,          \* bound: how far ahead of the earliest a new slot may be
  ClaimGate,       \* the answers g_claim_gate may give
  Ctrl,            \* LL control PDUs the peers (or key hints) may carry
  HostCommands,    \* commands the host may send
  Straps,          \* the advertising channels a board may be strapped to guard
  Mortal,          \* the links that may fall silent without a TERMINATE
  RelockAfter,     \* RELOCK_AFTER_MISS
  GiveUpMiss,      \* FOLLOW_ESTABLISH_GIVE_UP_MISS
  NeverHeardMiss,  \* FOLLOW_NEVER_HEARD_MISS
  MissLimit,       \* supervision_limit, per slot kind
  AuxMaxChain,     \* AUX_MAX_CHAIN
  Adv,             \* BLE_ADV_ACCESS_ADDR
  None

Slot == 0 .. NSlots - 1
Kinds == {"acl", "periodic", "iso"}
AdvChannels == 37 .. 39
DataCh == 0        \* stands for the channel of a connection event
SecondaryCh == 1   \* stands for the channel an AuxPtr names
AllCtrl == {"terminate", "cis_ind", "cis_terminate", "past", "other"}
AllCommands == {"hopping on", "hopping off", "single on", "single off", "target on",
                "target off", "channel", "follow", "hint"}

ASSUME ConstAssumption ==
  /\ NSlots \in Nat \ {0}
  /\ Links \cap Streams = {} /\ Adv \notin Links \cup Streams
  /\ None \notin Links \cup Streams \cup {Adv} \cup AdvChannels
  /\ TargetLinks \subseteq Links /\ AuxLinks \subseteq Links /\ Malformed \subseteq Links
  /\ Interval \in [Links \cup Streams -> Nat \ {0}]
  /\ Mortal \subseteq Links /\ Straps \subseteq AdvChannels /\ MaxDue \in Nat
  /\ ClaimGate \in (SUBSET BOOLEAN) \ {{}}
  /\ Ctrl \subseteq AllCtrl /\ HostCommands \subseteq AllCommands
  /\ RelockAfter \in Nat /\ GiveUpMiss \in Nat /\ NeverHeardMiss \in Nat
  /\ MissLimit \in [Kinds -> Nat] /\ RelockAfter < MissLimit["acl"]
  /\ AuxMaxChain \in Nat

VARIABLES
  slots,   \* f.slots: data of a released slot stays until it is rebuilt
  mode,    \* f.mode
  ev,      \* the event being served: f.serving_idx and what was heard in it
  sched,   \* the timer's pending callback, f.next_action, f.next_slot
  aux,     \* f.aux_pending, f.aux_chain
  scanCh,  \* f.scan_channel
  radio,   \* receiving or not, access address and channel it is tuned to
  host,    \* scan_hopping, single_target, target_active; a retune in progress
  mail,    \* the mailboxes g_inject, g_hint and past_pending
  isr,     \* the interrupt in progress: its stage and the packet, if any
  air      \* links whose setup was on the air, links that fell silent

vars == <<slots, mode, ev, sched, aux, scanCh, radio, host, mail, isr, air>>

-----------------------------------------------------------------------------
(* The slot table. *)

EmptySlot == [active |-> FALSE, kind |-> "acl", aa |-> None, due |-> 0,
              miss |-> 0, central |-> FALSE, peripheral |-> FALSE]

NewSlot(kind, aa, due) ==
  [EmptySlot EXCEPT !.active = TRUE, !.kind = kind, !.aa = aa, !.due = due]

Active(sl) == {i \in Slot : sl[i].active}
Acl(sl) == {i \in Active(sl) : sl[i].kind = "acl"}
\* Mutation: find_slot_by_aa starts at the second slot.
FollowedFromOne(sl) == {sl[i].aa : i \in Active(sl) \ {0}}

Followed(sl) == {sl[i].aa : i \in Active(sl)}

\* alloc_slot: the first free index.
Free(sl) == Slot \ Active(sl)
Alloc(sl) == CHOOSE i \in Free(sl) : \A j \in Free(sl) : i <= j

Release(sl, S) == [i \in Slot |-> IF i \in S THEN [sl[i] EXCEPT !.active = FALSE] ELSE sl[i]]

\* Mutation: the comparison the wrong way round.
LatestInstead(sl) ==
  CHOOSE i \in Active(sl) : \A j \in Active(sl) : sl[i].due >= sl[j].due

\* earliest_event: strictly earlier wins, so the first index wins a tie.
Earliest(sl) ==
  CHOOSE i \in Active(sl) : \A j \in Active(sl) :
    sl[i].due < sl[j].due \/ (sl[i].due = sl[j].due /\ i <= j)

\* next_mts is compared, never read as an absolute: keep it relative to the earliest.
Normalise(sl) ==
  [i \in Slot |->
     [sl[i] EXCEPT !.due = IF sl[i].active THEN @ - sl[Earliest(sl)].due ELSE 0]]

\* Mutation: any ACL slot counts as stale.
StaleOrHeard(sl) == Acl(sl)

Stale(sl) == {i \in Acl(sl) : sl[i].miss > 0}

NeverEstablished(s, miss) ==
  /\ ~s.peripheral
  /\ miss >= IF s.central THEN GiveUpMiss ELSE NeverHeardMiss

YieldsScan(s) ==
  /\ host.single /\ s.kind = "acl" /\ s.miss >= RelockAfter
  /\ (s.miss - RelockAfter) % 2 = 0

-----------------------------------------------------------------------------
(* The scheduler. *)

Idle == [stage |-> "idle", pkt |-> None]
NoAux == [pending |-> FALSE, chain |-> 0]
RadioOff == [radio EXCEPT !.on = FALSE]
NextScanChannel(ch) == IF ch \in {37, 38} THEN ch + 1 ELSE 37
OnScanChannel(ch) == [on |-> TRUE, aa |-> Adv, ch |-> ch]

\* arm_next's treatment of a registered AUX packet: chase it now (TRUE), or go
\* on with the AUX state on the right.  Too late, out of budget, or single-target
\* locked: dropped; an earlier connection event: kept for later.
AuxPlan(sl, ax) ==
  IF ~ax.pending THEN {<<FALSE, ax>>}
  ELSE IF host.single /\ Acl(sl) # {} THEN {<<FALSE, NoAux>>}
  ELSE {<<TRUE, ax>>, <<FALSE, NoAux>>}
       \cup (IF Active(sl) = {} THEN {} ELSE {<<FALSE, ax>>})

\* Mutation: the radio is left as it is.
ScanOnlyNoTune(rd, tm, ch) ==
  /\ scanCh' = ch /\ radio' = rd /\ UNCHANGED mode
  /\ sched' = [sched EXCEPT !.timer = IF host.hopping THEN "dispatch" ELSE tm,
                            !.act = IF host.hopping THEN "rotate" ELSE "none"]

\* No active slot: pure scanning.  The timer line is set only for hopping; what
\* is already pending on it (tm) is otherwise left alone.
ScanOnly(rd, tm, ch) ==
  /\ mode' = "scanning" /\ scanCh' = ch
  /\ radio' = IF mode = "scanning" THEN rd ELSE OnScanChannel(ch)
  /\ sched' = [sched EXCEPT !.timer = IF host.hopping THEN "dispatch" ELSE tm,
                            !.act = IF host.hopping THEN "rotate" ELSE "none"]

\* Mutations: the gap always hops; the access address is not restored for scanning;
\* a pending window close is kept instead of replaced.
GapScan(rd, ch) ==
  \/ UNCHANGED mode /\ scanCh' = ch /\ radio' = rd
  \/ mode # "scanning" /\ mode' = "scanning" /\ scanCh' = ch /\ radio' = OnScanChannel(ch)
ServeNextHops(sl, idx, rd, ch) ==
  /\ sched' = [timer |-> "dispatch", act |-> "serve", slot |-> idx]
  /\ mode' = "scanning" /\ scanCh' = NextScanChannel(ch) /\ radio' = OnScanChannel(scanCh')
ServeNextKeepsAA(sl, idx, rd, ch) ==
  /\ sched' = [timer |-> "dispatch", act |-> "serve", slot |-> idx]
  /\ mode' = "scanning" /\ scanCh' = ch /\ radio' = [rd EXCEPT !.on = TRUE, !.ch = ch]
ServeNextKeepsClose(sl, idx, rd, ch) ==
  /\ sched' = IF sched.timer = "serve_close" THEN sched
              ELSE [timer |-> "dispatch", act |-> "serve", slot |-> idx]
  /\ GapScan(rd, ch)

\* Serve slot idx next.  A gap of at least SCAN_SLICE_MIN_US is spent scanning;
\* the event that is open right now is never that far ahead.
ServeNext(sl, idx, rd, ch) ==
  /\ sched' = [timer |-> "dispatch", act |-> "serve", slot |-> idx]
  /\ \/ UNCHANGED mode /\ scanCh' = ch /\ radio' = rd
     \/ /\ mode # "scanning"
        /\ ~(mode = "serving" /\ idx = ev.slot /\ sl[idx] = slots[idx])
        /\ mode' = "scanning"
        /\ scanCh' = IF host.hopping THEN NextScanChannel(ch) ELSE ch
        /\ radio' = OnScanChannel(scanCh')

\* arm_next, given the slots, AUX state, radio, timer line and scan channel as
\* its caller leaves them.
ArmNextFrom(sl, ax, rd, tm, ch) ==
  /\ slots' = Normalise(sl)
  /\ \E plan \in AuxPlan(sl, ax) :
       /\ aux' = plan[2]
       /\ \/ /\ plan[1]
             /\ sched' = [sched EXCEPT !.timer = "dispatch", !.act = "serve_aux"]
             /\ radio' = rd /\ scanCh' = ch /\ UNCHANGED mode
          \/ ~plan[1] /\ Active(sl) = {} /\ ScanOnly(rd, tm, ch)
          \/ ~plan[1] /\ Active(sl) # {} /\ ServeNext(sl, Earliest(sl), rd, ch)

ArmNext(sl, ax, rd, tm) == ArmNextFrom(sl, ax, rd, tm, scanCh)

TimerFires(cb) == isr = Idle /\ sched.timer = cb

-----------------------------------------------------------------------------
(* TIMER interrupt: sched_dispatch and the two window-closing callbacks. *)

\* sched_dispatch with SCHED_SERVE; the slot may have been released meanwhile.
ServeOpen ==
  /\ TimerFires("dispatch") /\ sched.act = "serve"
  /\ mode' = "serving"
  /\ ev' = [slot |-> sched.slot, heard |-> "nothing"]
  /\ radio' = [on |-> TRUE, aa |-> slots[sched.slot].aa, ch |-> DataCh]
  /\ sched' = [sched EXCEPT !.timer = "serve_close"]
  /\ UNCHANGED <<slots, aux, scanCh, host, mail, isr, air>>

\* Mutation: an event is not counted when the next one is yielded to scanning.
MissedUnlessYielded(s) ==
  LET m == IF YieldsScan(s) THEN s.miss ELSE s.miss + 1 IN
  [s EXCEPT !.miss = m,
            !.active = @ /\ ~(\/ s.kind = "acl" /\ NeverEstablished(s, m)
                              \/ m >= MissLimit[s.kind])]

\* Accounting of serve_close for a missed event.
Missed(s) ==
  LET m == s.miss + 1 IN
  [s EXCEPT !.miss = m,
            !.active = @ /\ ~(\/ s.kind = "acl" /\ NeverEstablished(s, m)
                              \/ m >= MissLimit[s.kind])]

\* Accounting of serve_close.  An ISO slot is accounted per whole event, and an
\* event counts as followed when any of its subevents was heard.
Accounted(s) ==
  IF s.kind = "iso"
    THEN {s, [s EXCEPT !.miss = 0]} \cup (IF ev.heard = "ok" THEN {} ELSE {Missed(s)})
    ELSE {IF ev.heard # "nothing" THEN [s EXCEPT !.miss = 0] ELSE Missed(s)}

\* The next event: one interval on, two when a relocking link yields one.
Advanced(s) ==
  IF s.kind = "iso" THEN {[s EXCEPT !.due = @ + n] : n \in 1 .. Interval[s.aa]}
  ELSE {[s EXCEPT !.due = @ + (IF YieldsScan(s) THEN 2 ELSE 1) * Interval[s.aa]]}

\* serve_close, from the timer or (ISO, all packets of the subevent heard) from RX.
ServeClose ==
  /\ TimerFires("serve_close") \/ isr.stage = "close"
  /\ isr' = Idle
  /\ \E s \in Accounted(slots[ev.slot]) : \E t \in Advanced(s) :
       ArmNext([slots EXCEPT ![ev.slot] = t], aux, RadioOff, "off")
  /\ UNCHANGED <<ev, host, mail, air>>

ServeAuxOpen ==
  /\ TimerFires("dispatch") /\ sched.act = "serve_aux"
  /\ aux' = [pending |-> FALSE, chain |-> aux.chain + 1]
  /\ mode' = "serving_aux"
  /\ radio' = [on |-> TRUE, aa |-> Adv, ch |-> SecondaryCh]
  /\ sched' = [sched EXCEPT !.timer = "aux_close"]
  /\ UNCHANGED <<slots, ev, scanCh, host, mail, isr, air>>

ServeAuxClose ==
  /\ TimerFires("aux_close")
  /\ ArmNext(slots, IF aux.pending THEN aux ELSE NoAux, RadioOff, "off")
  /\ UNCHANGED <<ev, host, mail, isr, air>>

\* sched_dispatch with SCHED_SCAN_ROTATE: next channel, then arm_next.
ScanRotate ==
  /\ TimerFires("dispatch") /\ sched.act = "rotate"
  /\ LET ch == IF host.hopping THEN NextScanChannel(scanCh) ELSE scanCh
         rd == IF host.hopping /\ mode = "scanning"
                 THEN [radio EXCEPT !.on = TRUE, !.ch = ch] ELSE radio
     IN  ArmNextFrom(slots, aux, rd, "off", ch)
  /\ UNCHANGED <<ev, host, mail, isr, air>>

DispatchNone ==
  /\ TimerFires("dispatch") /\ sched.act = "none"
  /\ sched' = [sched EXCEPT !.timer = "off"]
  /\ UNCHANGED <<slots, mode, ev, aux, scanCh, radio, host, mail, isr, air>>

-----------------------------------------------------------------------------
(* The radio interrupt, and the two other ways to the mailboxes: the kick   *)
(* interrupt and the main loop's 20 ms poll (which locks interrupts).       *)

Poll == [stage |-> "inject", pkt |-> None]
Received(type, link, mine) ==
  [stage |-> "inject", pkt |-> [type |-> type, link |-> link, mine |-> mine]]

PollMailboxes ==
  /\ isr = Idle /\ (mail.inject # None \/ mail.hint # None)
  /\ isr' = Poll
  /\ UNCHANGED <<slots, mode, ev, sched, aux, scanCh, radio, host, mail, air>>

\* A connection request is on the air once, on the primary channels (CONNECT_IND)
\* or on a secondary one (AUX_CONNECT_REQ).
ReceiveConnect ==
  /\ isr = Idle /\ radio.on /\ radio.aa = Adv
  /\ \E l \in (IF radio.ch = SecondaryCh THEN AuxLinks ELSE Links \ AuxLinks) \ air.aired :
       /\ isr' = Received("connect", l, l \in TargetLinks)
       /\ air' = [air EXCEPT !.aired = @ \cup {l}]
  /\ UNCHANGED <<slots, mode, ev, sched, aux, scanCh, radio, host, mail>>

\* Other advertising: ADV_IND or ADV_DIRECT_IND, and the extended PDUs.
ReceiveAdvertising ==
  /\ isr = Idle /\ radio.on /\ radio.aa = Adv
  /\ \E type \in (IF radio.ch = SecondaryCh THEN {"ext"} ELSE {"adv_ind", "ext"}), mine \in BOOLEAN :
       isr' = Received(type, None, mine)
  /\ UNCHANGED <<slots, mode, ev, sched, aux, scanCh, radio, host, mail, air>>

ReceiveData ==
  /\ isr = Idle /\ radio.on /\ radio.ch = DataCh /\ radio.aa \notin air.dead
  /\ isr' = Received("data", radio.aa, FALSE)
  /\ UNCHANGED <<slots, mode, ev, sched, aux, scanCh, radio, host, mail, air>>

\* poll_inject: preempt stale slots, ask the policy, build the slot.
InjectIgnored ==
  /\ isr.stage = "inject" /\ mail.inject \in {None} \cup Followed(slots)
  /\ mail' = [mail EXCEPT !.inject = None]
  /\ isr' = [isr EXCEPT !.stage = "hint"]
  /\ UNCHANGED <<slots, mode, ev, sched, aux, scanCh, radio, host, air>>

Unstale == IF host.single THEN Release(slots, Stale(slots)) ELSE slots

\* Mutation: the connections already followed are not asked for.
AllowsSecondInject(sl) == host.single => host.target

AllowsInject(sl) == host.single => host.target /\ Acl(sl) = {}

CanBuild(sl, l) == l \notin Malformed /\ Free(sl) # {}

\* Mutation: without the arm_next.
BuildUnscheduled(sl, l, tm) ==
  /\ slots' = [sl EXCEPT ![Alloc(sl)] = NewSlot("acl", l, 0)]
  /\ sched' = [sched EXCEPT !.timer = tm]
  /\ UNCHANGED <<mode, aux, scanCh, radio>>

\* build_slot: take the first free slot, then arm_next.
Build(sl, l, tm) ==
  \E due \in 0 .. MaxDue :
    ArmNext([sl EXCEPT ![Alloc(sl)] = NewSlot("acl", l, due)], aux, radio, tm)

InjectRefused ==
  /\ isr.stage = "inject" /\ mail.inject \notin {None} \cup Followed(slots)
  /\ ~(AllowsInject(Unstale) /\ CanBuild(Unstale, mail.inject))
  /\ slots' = Unstale
  /\ mail' = [mail EXCEPT !.inject = None]
  /\ isr' = [isr EXCEPT !.stage = "hint"]
  /\ UNCHANGED <<mode, ev, sched, aux, scanCh, radio, host, air>>

InjectTaken ==
  /\ isr.stage = "inject" /\ mail.inject \notin {None} \cup Followed(slots)
  /\ AllowsInject(Unstale) /\ CanBuild(Unstale, mail.inject)
  /\ Build(Unstale, mail.inject, sched.timer)
  /\ mail' = [mail EXCEPT !.inject = None]
  /\ isr' = [isr EXCEPT !.stage = "hint"]
  /\ UNCHANGED <<ev, host, air>>

-----------------------------------------------------------------------------
(* LL control PDUs, received on an ACL slot or relayed as a key hint.       *)

\* A train or stream slot is built without arm_next; it may also be refused:
\* already followed, malformed, table full.
StreamBuilds(sl, kind) ==
  {sl} \cup (IF Free(sl) = {} THEN {} ELSE
    {[sl EXCEPT ![Alloc(sl)] = NewSlot(kind, aa, due)] :
       aa \in Streams \ Followed(sl), due \in 0 .. MaxDue})

\* handle_ctrl_pdu for slot i, as far as the slot table goes.
CtrlOutcomes(sl, i, ctrl) ==
  CASE ctrl = "terminate" -> {Release(sl, {i})}
    [] ctrl = "cis_ind" -> StreamBuilds(sl, "iso")
    [] ctrl = "cis_terminate" ->
         {sl} \cup {Release(sl, {j}) : j \in {k \in Active(sl) : sl[k].kind = "iso"}}
    [] OTHER -> {sl}

AfterHint == IF isr.pkt = None THEN Idle ELSE [isr EXCEPT !.stage = "filter"]

\* poll_hint: the ACL slot with the hint's access address, if it is followed.
PollHint ==
  /\ isr.stage = "hint"
  /\ LET owner == {i \in Acl(slots) : mail.hint # None /\ slots[i].aa = mail.hint.link} IN
       /\ slots' \in IF owner = {} THEN {slots}
                     ELSE CtrlOutcomes(slots, CHOOSE i \in owner : TRUE, mail.hint.ctrl)
       /\ mail' = [mail EXCEPT !.hint = None,
                               !.past = @ \/ (owner # {} /\ mail.hint.ctrl = "past")]
  /\ isr' = AfterHint
  /\ UNCHANGED <<mode, ev, sched, aux, scanCh, radio, host, air>>

\* main.c: with a target set, advertising that is not the target's goes no further.
TargetFilter ==
  /\ isr.stage = "filter"
  /\ isr' = IF host.target /\ isr.pkt.type # "data" /\ ~isr.pkt.mine
              THEN Idle ELSE [isr EXCEPT !.stage = "past"]
  /\ UNCHANGED <<slots, mode, ev, sched, aux, scanCh, radio, host, mail, air>>

PollPast ==
  /\ isr.stage = "past"
  /\ slots' \in IF mail.past THEN StreamBuilds(slots, "periodic") ELSE {slots}
  /\ mail' = [mail EXCEPT !.past = FALSE]
  /\ isr' = [isr EXCEPT !.stage = "packet"]
  /\ UNCHANGED <<mode, ev, sched, aux, scanCh, radio, host, air>>

-----------------------------------------------------------------------------
(* conn_follower_on_packet proper, by radio mode.  The mode may differ from *)
(* the one the packet was received in: the mailboxes were polled first.     *)

InMode(md) == isr.stage = "packet" /\ mode = md
Served == slots[ev.slot]

\* The served slot has heard its central, or its peripheral.
HeardFrom(central) ==
  [slots EXCEPT ![ev.slot] = IF central THEN [@ EXCEPT !.central = TRUE]
                             ELSE [@ EXCEPT !.peripheral = TRUE]]

\* Serving an ACL slot.  The first packet of an event is taken for the central's;
\* an encrypted link's control PDUs are not looked at ("other").
ServedAclPacket ==
  /\ InMode("serving") /\ Served.kind = "acl"
  /\ \E ok \in BOOLEAN, first \in {ev.heard = "nothing"}, central \in BOOLEAN,
        ctrl \in Ctrl \cup {"other"} :
       /\ first => central
       /\ ev' = [ev EXCEPT !.heard = IF ok THEN "ok" ELSE IF first THEN "bad" ELSE @]
       /\ slots' \in IF ok THEN CtrlOutcomes(HeardFrom(central), ev.slot, ctrl) ELSE {slots}
       /\ mail' = IF ok /\ ctrl = "past" THEN [mail EXCEPT !.past = TRUE] ELSE mail
  /\ isr' = Idle
  /\ UNCHANGED <<mode, sched, aux, scanCh, radio, host, air>>

\* Serving a periodic train: a BIGInfo starts up to two streams (BIS_MAX_STREAMS).
ServedPeriodicPacket ==
  /\ InMode("serving") /\ Served.kind = "periodic"
  /\ \/ /\ ev' = [ev EXCEPT !.heard = "ok"]
        /\ slots' \in UNION {StreamBuilds(sl, "iso") : sl \in StreamBuilds(slots, "iso")}
     \/ /\ ev' = [ev EXCEPT !.heard = IF @ = "nothing" THEN "bad" ELSE @]
        /\ UNCHANGED slots
  /\ isr' = Idle
  /\ UNCHANGED <<mode, sched, aux, scanCh, radio, host, mail, air>>

\* Serving an ISO stream: the window closes once the subevent's packets are in.
ServedIsoPacket ==
  /\ InMode("serving") /\ Served.kind = "iso"
  /\ \/ ev' = [ev EXCEPT !.heard = "ok"]
     \/ ev' = [ev EXCEPT !.heard = IF @ = "nothing" THEN "bad" ELSE @]
  /\ \/ isr' = Idle /\ UNCHANGED sched
     \/ isr' = [isr EXCEPT !.stage = "close"] /\ sched' = [sched EXCEPT !.timer = "off"]
  /\ UNCHANGED <<slots, mode, aux, scanCh, radio, host, mail, air>>

\* start_following_on, up to build_slot: the slots after preemption, and the gates.
Preempted(mine) ==
  IF host.single /\ host.target /\ mine THEN Release(slots, Acl(slots)) ELSE slots

\* Mutation: the target is not compared outside single-target mode.
AllowsAnyConnect(sl, mine) == host.single => host.target /\ mine /\ Acl(sl) = {}

AllowsConnect(sl, mine) ==
  /\ host.target => mine
  /\ host.single => host.target /\ Acl(sl) = {}

\* A slot is built for link l and arm_next takes over the timer line tm.
Follow(l, mine, tm) ==
  /\ l \notin Followed(slots)
  /\ AllowsConnect(Preempted(mine), mine) /\ TRUE \in ClaimGate
  /\ CanBuild(Preempted(mine), l)
  /\ Build(Preempted(mine), l, tm)

\* No slot is built: already followed, or refused after the preemption.
Refuse(l, mine, sl) ==
  \/ l \in Followed(slots) /\ sl = slots
  \/ /\ l \notin Followed(slots) /\ sl = Preempted(mine)
     /\ \/ ~AllowsConnect(sl, mine)
        \/ FALSE \in ClaimGate
        \/ ~CanBuild(sl, l)

ScanConnect ==
  /\ InMode("scanning") /\ isr.pkt.type = "connect"
  /\ \/ Follow(isr.pkt.link, isr.pkt.mine, sched.timer)
     \/ Refuse(isr.pkt.link, isr.pkt.mine, slots') /\ UNCHANGED <<mode, sched, aux, scanCh, radio>>
  /\ isr' = Idle
  /\ UNCHANGED <<ev, host, mail, air>>

\* The radio was serving when this arrived: a data PDU read as advertising.  Its
\* bytes may even pass for a CONNECT_IND, never for one of the target's.
ScanDataPacket ==
  /\ InMode("scanning") /\ isr.pkt.type = "data"
  /\ \/ UNCHANGED <<slots, mode, sched, aux, scanCh, radio>>
     \/ \E l \in Links \ TargetLinks : Follow(l, FALSE, sched.timer)
  /\ isr' = Idle
  /\ UNCHANGED <<ev, host, mail, air>>

\* The target advertises: its stale slots are released.
ScanTargetAdv ==
  /\ InMode("scanning") /\ isr.pkt.type = "adv_ind"
  /\ IF host.target /\ isr.pkt.mine /\ host.single /\ Stale(slots) # {}
       THEN ArmNext(Unstale, aux, radio, sched.timer)
       ELSE UNCHANGED <<slots, mode, sched, aux, scanCh, radio>>
  /\ isr' = Idle
  /\ UNCHANGED <<ev, host, mail, air>>

\* Mutation: the chain is not bounded.
NoteAnyExtAdv ==
  {aux} \cup (IF Active(slots) = {} THEN {[aux EXCEPT !.pending = TRUE]} ELSE {})

\* note_ext_adv: an AuxPtr worth chasing is registered only while nothing is followed.
NoteExtAdv ==
  {aux} \cup (IF Active(slots) = {} /\ aux.chain < AuxMaxChain
                THEN {[aux EXCEPT !.pending = TRUE]} ELSE {})

ScanExtAdv ==
  /\ InMode("scanning") /\ isr.pkt.type = "ext"
  /\ \E ax \in NoteExtAdv :
       IF ax.pending THEN ArmNext(slots, ax, radio, sched.timer)
       ELSE UNCHANGED <<slots, mode, sched, aux, scanCh, radio>>
  /\ isr' = Idle
  /\ UNCHANGED <<ev, host, mail, air>>

\* AUX_CONNECT_REQ: the window's timer is cancelled before the request is judged,
\* and arm_next runs on a refusal only when no ACL slot is active.
AuxConnect ==
  /\ InMode("serving_aux") /\ isr.pkt.type = "connect"
  /\ \/ Follow(isr.pkt.link, isr.pkt.mine, "off")
     \/ \E sl \in {slots, Preempted(isr.pkt.mine)} :
          /\ Refuse(isr.pkt.link, isr.pkt.mine, sl)
          /\ IF Acl(sl) = {} THEN ArmNext(sl, aux, radio, "off")
             ELSE /\ slots' = sl
                  /\ sched' = [sched EXCEPT !.timer = "off"]
                  /\ UNCHANGED <<mode, aux, scanCh, radio>>
  /\ isr' = Idle
  /\ UNCHANGED <<ev, host, mail, air>>

\* AUX_ADV_IND or AUX_CHAIN_IND: one more hop, and perhaps a periodic train.
AuxExtAdv ==
  /\ InMode("serving_aux") /\ isr.pkt.type = "ext"
  /\ aux' \in NoteExtAdv
  /\ slots' \in StreamBuilds(slots, "periodic")
  /\ isr' = Idle
  /\ UNCHANGED <<mode, ev, sched, scanCh, radio, host, mail, air>>

\* Plain advertising in an AUX window, after a late retune: not looked at.
AuxOther ==
  /\ InMode("serving_aux") /\ isr.pkt.type = "adv_ind"
  /\ isr' = Idle
  /\ UNCHANGED <<slots, mode, ev, sched, aux, scanCh, radio, host, mail, air>>

-----------------------------------------------------------------------------
(* The host's commands (USB CDC interrupt) and the environment.             *)

Commands(c) == isr = Idle /\ c \in HostCommands

\* SET_HOPPING, SET_SINGLE_TARGET and SET_TARGET only set a flag.
HostConfigures ==
  /\ \/ \E on \in BOOLEAN : Commands(IF on THEN "hopping on" ELSE "hopping off")
                          /\ host' = [host EXCEPT !.hopping = on]
     \/ \E on \in BOOLEAN : Commands(IF on THEN "single on" ELSE "single off")
                          /\ host' = [host EXCEPT !.single = on]
     \/ \E on \in BOOLEAN : Commands(IF on THEN "target on" ELSE "target off")
                          /\ host' = [host EXCEPT !.target = on]
  /\ UNCHANGED <<slots, mode, ev, sched, aux, scanCh, radio, mail, isr, air>>

\* conn_follower_set_scan_channel: record the channel, look at the mode, and
\* retune as a second step that the radio's interrupts may precede.
HostSetChannel ==
  /\ Commands("channel") /\ host.retune = None
  /\ \E ch \in AdvChannels :
       /\ scanCh' = ch
       /\ host' = [host EXCEPT !.retune = IF mode = "scanning" THEN ch ELSE None]
  /\ UNCHANGED <<slots, mode, ev, sched, aux, radio, mail, isr, air>>

HostRetune ==
  /\ isr = Idle /\ host.retune # None
  /\ radio' = [radio EXCEPT !.ch = host.retune]
  /\ host' = [host EXCEPT !.retune = None]
  /\ UNCHANGED <<slots, mode, ev, sched, aux, scanCh, mail, isr, air>>

\* conn_follower_request_inject: another board caught l's CONNECT_IND.
HostFollow ==
  /\ Commands("follow")
  /\ \E l \in Links \ AuxLinks :
       /\ mail' = [mail EXCEPT !.inject = l]
       /\ air' = [air EXCEPT !.aired = @ \cup {l}]
  /\ UNCHANGED <<slots, mode, ev, sched, aux, scanCh, radio, host, isr>>

\* conn_follower_request_hint
HostHint ==
  /\ Commands("hint")
  /\ \E l \in Links, ctrl \in Ctrl : mail' = [mail EXCEPT !.hint = [link |-> l, ctrl |-> ctrl]]
  /\ UNCHANGED <<slots, mode, ev, sched, aux, scanCh, radio, host, isr, air>>

LinkDies ==
  /\ isr = Idle
  /\ \E l \in Mortal \ air.dead : air' = [air EXCEPT !.dead = @ \cup {l}]
  /\ UNCHANGED <<slots, mode, ev, sched, aux, scanCh, radio, host, mail, isr>>

-----------------------------------------------------------------------------
\* After sniffer_start: conn_follower_init armed one rotation, then hopping was
\* turned off.  Single-target mode is on, no target is set.
Init ==
  /\ slots = [i \in Slot |-> EmptySlot]
  /\ mode = "scanning"
  /\ ev = [slot |-> 0, heard |-> "nothing"]
  /\ sched = [timer |-> "dispatch", act |-> "rotate", slot |-> 0]
  /\ aux = NoAux
  /\ scanCh \in Straps
  /\ radio = OnScanChannel(scanCh)
  /\ host = [hopping |-> FALSE, single |-> TRUE, target |-> FALSE, retune |-> None]
  /\ mail = [inject |-> None, hint |-> None, past |-> FALSE]
  /\ isr = Idle
  /\ air = [aired |-> {}, dead |-> {}]

TimerInterrupt ==
  \/ ServeOpen \/ ServeClose \/ ServeAuxOpen \/ ServeAuxClose
  \/ ScanRotate \/ DispatchNone

PacketHandled ==
  \/ ServedAclPacket \/ ServedPeriodicPacket \/ ServedIsoPacket
  \/ ScanConnect \/ ScanDataPacket \/ ScanTargetAdv \/ ScanExtAdv
  \/ AuxConnect \/ AuxExtAdv \/ AuxOther

IsrStep ==
  \/ InjectIgnored \/ InjectRefused \/ InjectTaken \/ PollHint
  \/ TargetFilter \/ PollPast \/ PacketHandled

Receive == ReceiveConnect \/ ReceiveAdvertising \/ ReceiveData

HostStep == HostConfigures \/ HostSetChannel \/ HostRetune \/ HostFollow \/ HostHint

Next == TimerInterrupt \/ IsrStep \/ PollMailboxes \/ Receive \/ HostStep \/ LinkDies

Spec == Init /\ [][Next]_vars

\* A handler that runs runs to its end.  A timer whose compare has passed is served
\* when the running handler returns (a strong fairness: handlers come in between),
\* and the main loop polls the mailboxes every 20 ms.
Fairness ==
  /\ WF_vars(IsrStep) /\ WF_vars(ServeClose /\ isr.stage = "close")
  /\ SF_vars(TimerInterrupt) /\ SF_vars(PollMailboxes)

FairSpec == Spec /\ Fairness

-----------------------------------------------------------------------------
(* Types. *)

SlotRecord ==
  [active : BOOLEAN, kind : Kinds, aa : Links \cup Streams \cup {None}, due : Nat,
   miss : Nat, central : BOOLEAN, peripheral : BOOLEAN]

Packet ==
  [type : {"connect", "adv_ind", "ext", "data"}, link : Links \cup Streams \cup {None},
   mine : BOOLEAN]

\* Every variable has its type.
TypeOK ==
  /\ slots \in [Slot -> SlotRecord]
  /\ mode \in {"scanning", "serving", "serving_aux"}
  /\ ev \in [slot : Slot, heard : {"nothing", "bad", "ok"}]
  /\ sched \in [timer : {"off", "dispatch", "serve_close", "aux_close"},
               act : {"none", "serve", "serve_aux", "rotate"}, slot : Slot]
  /\ aux \in [pending : BOOLEAN, chain : Nat]
  /\ scanCh \in AdvChannels
  /\ radio \in [on : BOOLEAN, aa : Links \cup Streams \cup {Adv, None},
               ch : AdvChannels \cup {DataCh, SecondaryCh}]
  /\ host \in [hopping : BOOLEAN, single : BOOLEAN, target : BOOLEAN,
              retune : AdvChannels \cup {None}]
  /\ mail \in [inject : Links \cup {None},
              hint : [link : Links, ctrl : Ctrl] \cup {None}, past : BOOLEAN]
  /\ isr \in [stage : {"idle", "inject", "hint", "filter", "past", "packet", "close"},
             pkt : Packet \cup {None}]
  /\ air \in [aired : SUBSET Links, dead : SUBSET Links]

-----------------------------------------------------------------------------
(* Safety. *)

\* No access address is followed by two slots, whichever of the five ways to build
\* one (CONNECT_IND, AUX_CONNECT_REQ, inject, SyncInfo or PAST, CIS or BIGInfo) ran.
NoDuplicateFollow ==
  \A i, j \in Active(slots) : slots[i].aa = slots[j].aa => i = j

Built(i) == slots'[i].active /\ (~slots[i].active \/ slots'[i].aa # slots[i].aa)
BuiltAcl == {i \in Slot : Built(i) /\ slots'[i].kind = "acl"}

\* Single-target mode: a connection is taken up only with a target set, and it is
\* then the only one followed, preemption included (follow_policy.h).
ExclusiveFollow ==
  [][host.single /\ BuiltAcl # {} => host.target /\ Cardinality(Acl(slots')) = 1]_vars

\* With a target set, a connection of another device is taken up only when the host
\* relayed it.
FollowsTargetOnly ==
  [][\A i \in BuiltAcl : host.target /\ slots'[i].aa \notin TargetLinks
                           => mail.inject = slots'[i].aa]_vars

\* A connection that is still heard (miss_count 0) is given up only on its TERMINATE,
\* on the target's own new connection request, or when its current event is missed.
HeardLinkIsKept ==
  [][\A i \in Acl(slots) :
       slots[i].miss = 0 /\ i \notin Acl(slots')
         => \/ isr.stage = "hint" /\ mail.hint # None /\ mail.hint.ctrl = "terminate"
            \/ isr.stage = "packet" /\ isr.pkt.type = "data" /\ i = ev.slot
            \/ isr.stage = "packet" /\ isr.pkt.type = "connect" /\ isr.pkt.mine
            \/ sched.timer = "serve_close" /\ i = ev.slot /\ ev.heard = "nothing"]_vars

\* Mode scanning means that the radio receives advertising, and on the guarded channel,
\* between any two interrupts.  (A retune by the host may be due; while hopping, a late
\* one may undo a rotation until the next.)
ScanReceivesAdvertising ==
  mode = "scanning" /\ isr = Idle =>
    /\ radio.on /\ radio.aa = Adv
    /\ ~host.hopping /\ host.retune = None => radio.ch = scanCh

\* Only hopping or the host moves the guard channel: following a connection, chasing
\* an AUX packet and coming back does not (the 38/37/38 incident of arm_next).
GuardChannelSticks ==
  [][scanCh' # scanCh => host.hopping \/ HostSetChannel]_vars

\* The chain of AUX hops of one advertising event is bounded.
AuxChainBounded == aux.chain <= AuxMaxChain /\ (aux.pending => aux.chain < AuxMaxChain)

\* A window is closed by the callback of the service that opened it.
WindowHasItsClose ==
  isr = Idle /\ sched.timer \in {"serve_close", "aux_close"}
    => /\ mode = IF sched.timer = "serve_close" THEN "serving" ELSE "serving_aux"
       /\ radio.on

\* Whenever no interrupt runs, a followed link has the timer line armed for it: the
\* window it or another link is served in, or a dispatch that arm_next planned.
ActiveSlotScheduled ==
  isr = Idle /\ Active(slots) # {} => sched.timer # "off" /\ sched.act # "none"

\* The follower never leaves the radio off, or on a data or secondary channel with
\* nothing on the timer line to bring it back.
RadioNeverParked ==
  isr = Idle /\ sched.timer = "off" => radio.on /\ mode = "scanning"

\* main.c: "Which link this packet belongs to depends on the AA the radio was tuned
\* to when receiving it".  Violated: the mailboxes are polled first, and an inject (or
\* PAST) may rebuild the served slot for another link, which the packet then updates.
PacketOfItsLink ==
  InMode("serving") => slots[ev.slot].aa = isr.pkt.link

\* serve_aux_close: "otherwise this chain ends, and reset the chain depth".  While the
\* follower only scans, no depth left over from an earlier chain may keep it from
\* chasing.  Violated: an AUX_CONNECT_REQ or an inject ends a chain without the reset.
AuxChainEnds ==
  isr = Idle /\ mode = "scanning" /\ Active(slots) = {} /\ ~aux.pending
    => aux.chain < AuxMaxChain

-----------------------------------------------------------------------------
(* Liveness. *)

\* A link that fell silent is given up, however it is scheduled among the others.
SilentLinkReleased ==
  \A l \in Mortal : l \in air.dead ~> l \notin Followed(slots)

\* When nothing is followed any more the follower scans again, sooner or later
\* (on which channel and address is ScanReceivesAdvertising's).
ReturnsToGuard ==
  [](Active(slots) = {} => <>(mode = "scanning" \/ Active(slots) # {}))

\* host_iface.h: SET_HOPPING "nonzero enables three-channel round-robin scan".  With
\* nothing followed, a hopping board leaves every advertising channel again.  Violated:
\* the command sets a flag only arm_next reads, and a board that scans without hopping
\* has nothing on its timer line that would call arm_next.
HoppingRotates ==
  \A ch \in AdvChannels :
    [](host.hopping /\ scanCh = ch /\ Active(slots) = {}
         => <>(scanCh # ch \/ ~host.hopping \/ Active(slots) # {}))
=============================================================================
