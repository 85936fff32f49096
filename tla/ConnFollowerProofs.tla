-------------------------- MODULE ConnFollowerProofs --------------------------
(***************************************************************************)
(* Theorems of ConnFollower, for every value of its constants.             *)
(*                                                                         *)
(* The proofs go through two relations between slot tables: Keeps (what no *)
(* operation on the table may undo) and Quiet (Keeps, and no connection is *)
(* taken up).  Each helper of the table is shown once to be in one of them,*)
(* and each action then only composes helpers.                             *)
(***************************************************************************)
EXTENDS ConnFollower, Numbers

SlotTable == [Slot -> SlotRecord]
Modes == {"scanning", "serving", "serving_aux"}
Timers == {"off", "dispatch", "serve_close", "aux_close"}
Sched == [timer : Timers, act : {"none", "serve", "serve_aux", "rotate"}, slot : Slot]
Aux == [pending : BOOLEAN, chain : Nat]
Radio == [on : BOOLEAN, aa : Links \cup Streams \cup {Adv, None},
          ch : AdvChannels \cup {DataCh, SecondaryCh}]

Unique(sl) == \A i, j \in Slot : sl[i].active /\ sl[j].active /\ sl[i].aa = sl[j].aa => i = j

Named(sl) == \A i \in Slot : sl[i].active => sl[i].aa # None

Keeps(sl, sl2) ==
  /\ sl2 \in SlotTable
  /\ Named(sl) => Named(sl2)
  /\ Unique(sl) => Unique(sl2)
  /\ \A i \in Slot : sl[i].aa # None => sl2[i].aa # None

Quiet(sl, sl2) ==
  /\ Keeps(sl, sl2)
  /\ \A i \in Slot : sl2[i].active /\ sl2[i].kind = "acl" =>
       sl[i].active /\ sl[i].kind = "acl" /\ sl[i].aa = sl2[i].aa

-----------------------------------------------------------------------------
(* Minima. *)

LEMMA AllocIsFree ==
  ASSUME NEW sl, Free(sl) # {}
  PROVE  Alloc(sl) \in Free(sl)
<1>1. Free(sl) \in SUBSET Nat
  BY ConstAssumption DEF Free, Slot
<1>2. \E i \in Free(sl) : \A j \in Free(sl) : i <= j
  BY <1>1, LeastNat
<1>3. QED
  BY <1>2 DEF Alloc

\* earliest_event returns an active slot that no active slot precedes.
LEMMA EarliestIsFirst ==
  ASSUME NEW sl \in SlotTable, Active(sl) # {}
  PROVE  /\ Earliest(sl) \in Active(sl)
         /\ \A j \in Active(sl) : sl[Earliest(sl)].due <= sl[j].due
<1> DEFINE Dues == {sl[i].due : i \in Active(sl)}
<1>1. \A i \in Active(sl) : sl[i].due \in Nat /\ i \in Nat
  BY ConstAssumption DEF Active, SlotTable, SlotRecord, Slot
<1>2. PICK d \in Dues : \A e \in Dues : d <= e
  <2>1. Dues \in SUBSET Nat /\ Dues # {}
    BY <1>1
  <2>2. QED
    BY <2>1, LeastNat
<1> DEFINE Firsts == {i \in Active(sl) : sl[i].due = d}
<1>3. PICK i \in Firsts : \A j \in Firsts : i <= j
  <2>1. Firsts \in SUBSET Nat /\ Firsts # {}
    BY <1>1
  <2>2. QED
    BY <2>1, LeastNat
<1>4. \A j \in Active(sl) : sl[i].due < sl[j].due \/ (sl[i].due = sl[j].due /\ i <= j)
  BY <1>1, <1>2, <1>3
<1>5. i \in Active(sl)
  OBVIOUS
<1>6. /\ Earliest(sl) \in Active(sl)
      /\ \A j \in Active(sl) : \/ sl[Earliest(sl)].due < sl[j].due
                               \/ (sl[Earliest(sl)].due = sl[j].due /\ Earliest(sl) <= j)
  BY <1>4, <1>5 DEF Earliest
<1>7. QED
  BY <1>1, <1>6

-----------------------------------------------------------------------------
(* The operations on the slot table. *)

LEMMA QuietTransitive ==
  ASSUME NEW sl1, NEW sl2, NEW sl3, Quiet(sl1, sl2), Quiet(sl2, sl3)
  PROVE  Quiet(sl1, sl3)
BY DEF Quiet, Keeps

LEMMA QuietReflexive ==
  ASSUME NEW sl \in SlotTable
  PROVE  Quiet(sl, sl)
BY DEF Quiet, Keeps

LEMMA NormaliseFields ==
  ASSUME NEW sl \in SlotTable
  PROVE  \A i \in Slot : \E d \in Nat : Normalise(sl)[i] = [sl[i] EXCEPT !.due = d]
<1> TAKE i \in Slot
<1> DEFINE d == IF sl[i].active THEN sl[i].due - sl[Earliest(sl)].due ELSE 0
<1>1. Normalise(sl)[i] = [sl[i] EXCEPT !.due = d]
  BY DEF Normalise, SlotTable, SlotRecord
<1>2. d \in Nat
  <2>1. CASE sl[i].active
    <3>1. i \in Active(sl) /\ Active(sl) \subseteq Slot
      BY <2>1 DEF Active
    <3>2. Earliest(sl) \in Slot /\ sl[Earliest(sl)].due <= sl[i].due
      BY <3>1, EarliestIsFirst
    <3>3. sl[i].due \in Nat /\ sl[Earliest(sl)].due \in Nat
      BY <3>2 DEF SlotTable, SlotRecord
    <3>4. QED
      BY <3>2, <3>3
  <2>2. CASE ~sl[i].active
    BY <2>2
  <2>3. QED
    BY <2>1, <2>2
<1>3. QED
  BY <1>1, <1>2

LEMMA NormaliseIsQuiet ==
  ASSUME NEW sl \in SlotTable
  PROVE  /\ Quiet(sl, Normalise(sl))
         /\ Active(Normalise(sl)) = Active(sl)
         /\ Acl(Normalise(sl)) = Acl(sl)
         /\ \A i \in Slot : Normalise(sl)[i].aa = sl[i].aa
<1> DEFINE n == Normalise(sl)
<1>1. \A i \in Slot : /\ n[i] \in SlotRecord
                      /\ n[i].active = sl[i].active /\ n[i].kind = sl[i].kind
                      /\ n[i].aa = sl[i].aa
  <2> TAKE i \in Slot
  <2>1. PICK d \in Nat : n[i] = [sl[i] EXCEPT !.due = d]
    BY NormaliseFields
  <2>2. QED
    BY <2>1 DEF SlotTable, SlotRecord
<1>2. n \in SlotTable
  BY <1>1 DEF SlotTable, Normalise
<1> HIDE DEF n
<1>3. Quiet(sl, n)
  BY <1>1, <1>2 DEF Quiet, Keeps, Unique, Named
<1>4. Active(n) = Active(sl)
  BY <1>1 DEF Active
<1>5. Acl(n) = Acl(sl)
  BY <1>1, <1>4 DEF Active, Acl
<1>6. QED
  BY <1>1, <1>3, <1>4, <1>5 DEF n

LEMMA ReleaseIsQuiet ==
  ASSUME NEW sl \in SlotTable, NEW S
  PROVE  /\ Quiet(sl, Release(sl, S))
         /\ Followed(Release(sl, S)) \subseteq Followed(sl)
         /\ Acl(Release(sl, S)) = Acl(sl) \ S
<1> DEFINE r == Release(sl, S)
<1>1. \A i \in Slot : /\ r[i] \in SlotRecord
                      /\ r[i].active = (sl[i].active /\ i \notin S) /\ r[i].kind = sl[i].kind
                      /\ r[i].aa = sl[i].aa
  BY DEF Release, SlotTable, SlotRecord
<1>2. r \in SlotTable
  BY <1>1 DEF SlotTable, Release
<1> HIDE DEF r
<1>3. Quiet(sl, r)
  BY <1>1, <1>2 DEF Quiet, Keeps, Unique, Named
<1>4. Followed(r) \subseteq Followed(sl)
  BY <1>1 DEF Followed, Active
<1>5. Acl(r) = Acl(sl) \ S
  BY <1>1 DEF Acl, Active
<1>6. QED
  BY <1>3, <1>4, <1>5 DEF r

\* sl2 is sl with a slot filled for an access address that no slot followed.
Filled(sl, sl2, kind, aa) ==
  /\ Keeps(sl, sl2)
  /\ kind # "acl" => Quiet(sl, sl2)
  /\ Active(sl2) # {}
  /\ kind = "acl" => Acl(sl2) = Acl(sl) \cup {Alloc(sl)}
  /\ sl2[Alloc(sl)].aa = aa
  /\ \A i \in Slot \ {Alloc(sl)} : sl2[i] = sl[i]

LEMMA FillKeeps ==
  ASSUME NEW sl \in SlotTable, Free(sl) # {}, NEW kind \in Kinds,
         NEW aa \in (Links \cup Streams) \ Followed(sl), NEW due \in Nat,
         NEW sl2, sl2 = [sl EXCEPT ![Alloc(sl)] = NewSlot(kind, aa, due)]
  PROVE  Filled(sl, sl2, kind, aa)
<1> DEFINE a == Alloc(sl)
           new == NewSlot(kind, aa, due)
<1>1. a \in Slot /\ ~sl[a].active
  BY AllocIsFree DEF Free, Active
<1>2. /\ new \in SlotRecord
      /\ new.active /\ new.kind = kind /\ new.aa = aa /\ aa # None
  BY ConstAssumption DEF NewSlot, EmptySlot, SlotRecord, Kinds
<1>3. sl2 \in SlotTable /\ sl2[a] = new /\ \A i \in Slot \ {a} : sl2[i] = sl[i]
  <2>1. sl2 = [sl EXCEPT ![a] = new]
    OBVIOUS
  <2> HIDE DEF a, new
  <2>2. QED
    BY <1>1, <1>2, <2>1 DEF SlotTable
<1> HIDE DEF a, new
<1>4. \A i \in Slot : sl[i].active => sl[i].aa # aa
  BY DEF Followed, Active
<1>5. Keeps(sl, sl2)
  BY <1>1, <1>2, <1>3, <1>4 DEF Keeps, Unique, Named
<1>6. kind # "acl" => Quiet(sl, sl2)
  BY <1>1, <1>2, <1>3, <1>5 DEF Quiet
<1>7. a \in Active(sl2)
  BY <1>1, <1>2, <1>3 DEF Active
<1>8. kind = "acl" => Acl(sl2) = Acl(sl) \cup {a}
  BY <1>1, <1>2, <1>3 DEF Acl, Active
<1>9. QED
  BY <1>2, <1>3, <1>5, <1>6, <1>7, <1>8 DEF a, Filled

LEMMA StreamBuildsIsQuiet ==
  ASSUME NEW sl \in SlotTable, NEW kind \in {"iso", "periodic"}, NEW sl2 \in StreamBuilds(sl, kind)
  PROVE  Quiet(sl, sl2)
<1>1. CASE sl2 = sl
  BY <1>1, QuietReflexive
<1>2. ASSUME Free(sl) # {}, NEW aa \in Streams \ Followed(sl), NEW due \in 0 .. MaxDue,
             sl2 = [sl EXCEPT ![Alloc(sl)] = NewSlot(kind, aa, due)]
      PROVE  Quiet(sl, sl2)
  <2>1. kind \in Kinds /\ kind # "acl" /\ due \in Nat /\ aa \in (Links \cup Streams) \ Followed(sl)
    BY <1>2, ConstAssumption DEF Kinds
  <2>2. QED
    BY <1>2, <2>1, FillKeeps DEF Filled
<1>3. QED
  BY <1>1, <1>2 DEF StreamBuilds

LEMMA CtrlOutcomesIsQuiet ==
  ASSUME NEW sl \in SlotTable, NEW i \in Slot, NEW ctrl, NEW sl2 \in CtrlOutcomes(sl, i, ctrl)
  PROVE  Quiet(sl, sl2)
<1>1. CASE ctrl = "terminate"
  BY <1>1, ReleaseIsQuiet DEF CtrlOutcomes
<1>2. CASE ctrl = "cis_ind"
  BY <1>2, StreamBuildsIsQuiet DEF CtrlOutcomes
<1>3. CASE ctrl = "cis_terminate"
  <2>1. sl2 = sl \/ \E j \in Slot : sl2 = Release(sl, {j})
    BY <1>3 DEF CtrlOutcomes, Active
  <2>2. QED
    BY <2>1, ReleaseIsQuiet, QuietReflexive
<1>4. CASE ctrl \notin {"terminate", "cis_ind", "cis_terminate"}
  BY <1>4, QuietReflexive DEF CtrlOutcomes
<1>5. QED
  BY <1>1, <1>2, <1>3, <1>4

\* Replacing one slot's record without taking anything up.
LEMMA UpdateIsQuiet ==
  ASSUME NEW sl \in SlotTable, NEW i \in Slot, NEW s \in SlotRecord,
         s.aa = sl[i].aa, s.kind = sl[i].kind, s.active => sl[i].active
  PROVE  Quiet(sl, [sl EXCEPT ![i] = s])
<1> DEFINE sl2 == [sl EXCEPT ![i] = s]
<1>1. sl2 \in SlotTable /\ sl2[i] = s /\ \A j \in Slot \ {i} : sl2[j] = sl[j]
  BY DEF SlotTable
<1> HIDE DEF sl2
<1>2. Quiet(sl, sl2)
  BY <1>1 DEF Quiet, Keeps, Unique, Named
<1>3. QED
  BY <1>2 DEF sl2
-----------------------------------------------------------------------------
(* The inductive invariant. *)

RadioTypes ==
  /\ mode \in Modes /\ sched \in Sched /\ aux \in Aux /\ scanCh \in AdvChannels /\ radio \in Radio

\* The scheduler's part: what the timer line, the radio mode and the slot served owe
\* each other in the middle of an interrupt too.
SchedInv ==
  /\ radio.ch = DataCh => radio.aa # Adv
  /\ sched.timer = "serve_close" => mode = "serving" /\ radio.on
  /\ sched.timer = "aux_close" => mode = "serving_aux" /\ radio.on
  /\ sched.act = "serve" => slots[sched.slot].aa # None
  /\ mode = "serving" => slots[ev.slot].aa # None
  /\ sched.timer = "dispatch" /\ sched.act = "serve_aux" => aux.pending
  /\ AuxChainBounded

\* The interrupt in progress: a packet to handle, and what a connection request names.
PacketInv ==
  /\ isr.stage \in {"filter", "past", "packet"} => isr.pkt # None
  /\ isr.stage = "close" => mode = "serving"
  /\ isr.pkt # None /\ isr.pkt.type = "connect" =>
       isr.pkt.link \in Links /\ isr.pkt.mine = (isr.pkt.link \in TargetLinks)

IInv == TypeOK /\ Unique(slots) /\ Named(slots) /\ SchedInv /\ PacketInv

LEMMA ArmNextEffect ==
  ASSUME RadioTypes, NEW sl \in SlotTable, NEW ax \in Aux, NEW rd \in Radio,
         NEW tm \in Timers, NEW ch \in AdvChannels, ArmNextFrom(sl, ax, rd, tm, ch)
  PROVE  /\ RadioTypes'
         /\ slots' = Normalise(sl)
         /\ mode' \in {mode, "scanning"}
         /\ aux' \in {ax, NoAux}
         /\ radio' = rd \/ \E c \in AdvChannels : radio' = OnScanChannel(c)
         /\ sched'.timer = "dispatch" \/ (sched'.timer = tm /\ Active(sl) = {})
         /\ sched'.act = "serve" => sched'.slot \in Active(sl)
         /\ sched'.act = "serve_aux" => aux'.pending
<1>1. PICK plan \in AuxPlan(sl, ax) :
        /\ aux' = plan[2]
        /\ \/ /\ plan[1]
              /\ sched' = [sched EXCEPT !.timer = "dispatch", !.act = "serve_aux"]
              /\ radio' = rd /\ scanCh' = ch /\ UNCHANGED mode
           \/ ~plan[1] /\ Active(sl) = {} /\ ScanOnly(rd, tm, ch)
           \/ ~plan[1] /\ Active(sl) # {} /\ ServeNext(sl, Earliest(sl), rd, ch)
  BY DEF ArmNextFrom
<1>2. slots' = Normalise(sl)
  BY DEF ArmNextFrom
<1>3. /\ plan[2] \in {ax, NoAux}
      /\ plan[1] => plan[2].pending
  <2>1. plan = <<FALSE, ax>> \/ plan = <<FALSE, NoAux>> \/ (plan = <<TRUE, ax>> /\ ax.pending)
    BY DEF AuxPlan
  <2>2. CASE plan = <<FALSE, ax>>
    BY <2>2
  <2>3. CASE plan = <<FALSE, NoAux>>
    BY <2>3
  <2>4. CASE plan = <<TRUE, ax>> /\ ax.pending
    BY <2>4
  <2>5. QED
    BY <2>1, <2>2, <2>3, <2>4
<1>4. aux' \in {ax, NoAux} /\ aux' \in Aux
  <2>1. NoAux \in Aux
    BY DEF NoAux, Aux
  <2>2. QED
    BY <1>1, <1>3, <2>1
<1>5. \A c \in AdvChannels : OnScanChannel(c) \in Radio /\ NextScanChannel(c) \in AdvChannels
  BY DEF OnScanChannel, Radio, NextScanChannel, AdvChannels
<1>6. CASE plan[1] /\ sched' = [sched EXCEPT !.timer = "dispatch", !.act = "serve_aux"]
                   /\ radio' = rd /\ scanCh' = ch /\ UNCHANGED mode
  BY <1>1, <1>2, <1>3, <1>4, <1>6 DEF RadioTypes, Sched, Timers
<1>7. CASE Active(sl) = {} /\ ScanOnly(rd, tm, ch)
  <2>1. /\ mode' = "scanning" /\ scanCh' = ch
        /\ radio' = rd \/ radio' = OnScanChannel(ch)
        /\ sched' \in Sched /\ sched'.timer \in {"dispatch", tm} /\ sched'.act \in {"rotate", "none"}
    BY <1>7 DEF ScanOnly, RadioTypes, Sched, Timers
  <2>2. QED
    BY <1>2, <1>4, <1>5, <1>7, <2>1 DEF RadioTypes, Modes
<1>8. CASE Active(sl) # {} /\ ServeNext(sl, Earliest(sl), rd, ch)
  <2>1. Earliest(sl) \in Active(sl) /\ Earliest(sl) \in Slot
    BY <1>8, EarliestIsFirst DEF Active
  <2>2. sched' = [timer |-> "dispatch", act |-> "serve", slot |-> Earliest(sl)]
    BY <1>8 DEF ServeNext
  <2>3. \/ mode' = mode /\ scanCh' = ch /\ radio' = rd
        \/ mode' = "scanning" /\ scanCh' \in AdvChannels /\ radio' = OnScanChannel(scanCh')
    BY <1>5, <1>8 DEF ServeNext
  <2>4. QED
    BY <1>2, <1>4, <1>5, <2>1, <2>2, <2>3 DEF RadioTypes, Modes, Sched, Timers
<1>9. QED
  BY <1>1, <1>6, <1>7, <1>8

\* arm_next keeps the scheduler's part, from wherever in an interrupt it is called.
LEMMA ArmNextKeeps ==
  ASSUME IInv, NEW sl, Keeps(slots, sl), NEW ax \in Aux,
         ax.chain <= AuxMaxChain /\ (ax.pending => ax.chain < AuxMaxChain),
         NEW rd \in Radio, rd.ch = DataCh => rd.aa # Adv,
         NEW tm \in Timers, tm \in {"off", "dispatch"} \/ Active(sl) # {},
         NEW ch \in AdvChannels, ArmNextFrom(sl, ax, rd, tm, ch), ev' = ev
  PROVE  RadioTypes' /\ SchedInv' /\ Keeps(slots, slots')
<1>1. sl \in SlotTable /\ Named(sl)
  BY DEF Keeps, IInv
<1>2. RadioTypes
  BY DEF IInv, TypeOK, RadioTypes, Modes, Sched, Timers, Aux, Radio
<1>3. /\ RadioTypes'
      /\ slots' = Normalise(sl)
      /\ mode' \in {mode, "scanning"}
      /\ aux' \in {ax, NoAux}
      /\ radio' = rd \/ \E c \in AdvChannels : radio' = OnScanChannel(c)
      /\ sched'.timer = "dispatch" \/ (sched'.timer = tm /\ Active(sl) = {})
      /\ sched'.act = "serve" => sched'.slot \in Active(sl)
      /\ sched'.act = "serve_aux" => aux'.pending
  BY <1>1, <1>2, ArmNextEffect
<1>4. Keeps(slots, slots')
  BY <1>1, <1>3, NormaliseIsQuiet DEF Quiet, Keeps
<1>5. (radio.ch = DataCh => radio.aa # Adv)'
  BY <1>3 DEF OnScanChannel, AdvChannels, DataCh
<1>6. sched'.timer \in {"off", "dispatch"}
  BY <1>3
<1>7. (sched.act = "serve" => slots[sched.slot].aa # None)'
  BY <1>1, <1>3, NormaliseIsQuiet DEF Active, Named
<1>8. (mode = "serving" => slots[ev.slot].aa # None)'
  BY <1>3, <1>4 DEF IInv, SchedInv, Keeps, TypeOK
<1>9. AuxChainBounded'
  BY <1>3, ConstAssumption DEF AuxChainBounded, NoAux
<1>10. QED
  BY <1>3, <1>4, <1>5, <1>6, <1>7, <1>8, <1>9 DEF SchedInv
OtherTypes ==
  /\ ev \in [slot : Slot, heard : {"nothing", "bad", "ok"}]
  /\ host \in [hopping : BOOLEAN, single : BOOLEAN, target : BOOLEAN,
              retune : AdvChannels \cup {None}]
  /\ mail \in [inject : Links \cup {None},
              hint : [link : Links, ctrl : Ctrl] \cup {None}, past : BOOLEAN]
  /\ isr \in [stage : {"idle", "inject", "hint", "filter", "past", "packet", "close"},
             pkt : Packet \cup {None}]
  /\ air \in [aired : SUBSET Links, dead : SUBSET Links]

LEMMA TypeParts ==
  TypeOK <=> slots \in SlotTable /\ RadioTypes /\ OtherTypes
BY DEF TypeOK, SlotTable, RadioTypes, OtherTypes, Modes, Timers, Sched, Aux, Radio

LEMMA Assemble ==
  ASSUME IInv, Keeps(slots, slots'), RadioTypes', SchedInv', OtherTypes', PacketInv'
  PROVE  IInv'
<1>1. slots' \in SlotTable /\ Unique(slots') /\ Named(slots')
  BY DEF IInv, Keeps
<1>2. TypeOK'
  BY <1>1 DEF TypeOK, SlotTable, RadioTypes, OtherTypes, Modes, Timers, Sched, Aux, Radio
<1>3. QED
  BY <1>1, <1>2 DEF IInv

\* A step that leaves the scheduler alone keeps its part.
LEMMA SchedUntouched ==
  ASSUME IInv, Keeps(slots, slots'), UNCHANGED <<mode, sched, aux, scanCh, radio>>,
         ev'.slot = ev.slot
  PROVE  RadioTypes' /\ SchedInv'
<1>1. RadioTypes
  BY TypeParts DEF IInv
<1>2. sched.slot \in Slot /\ ev.slot \in Slot
  BY DEF IInv, TypeOK
<1>3. QED
  BY <1>1, <1>2 DEF IInv, RadioTypes, SchedInv, AuxChainBounded, Keeps

LEMMA Unmoved ==
  ASSUME IInv, UNCHANGED slots
  PROVE  Keeps(slots, slots')
BY QuietReflexive, TypeParts DEF IInv, Quiet

-----------------------------------------------------------------------------
(* The initial state and the steps of the TIMER interrupt. *)

LEMMA InitIInv ==
  ASSUME Init
  PROVE  IInv
<1>1. EmptySlot \in SlotRecord /\ ~EmptySlot.active
  BY DEF EmptySlot, SlotRecord, Kinds
<1>2. 0 \in Slot /\ scanCh \in AdvChannels
  BY ConstAssumption DEF Slot, Init
<1>3. TypeOK
  BY <1>1, <1>2 DEF Init, TypeOK, NoAux, OnScanChannel, Idle
<1>4. Unique(slots) /\ Named(slots)
  BY <1>1 DEF Init, Unique, Named
<1>5. SchedInv
  BY <1>2, ConstAssumption
     DEF Init, SchedInv, OnScanChannel, AdvChannels, DataCh, NoAux, AuxChainBounded
<1>6. PacketInv
  BY DEF Init, PacketInv, Idle
<1>7. QED
  BY <1>3, <1>4, <1>5, <1>6 DEF IInv

LEMMA ServeOpenStep ==
  ASSUME IInv, ServeOpen
  PROVE  IInv'
<1> USE DEF ServeOpen, TimerFires
<1>1. Keeps(slots, slots')
  BY Unmoved
<1>2. RadioTypes /\ OtherTypes /\ slots \in SlotTable
  BY TypeParts DEF IInv
<1>3. slots[sched.slot].aa \in Links \cup Streams \cup {None} /\ sched.slot \in Slot
  BY <1>2 DEF RadioTypes, Sched, SlotTable, SlotRecord
<1>4. RadioTypes'
  BY <1>2, <1>3 DEF RadioTypes, Modes, Sched, Timers, Radio
<1>5. SchedInv'
  BY <1>2, <1>3, ConstAssumption DEF IInv, SchedInv, AuxChainBounded, RadioTypes, Sched
<1>6. OtherTypes'
  BY <1>2, <1>3 DEF OtherTypes
<1>7. PacketInv'
  BY DEF IInv, PacketInv, Idle
<1>8. QED
  BY <1>1, <1>4, <1>5, <1>6, <1>7, Assemble

\* serve_close's accounting and advance keep the identity of the slot.
LEMMA AccountedSlot ==
  ASSUME IInv, slots[ev.slot].aa # None,
         NEW s \in Accounted(slots[ev.slot]), NEW t \in Advanced(s)
  PROVE  Quiet(slots, [slots EXCEPT ![ev.slot] = t])
<1> DEFINE i == ev.slot
<1>1. i \in Slot /\ slots[i] \in SlotRecord /\ slots \in SlotTable
  BY DEF IInv, TypeOK, SlotTable
<1>2. Interval[slots[i].aa] \in Nat
  BY <1>1, ConstAssumption DEF SlotRecord
<1>3. /\ s \in SlotRecord /\ s.aa = slots[i].aa /\ s.kind = slots[i].kind
      /\ s.active => slots[i].active
  <2>1. s = slots[i] \/ s = [slots[i] EXCEPT !.miss = 0] \/ s = Missed(slots[i])
    BY DEF Accounted
  <2> DEFINE m == slots[i].miss + 1
             gone == \/ slots[i].kind = "acl" /\ NeverEstablished(slots[i], m)
                     \/ m >= MissLimit[slots[i].kind]
  <2>2. Missed(slots[i]) = [slots[i] EXCEPT !.miss = m, !.active = @ /\ ~gone]
    BY DEF Missed
  <2>3. m \in Nat
    BY <1>1 DEF SlotRecord
  <2> HIDE DEF m, gone
  <2>4. CASE s = slots[i] \/ s = [slots[i] EXCEPT !.miss = 0]
    BY <1>1, <2>4 DEF SlotRecord
  <2>5. CASE s = Missed(slots[i])
    BY <1>1, <2>2, <2>3, <2>5 DEF SlotRecord
  <2>6. QED
    BY <2>1, <2>4, <2>5
<1>4. /\ t \in SlotRecord /\ t.aa = s.aa /\ t.kind = s.kind /\ t.active = s.active
  <2>1. \E n \in Nat : t = [s EXCEPT !.due = @ + n]
    BY <1>2, <1>3 DEF Advanced
  <2>2. QED
    BY <1>3, <2>1 DEF SlotRecord
<1>5. QED
  BY <1>1, <1>3, <1>4, UpdateIsQuiet

LEMMA ServeCloseStep ==
  ASSUME IInv, ServeClose
  PROVE  IInv' /\ Quiet(slots, slots')
<1>1. PICK s \in Accounted(slots[ev.slot]) : \E t \in Advanced(s) :
        ArmNext([slots EXCEPT ![ev.slot] = t], aux, RadioOff, "off")
  BY DEF ServeClose
<1>2. PICK t \in Advanced(s) : ArmNext([slots EXCEPT ![ev.slot] = t], aux, RadioOff, "off")
  BY <1>1
<1> DEFINE sl == [slots EXCEPT ![ev.slot] = t]
<1>3. mode = "serving"
  BY DEF ServeClose, TimerFires, IInv, SchedInv, PacketInv
<1>4. Quiet(slots, sl)
  BY <1>3, AccountedSlot DEF IInv, SchedInv
<1>5. RadioTypes /\ OtherTypes
  BY TypeParts DEF IInv
<1>6. RadioOff \in Radio /\ (RadioOff.ch = DataCh => RadioOff.aa # Adv)
  BY <1>5 DEF RadioOff, RadioTypes, Radio, IInv, SchedInv
<1>7. ArmNextFrom(sl, aux, RadioOff, "off", scanCh) /\ ev' = ev
  BY <1>2 DEF ArmNext, ServeClose
<1>8. Keeps(slots, sl) /\ "off" \in Timers /\ aux \in Aux /\ scanCh \in AdvChannels
  BY <1>4, <1>5 DEF Quiet, Timers, RadioTypes
<1> HIDE DEF sl
<1>9. RadioTypes' /\ SchedInv' /\ Keeps(slots, slots')
  BY <1>6, <1>7, <1>8, ArmNextKeeps DEF IInv, SchedInv, AuxChainBounded
<1>10. OtherTypes' /\ PacketInv'
  BY <1>5 DEF ServeClose, OtherTypes, PacketInv, Idle
<1>11. Quiet(slots, slots')
  BY <1>4, <1>7, <1>8, NormaliseIsQuiet, QuietTransitive DEF ArmNextFrom, Keeps
<1>12. QED
  BY <1>9, <1>10, <1>11, Assemble
LEMMA UnmovedQuiet ==
  ASSUME IInv, UNCHANGED slots
  PROVE  Quiet(slots, slots')
BY QuietReflexive, TypeParts DEF IInv

\* arm_next on a table that released slots at most.
LEMMA ArmNextQuiet ==
  ASSUME IInv, NEW sl, Quiet(slots, sl), NEW ax \in Aux,
         ax.chain <= AuxMaxChain /\ (ax.pending => ax.chain < AuxMaxChain),
         NEW rd \in Radio, rd.ch = DataCh => rd.aa # Adv,
         NEW tm \in {"off", "dispatch"},
         NEW ch \in AdvChannels, ArmNextFrom(sl, ax, rd, tm, ch), ev' = ev
  PROVE  RadioTypes' /\ SchedInv' /\ Quiet(slots, slots')
<1>1. Keeps(slots, sl) /\ sl \in SlotTable /\ tm \in Timers
  BY DEF Quiet, Keeps, Timers
<1>2. RadioTypes' /\ SchedInv'
  BY <1>1, ArmNextKeeps
<1>3. slots' = Normalise(sl)
  BY DEF ArmNextFrom
<1>4. QED
  BY <1>1, <1>2, <1>3, NormaliseIsQuiet, QuietTransitive

LEMMA ServeAuxOpenStep ==
  ASSUME IInv, ServeAuxOpen
  PROVE  IInv' /\ Quiet(slots, slots')
<1> USE DEF ServeAuxOpen, TimerFires
<1>1. Keeps(slots, slots')
  BY Unmoved
<1>2. RadioTypes /\ OtherTypes
  BY TypeParts DEF IInv
<1>3. RadioTypes'
  BY <1>2 DEF RadioTypes, Modes, Sched, Timers, Radio, Aux
<1>4. AuxChainBounded'
  BY <1>2, ConstAssumption DEF RadioTypes, Aux, IInv, SchedInv, AuxChainBounded
<1>5. SchedInv'
  BY <1>2, <1>4 DEF IInv, SchedInv, RadioTypes, Sched, SecondaryCh, DataCh
<1>6. OtherTypes' /\ PacketInv'
  BY <1>2 DEF OtherTypes, IInv, PacketInv, Idle
<1>7. QED
  BY <1>1, <1>3, <1>5, <1>6, Assemble, UnmovedQuiet

LEMMA ServeAuxCloseStep ==
  ASSUME IInv, ServeAuxClose
  PROVE  IInv' /\ Quiet(slots, slots')
<1> USE DEF ServeAuxClose, TimerFires
<1> DEFINE ax == IF aux.pending THEN aux ELSE NoAux
<1>1. RadioTypes /\ OtherTypes
  BY TypeParts DEF IInv
<1>2. ax \in Aux /\ ax.chain <= AuxMaxChain /\ (ax.pending => ax.chain < AuxMaxChain)
  BY <1>1, ConstAssumption DEF RadioTypes, IInv, SchedInv, AuxChainBounded, NoAux, Aux
<1>3. RadioOff \in Radio /\ (RadioOff.ch = DataCh => RadioOff.aa # Adv)
  BY <1>1 DEF RadioOff, RadioTypes, Radio, IInv, SchedInv
<1> HIDE DEF ax
<1>4. ArmNextFrom(slots, ax, RadioOff, "off", scanCh)
  BY DEF ArmNext, ax
<1>5. RadioTypes' /\ SchedInv' /\ Quiet(slots, slots')
  BY <1>1, <1>2, <1>3, <1>4, ArmNextQuiet, QuietReflexive, TypeParts DEF IInv, RadioTypes
<1>6. OtherTypes' /\ PacketInv'
  BY <1>1 DEF OtherTypes, IInv, PacketInv, Idle
<1>7. QED
  BY <1>5, <1>6, Assemble DEF Quiet

LEMMA ScanRotateStep ==
  ASSUME IInv, ScanRotate
  PROVE  IInv' /\ Quiet(slots, slots')
<1> USE DEF ScanRotate, TimerFires
<1> DEFINE ch == IF host.hopping THEN NextScanChannel(scanCh) ELSE scanCh
           rd == IF host.hopping /\ mode = "scanning"
                   THEN [radio EXCEPT !.on = TRUE, !.ch = ch] ELSE radio
<1>1. RadioTypes /\ OtherTypes
  BY TypeParts DEF IInv
<1>2. ch \in AdvChannels
  BY <1>1 DEF RadioTypes, NextScanChannel, AdvChannels
<1>3. rd \in Radio /\ (rd.ch = DataCh => rd.aa # Adv)
  <2> HIDE DEF ch
  <2>1. radio \in Radio /\ ch \in AdvChannels /\ ch # DataCh
    BY <1>1, <1>2 DEF RadioTypes, AdvChannels, DataCh
  <2>2. [radio EXCEPT !.on = TRUE, !.ch = ch] \in Radio
    BY <2>1 DEF Radio
  <2>3. ([radio EXCEPT !.on = TRUE, !.ch = ch]).ch = ch
    BY <2>1 DEF Radio
  <2>4. QED
    BY <2>1, <2>2, <2>3 DEF IInv, SchedInv
<1>4. ArmNextFrom(slots, aux, rd, "off", ch)
  OBVIOUS
<1> HIDE DEF rd, ch
<1>5. RadioTypes' /\ SchedInv' /\ Quiet(slots, slots')
  BY <1>1, <1>2, <1>3, <1>4, ArmNextQuiet, QuietReflexive, TypeParts
     DEF IInv, SchedInv, AuxChainBounded, RadioTypes
<1>6. OtherTypes' /\ PacketInv'
  BY <1>1 DEF OtherTypes, IInv, PacketInv, Idle
<1>7. QED
  BY <1>5, <1>6, Assemble DEF Quiet

LEMMA DispatchNoneStep ==
  ASSUME IInv, DispatchNone
  PROVE  IInv' /\ Quiet(slots, slots')
<1> USE DEF DispatchNone, TimerFires
<1>1. RadioTypes /\ OtherTypes
  BY TypeParts DEF IInv
<1>2. RadioTypes'
  BY <1>1 DEF RadioTypes, Sched, Timers
<1>3. SchedInv'
  BY <1>1 DEF IInv, SchedInv, AuxChainBounded, RadioTypes, Sched
<1>4. OtherTypes' /\ PacketInv'
  BY <1>1 DEF OtherTypes, IInv, PacketInv, Idle
<1>5. QED
  BY <1>2, <1>3, <1>4, Assemble, Unmoved, UnmovedQuiet
-----------------------------------------------------------------------------
(* The radio interrupt: reception and the mailboxes. *)

LEMMA PollMailboxesStep ==
  ASSUME IInv, PollMailboxes
  PROVE  IInv' /\ Quiet(slots, slots')
<1> USE DEF PollMailboxes, Poll
<1>1. RadioTypes' /\ SchedInv'
  BY Unmoved, SchedUntouched
<1>2. OtherTypes' /\ PacketInv'
  BY TypeParts DEF OtherTypes, IInv, PacketInv, Idle
<1>3. QED
  BY <1>1, <1>2, Assemble, Unmoved, UnmovedQuiet

LEMMA ReceiveStep ==
  ASSUME IInv, Receive
  PROVE  IInv' /\ Quiet(slots, slots')
<1>1. OtherTypes /\ RadioTypes
  BY TypeParts DEF IInv
<1>2. \E type \in {"connect", "adv_ind", "ext", "data"},
         link \in Links \cup Streams \cup {None}, mine \in BOOLEAN :
        /\ isr' = Received(type, link, mine)
        /\ type = "connect" => link \in Links /\ mine = (link \in TargetLinks)
        /\ air' \in [aired : SUBSET Links, dead : SUBSET Links]
  <2>1. CASE ReceiveConnect
    <3>1. PICK l \in Links : /\ isr' = Received("connect", l, l \in TargetLinks)
                             /\ air' = [air EXCEPT !.aired = @ \cup {l}]
      BY <2>1, ConstAssumption DEF ReceiveConnect
    <3>2. air' \in [aired : SUBSET Links, dead : SUBSET Links]
      BY <1>1, <3>1 DEF OtherTypes
    <3> WITNESS "connect" \in {"connect", "adv_ind", "ext", "data"},
                l \in Links \cup Streams \cup {None}, (l \in TargetLinks) \in BOOLEAN
    <3>3. QED
      BY <3>1, <3>2
  <2>2. CASE ReceiveAdvertising
    <3>1. PICK type \in {"adv_ind", "ext"}, mine \in BOOLEAN : isr' = Received(type, None, mine)
      BY <2>2 DEF ReceiveAdvertising
    <3>2. QED
      BY <1>1, <2>2, <3>1 DEF ReceiveAdvertising, OtherTypes
  <2>3. CASE ReceiveData
    <3>1. radio.aa \in Links \cup Streams \cup {None}
      BY <1>1, <2>3 DEF ReceiveData, RadioTypes, Radio, IInv, SchedInv
    <3>2. QED
      BY <1>1, <2>3, <3>1 DEF ReceiveData, OtherTypes
  <2>4. QED
    BY <2>1, <2>2, <2>3 DEF Receive
<1>3. UNCHANGED <<slots, mode, ev, sched, aux, scanCh, radio, host, mail>>
  BY DEF Receive, ReceiveConnect, ReceiveAdvertising, ReceiveData
<1>4. RadioTypes' /\ SchedInv'
  BY <1>3, Unmoved, SchedUntouched
<1>5. OtherTypes'
  BY <1>1, <1>2, <1>3 DEF OtherTypes, Received, Packet
<1>6. PacketInv'
  BY <1>2, <1>3 DEF PacketInv, Received
<1>7. QED
  BY <1>3, <1>4, <1>5, <1>6, Assemble, Unmoved, UnmovedQuiet

LEMMA InjectIgnoredStep ==
  ASSUME IInv, InjectIgnored
  PROVE  IInv' /\ Quiet(slots, slots')
<1> USE DEF InjectIgnored
<1>1. RadioTypes' /\ SchedInv'
  BY Unmoved, SchedUntouched
<1>2. OtherTypes' /\ PacketInv'
  BY TypeParts DEF OtherTypes, IInv, PacketInv
<1>3. QED
  BY <1>1, <1>2, Assemble, Unmoved, UnmovedQuiet

LEMMA UnstaleIsQuiet ==
  ASSUME IInv
  PROVE  /\ Quiet(slots, Unstale)
         /\ Followed(Unstale) \subseteq Followed(slots)
BY ReleaseIsQuiet, QuietReflexive, TypeParts DEF IInv, Unstale

LEMMA InjectRefusedStep ==
  ASSUME IInv, InjectRefused
  PROVE  IInv' /\ Quiet(slots, slots')
<1> USE DEF InjectRefused
<1>1. Quiet(slots, slots')
  BY UnstaleIsQuiet
<1>2. RadioTypes' /\ SchedInv'
  BY <1>1, SchedUntouched DEF Quiet
<1>3. OtherTypes' /\ PacketInv'
  BY TypeParts DEF OtherTypes, IInv, PacketInv
<1>4. QED
  BY <1>1, <1>2, <1>3, Assemble DEF Quiet

\* build_slot, on a table that released slots at most: one connection is taken up.
TakesUp(l, sl) == \A i \in BuiltAcl : slots'[i].aa = l /\ Acl(slots') = Acl(sl) \cup {i}

LEMMA BuildEffect ==
  ASSUME IInv, NEW sl, Quiet(slots, sl), NEW l \in Links \ Followed(sl), NEW tm \in Timers,
         CanBuild(sl, l), Build(sl, l, tm), ev' = ev
  PROVE  RadioTypes' /\ SchedInv' /\ Keeps(slots, slots') /\ TakesUp(l, sl)
<1>1. PICK due \in 0 .. MaxDue :
        ArmNext([sl EXCEPT ![Alloc(sl)] = NewSlot("acl", l, due)], aux, radio, tm)
  BY DEF Build
<1> DEFINE a == Alloc(sl)
           sl2 == [sl EXCEPT ![a] = NewSlot("acl", l, due)]
<1>2. /\ Keeps(sl, sl2) /\ Active(sl2) # {}
      /\ Acl(sl2) = Acl(sl) \cup {a}
      /\ sl2[a].aa = l
      /\ \A i \in Slot \ {a} : sl2[i] = sl[i]
  <2>1. sl \in SlotTable /\ Free(sl) # {} /\ due \in Nat /\ "acl" \in Kinds
        /\ l \in (Links \cup Streams) \ Followed(sl)
    BY ConstAssumption DEF Quiet, Keeps, CanBuild, Kinds
  <2>2. Filled(sl, sl2, "acl", l)
    BY <2>1, FillKeeps
  <2>3. QED
    BY <2>2 DEF Filled
<1> HIDE DEF sl2, a
<1>3. Keeps(slots, sl2)
  BY <1>2 DEF Quiet, Keeps
<1>4. ArmNextFrom(sl2, aux, radio, tm, scanCh)
  BY <1>1 DEF ArmNext, sl2, a
<1>5. RadioTypes
  BY TypeParts DEF IInv
<1>6. RadioTypes' /\ SchedInv' /\ Keeps(slots, slots')
  BY <1>2, <1>3, <1>4, <1>5, ArmNextKeeps DEF RadioTypes, IInv, SchedInv, AuxChainBounded
<1>7. /\ Acl(slots') = Acl(sl2)
      /\ Active(slots') = Active(sl2)
      /\ \A i \in Slot : slots'[i].aa = sl2[i].aa
  BY <1>3, <1>4, NormaliseIsQuiet DEF ArmNextFrom, Keeps
<1>8. ASSUME NEW i \in BuiltAcl
      PROVE  i = a
  <2>1. i \in Slot /\ i \in Acl(slots') /\ (~slots[i].active \/ slots'[i].aa # slots[i].aa)
    BY <1>8 DEF BuiltAcl, Built, Acl, Active
  <2>2. SUFFICES ASSUME i # a
                 PROVE  FALSE
    OBVIOUS
  <2>3. i \in Acl(sl) /\ slots'[i].aa = sl[i].aa
    BY <1>2, <1>7, <2>1, <2>2
  <2>4. QED
    BY <2>1, <2>3 DEF Quiet, Acl, Active
<1>9. TakesUp(l, sl)
  BY <1>2, <1>7, <1>8 DEF TakesUp, BuiltAcl
<1>10. QED
  BY <1>6, <1>9

LEMMA InjectTakenStep ==
  ASSUME IInv, InjectTaken
  PROVE  IInv' /\ TakesUp(mail.inject, Unstale)
<1> USE DEF InjectTaken
<1>1. mail.inject \in Links \ Followed(Unstale) /\ sched.timer \in Timers
  BY TypeParts, UnstaleIsQuiet DEF IInv, OtherTypes, RadioTypes, Sched
<1>2. /\ RadioTypes' /\ SchedInv' /\ Keeps(slots, slots')
      /\ TakesUp(mail.inject, Unstale)
  BY <1>1, UnstaleIsQuiet, BuildEffect
<1>3. OtherTypes' /\ PacketInv'
  BY TypeParts DEF OtherTypes, IInv, PacketInv
<1>4. QED
  BY <1>2, <1>3, Assemble
LEMMA PollHintStep ==
  ASSUME IInv, PollHint
  PROVE  IInv' /\ Quiet(slots, slots')
<1> USE DEF PollHint
<1> DEFINE owner == {i \in Acl(slots) : mail.hint # None /\ slots[i].aa = mail.hint.link}
<1>1. Quiet(slots, slots')
  <2>1. CASE owner = {}
    BY <2>1, UnmovedQuiet
  <2>2. CASE owner # {}
    <3>1. PICK i \in Slot : slots' \in CtrlOutcomes(slots, i, mail.hint.ctrl)
      <4>1. (CHOOSE i \in owner : TRUE) \in owner
        BY <2>2
      <4>2. (CHOOSE i \in owner : TRUE) \in Slot
        BY <4>1 DEF Acl, Active
      <4>3. QED
        BY <2>2, <4>2
    <3>2. QED
      BY <3>1, CtrlOutcomesIsQuiet, TypeParts DEF IInv
  <2>3. QED
    BY <2>1, <2>2
<1>2. RadioTypes' /\ SchedInv'
  BY <1>1, SchedUntouched DEF Quiet
<1>3. isr' \in {Idle, [isr EXCEPT !.stage = "filter"]} /\ (isr' = Idle \/ isr.pkt # None)
  BY DEF AfterHint
<1>4. OtherTypes'
  <2>1. isr' \in [stage : {"idle", "inject", "hint", "filter", "past", "packet", "close"},
                  pkt : Packet \cup {None}]
    BY <1>3, TypeParts DEF IInv, OtherTypes, Idle
  <2>2. mail' \in [inject : Links \cup {None},
                   hint : [link : Links, ctrl : Ctrl] \cup {None}, past : BOOLEAN]
    BY TypeParts DEF IInv, OtherTypes
  <2>3. QED
    BY <2>1, <2>2, TypeParts DEF IInv, OtherTypes
<1>5. PacketInv'
  BY <1>3, TypeParts DEF IInv, OtherTypes, PacketInv, Idle
<1>6. QED
  BY <1>1, <1>2, <1>4, <1>5, Assemble DEF Quiet

LEMMA TargetFilterStep ==
  ASSUME IInv, TargetFilter
  PROVE  IInv' /\ Quiet(slots, slots')
<1> USE DEF TargetFilter
<1>1. RadioTypes' /\ SchedInv'
  BY Unmoved, SchedUntouched
<1>2. OtherTypes' /\ PacketInv'
  BY TypeParts DEF OtherTypes, IInv, PacketInv, Idle
<1>3. QED
  BY <1>1, <1>2, Assemble, Unmoved, UnmovedQuiet

LEMMA PollPastStep ==
  ASSUME IInv, PollPast
  PROVE  IInv' /\ Quiet(slots, slots')
<1> USE DEF PollPast
<1>1. Quiet(slots, slots')
  BY StreamBuildsIsQuiet, QuietReflexive, TypeParts DEF IInv
<1>2. RadioTypes' /\ SchedInv'
  BY <1>1, SchedUntouched DEF Quiet
<1>3. OtherTypes' /\ PacketInv'
  BY TypeParts DEF OtherTypes, IInv, PacketInv
<1>4. QED
  BY <1>1, <1>2, <1>3, Assemble DEF Quiet

-----------------------------------------------------------------------------
(* The packet itself, by radio mode. *)

LEMMA HeardFromIsQuiet ==
  ASSUME IInv, NEW central \in BOOLEAN
  PROVE  Quiet(slots, HeardFrom(central))
<1> DEFINE i == ev.slot
           s == IF central THEN [slots[i] EXCEPT !.central = TRUE]
                ELSE [slots[i] EXCEPT !.peripheral = TRUE]
<1>1. i \in Slot /\ slots[i] \in SlotRecord /\ slots \in SlotTable
  BY DEF IInv, TypeOK, SlotTable
<1>2. HeardFrom(central) = [slots EXCEPT ![i] = s]
  BY DEF HeardFrom
<1>3. /\ s \in SlotRecord /\ s.aa = slots[i].aa /\ s.kind = slots[i].kind
      /\ s.active => slots[i].active
  BY <1>1 DEF SlotRecord
<1> HIDE DEF s
<1>4. Quiet(slots, [slots EXCEPT ![i] = s])
  BY <1>1, <1>3, UpdateIsQuiet
<1>5. QED
  BY <1>2, <1>4

LEMMA ServedAclPacketStep ==
  ASSUME IInv, ServedAclPacket
  PROVE  IInv' /\ Quiet(slots, slots')
<1> USE DEF ServedAclPacket, InMode
<1>1. RadioTypes /\ OtherTypes /\ slots \in SlotTable /\ ev.slot \in Slot
  BY TypeParts DEF IInv, OtherTypes
<1>2. PICK ok \in BOOLEAN, first \in {ev.heard = "nothing"}, central \in BOOLEAN,
           ctrl \in Ctrl \cup {"other"} :
        /\ ev' = [ev EXCEPT !.heard = IF ok THEN "ok" ELSE IF first THEN "bad" ELSE @]
        /\ slots' \in IF ok THEN CtrlOutcomes(HeardFrom(central), ev.slot, ctrl) ELSE {slots}
        /\ mail' = IF ok /\ ctrl = "past" THEN [mail EXCEPT !.past = TRUE] ELSE mail
  OBVIOUS
<1>3. ev'.slot = ev.slot /\ ev' \in [slot : Slot, heard : {"nothing", "bad", "ok"}]
  BY <1>1, <1>2 DEF OtherTypes
<1>4. Quiet(slots, HeardFrom(central))
  BY HeardFromIsQuiet
<1>5. Quiet(slots, slots')
  <2>1. CASE ok
    <3>1. Quiet(HeardFrom(central), slots')
      BY <1>1, <1>2, <1>4, <2>1, CtrlOutcomesIsQuiet DEF Quiet, Keeps
    <3>2. QED
      BY <1>4, <3>1, QuietTransitive
  <2>2. CASE ~ok
    BY <1>2, <2>2, UnmovedQuiet
  <2>3. QED
    BY <2>1, <2>2
<1>6. RadioTypes' /\ SchedInv'
  BY <1>3, <1>5, SchedUntouched DEF Quiet
<1>7. OtherTypes' /\ PacketInv'
  BY <1>1, <1>2, <1>3 DEF OtherTypes, PacketInv, Idle
<1>8. QED
  BY <1>5, <1>6, <1>7, Assemble DEF Quiet

LEMMA ServedPeriodicPacketStep ==
  ASSUME IInv, ServedPeriodicPacket
  PROVE  IInv' /\ Quiet(slots, slots')
<1> USE DEF ServedPeriodicPacket, InMode
<1>1. RadioTypes /\ OtherTypes /\ slots \in SlotTable
  BY TypeParts DEF IInv
<1>2. ev'.slot = ev.slot /\ ev' \in [slot : Slot, heard : {"nothing", "bad", "ok"}]
  BY <1>1 DEF OtherTypes
<1>3. Quiet(slots, slots')
  <2>1. CASE slots' \in UNION {StreamBuilds(sl, "iso") : sl \in StreamBuilds(slots, "iso")}
    <3>1. PICK sl \in StreamBuilds(slots, "iso") : slots' \in StreamBuilds(sl, "iso")
      BY <2>1
    <3>2. Quiet(slots, sl)
      BY <1>1, StreamBuildsIsQuiet
    <3>3. Quiet(sl, slots')
      BY <3>1, <3>2, StreamBuildsIsQuiet DEF Quiet, Keeps
    <3>4. QED
      BY <3>2, <3>3, QuietTransitive
  <2>2. CASE UNCHANGED slots
    BY <2>2, UnmovedQuiet
  <2>3. QED
    BY <2>1, <2>2
<1>4. RadioTypes' /\ SchedInv'
  BY <1>2, <1>3, SchedUntouched DEF Quiet
<1>5. OtherTypes' /\ PacketInv'
  BY <1>1, <1>2 DEF OtherTypes, PacketInv, Idle
<1>6. QED
  BY <1>3, <1>4, <1>5, Assemble DEF Quiet

LEMMA ServedIsoPacketStep ==
  ASSUME IInv, ServedIsoPacket
  PROVE  IInv' /\ Quiet(slots, slots')
<1> USE DEF ServedIsoPacket, InMode
<1>1. RadioTypes /\ OtherTypes
  BY TypeParts DEF IInv
<1>2. ev'.slot = ev.slot /\ ev' \in [slot : Slot, heard : {"nothing", "bad", "ok"}]
  BY <1>1 DEF OtherTypes
<1>3. /\ isr' = Idle \/ isr' = [isr EXCEPT !.stage = "close"]
      /\ sched' = sched \/ sched' = [sched EXCEPT !.timer = "off"]
  OBVIOUS
<1>4. RadioTypes'
  BY <1>1, <1>3 DEF RadioTypes, Sched, Timers
<1>5. SchedInv'
  BY <1>1, <1>2, <1>3 DEF IInv, SchedInv, AuxChainBounded, RadioTypes, Sched
<1>6. OtherTypes'
  BY <1>1, <1>2, <1>3 DEF OtherTypes, Idle
<1>7. PacketInv'
  BY <1>1, <1>3 DEF IInv, OtherTypes, PacketInv, Idle
<1>8. QED
  BY <1>4, <1>5, <1>6, <1>7, Assemble, Unmoved, UnmovedQuiet

LEMMA PreemptedIsQuiet ==
  ASSUME IInv, NEW mine
  PROVE  /\ Quiet(slots, Preempted(mine))
         /\ Followed(Preempted(mine)) \subseteq Followed(slots)
BY ReleaseIsQuiet, QuietReflexive, TypeParts DEF IInv, Preempted

LEMMA FollowEffect ==
  ASSUME IInv, NEW l \in Links, NEW mine, NEW tm \in Timers, Follow(l, mine, tm), ev' = ev
  PROVE  RadioTypes' /\ SchedInv' /\ Keeps(slots, slots') /\ TakesUp(l, Preempted(mine))
<1>1. l \in Links \ Followed(Preempted(mine))
  BY PreemptedIsQuiet DEF Follow
<1>2. QED
  BY <1>1, PreemptedIsQuiet, BuildEffect DEF Follow

LEMMA RefuseIsQuiet ==
  ASSUME IInv, NEW l, NEW mine, NEW sl, Refuse(l, mine, sl)
  PROVE  Quiet(slots, sl)
BY PreemptedIsQuiet, QuietReflexive, TypeParts DEF IInv, Refuse

LEMMA ScanConnectStep ==
  ASSUME IInv, ScanConnect
  PROVE  /\ IInv'
         /\ \/ Quiet(slots, slots')
            \/ /\ Follow(isr.pkt.link, isr.pkt.mine, sched.timer)
               /\ TakesUp(isr.pkt.link, Preempted(isr.pkt.mine))
<1> USE DEF ScanConnect, InMode
<1>1. RadioTypes /\ OtherTypes /\ isr.pkt.link \in Links /\ sched.timer \in Timers
  BY TypeParts DEF IInv, PacketInv, RadioTypes, Sched
<1>2. OtherTypes' /\ PacketInv'
  BY <1>1 DEF OtherTypes, PacketInv, Idle
<1>3. CASE Follow(isr.pkt.link, isr.pkt.mine, sched.timer)
  BY <1>1, <1>2, <1>3, FollowEffect, Assemble
<1>4. CASE Refuse(isr.pkt.link, isr.pkt.mine, slots') /\ UNCHANGED <<mode, sched, aux, scanCh, radio>>
  <2>1. Quiet(slots, slots')
    BY <1>4, RefuseIsQuiet
  <2>2. RadioTypes' /\ SchedInv'
    BY <1>4, <2>1, SchedUntouched DEF Quiet
  <2>3. QED
    BY <1>2, <2>1, <2>2, Assemble DEF Quiet
<1>5. QED
  BY <1>3, <1>4
LEMMA ScanDataPacketStep ==
  ASSUME IInv, ScanDataPacket
  PROVE  /\ IInv'
         /\ \/ Quiet(slots, slots')
            \/ \E l \in Links \ TargetLinks :
                 Follow(l, FALSE, sched.timer) /\ TakesUp(l, Preempted(FALSE))
<1> USE DEF ScanDataPacket, InMode
<1>1. RadioTypes /\ OtherTypes /\ sched.timer \in Timers
  BY TypeParts DEF IInv, RadioTypes, Sched
<1>2. OtherTypes' /\ PacketInv'
  BY <1>1 DEF OtherTypes, PacketInv, Idle
<1>3. CASE UNCHANGED <<slots, mode, sched, aux, scanCh, radio>>
  BY <1>2, <1>3, SchedUntouched, Assemble, Unmoved, UnmovedQuiet
<1>4. ASSUME NEW l \in Links \ TargetLinks, Follow(l, FALSE, sched.timer)
      PROVE  IInv' /\ TakesUp(l, Preempted(FALSE))
  BY <1>1, <1>2, <1>4, FollowEffect, Assemble
<1>5. QED
  BY <1>3, <1>4

LEMMA ScanTargetAdvStep ==
  ASSUME IInv, ScanTargetAdv
  PROVE  IInv' /\ Quiet(slots, slots')
<1> USE DEF ScanTargetAdv, InMode
<1>1. RadioTypes /\ OtherTypes
  BY TypeParts DEF IInv
<1>2. OtherTypes' /\ PacketInv'
  BY <1>1 DEF OtherTypes, PacketInv, Idle
<1>3. CASE UNCHANGED <<slots, mode, sched, aux, scanCh, radio>>
  BY <1>2, <1>3, SchedUntouched, Assemble, Unmoved, UnmovedQuiet
<1>4. CASE ArmNext(Unstale, aux, radio, sched.timer)
  <2>1. sched.timer \in {"off", "dispatch"} /\ aux \in Aux /\ radio \in Radio
        /\ scanCh \in AdvChannels
    BY <1>1 DEF RadioTypes, Sched, Timers, IInv, SchedInv
  <2>2. ArmNextFrom(Unstale, aux, radio, sched.timer, scanCh)
    BY <1>4 DEF ArmNext
  <2>3. RadioTypes' /\ SchedInv' /\ Quiet(slots, slots')
    BY <2>1, <2>2, UnstaleIsQuiet, ArmNextQuiet DEF IInv, SchedInv, AuxChainBounded
  <2>4. QED
    BY <1>2, <2>3, Assemble DEF Quiet
<1>5. QED
  BY <1>3, <1>4

\* A registered AUX packet keeps the chain within its bound.
LEMMA NoteExtAdvBounded ==
  ASSUME IInv, NEW ax \in NoteExtAdv
  PROVE  /\ ax \in Aux
         /\ ax.chain <= AuxMaxChain /\ (ax.pending => ax.chain < AuxMaxChain)
         /\ aux.pending => ax.pending
BY TypeParts DEF IInv, RadioTypes, Aux, NoteExtAdv, SchedInv, AuxChainBounded

LEMMA ScanExtAdvStep ==
  ASSUME IInv, ScanExtAdv
  PROVE  IInv' /\ Quiet(slots, slots')
<1> USE DEF ScanExtAdv, InMode
<1>1. RadioTypes /\ OtherTypes
  BY TypeParts DEF IInv
<1>2. OtherTypes' /\ PacketInv'
  BY <1>1 DEF OtherTypes, PacketInv, Idle
<1>3. CASE UNCHANGED <<slots, mode, sched, aux, scanCh, radio>>
  BY <1>2, <1>3, SchedUntouched, Assemble, Unmoved, UnmovedQuiet
<1>4. ASSUME NEW ax \in NoteExtAdv, ArmNext(slots, ax, radio, sched.timer)
      PROVE  IInv' /\ Quiet(slots, slots')
  <2>1. sched.timer \in {"off", "dispatch"} /\ radio \in Radio /\ scanCh \in AdvChannels
        /\ Quiet(slots, slots)
    BY <1>1, QuietReflexive, TypeParts DEF RadioTypes, Sched, Timers, IInv, SchedInv
  <2>2. ArmNextFrom(slots, ax, radio, sched.timer, scanCh)
    BY <1>4 DEF ArmNext
  <2>3. RadioTypes' /\ SchedInv' /\ Quiet(slots, slots')
    BY <2>1, <2>2, NoteExtAdvBounded, ArmNextQuiet DEF IInv, SchedInv
  <2>4. QED
    BY <1>2, <2>3, Assemble DEF Quiet
<1>5. QED
  BY <1>3, <1>4

LEMMA AuxConnectStep ==
  ASSUME IInv, AuxConnect
  PROVE  /\ IInv'
         /\ \/ Quiet(slots, slots')
            \/ /\ Follow(isr.pkt.link, isr.pkt.mine, "off")
               /\ TakesUp(isr.pkt.link, Preempted(isr.pkt.mine))
<1> USE DEF AuxConnect, InMode
<1>1. RadioTypes /\ OtherTypes /\ isr.pkt.link \in Links /\ "off" \in Timers
  BY TypeParts DEF IInv, PacketInv, Timers
<1>2. OtherTypes' /\ PacketInv'
  BY <1>1 DEF OtherTypes, PacketInv, Idle
<1>3. CASE Follow(isr.pkt.link, isr.pkt.mine, "off")
  BY <1>1, <1>2, <1>3, FollowEffect, Assemble
<1>4. ASSUME NEW sl, Refuse(isr.pkt.link, isr.pkt.mine, sl),
             IF Acl(sl) = {} THEN ArmNext(sl, aux, radio, "off")
             ELSE /\ slots' = sl
                  /\ sched' = [sched EXCEPT !.timer = "off"]
                  /\ UNCHANGED <<mode, aux, scanCh, radio>>
      PROVE  IInv' /\ Quiet(slots, slots')
  <2>1. Quiet(slots, sl)
    BY <1>4, RefuseIsQuiet
  <2>2. CASE ArmNext(sl, aux, radio, "off")
    <3>1. aux \in Aux /\ radio \in Radio /\ scanCh \in AdvChannels
      BY <1>1 DEF RadioTypes
    <3>2. ArmNextFrom(sl, aux, radio, "off", scanCh)
      BY <2>2 DEF ArmNext
    <3>3. RadioTypes' /\ SchedInv' /\ Quiet(slots, slots')
      BY <2>1, <3>1, <3>2, ArmNextQuiet DEF IInv, SchedInv, AuxChainBounded
    <3>4. QED
      BY <1>2, <3>3, Assemble DEF Quiet
  <2>3. CASE /\ slots' = sl
             /\ sched' = [sched EXCEPT !.timer = "off"]
             /\ UNCHANGED <<mode, aux, scanCh, radio>>
    <3>1. RadioTypes'
      BY <1>1, <2>3 DEF RadioTypes, Sched, Timers
    <3>2. SchedInv'
      BY <1>1, <2>1, <2>3
         DEF IInv, SchedInv, AuxChainBounded, RadioTypes, OtherTypes, Sched, Quiet, Keeps
    <3>3. QED
      BY <1>2, <2>1, <2>3, <3>1, <3>2, Assemble DEF Quiet
  <2>4. QED
    BY <1>4, <2>2, <2>3
<1>5. QED
  BY <1>3, <1>4

LEMMA AuxExtAdvStep ==
  ASSUME IInv, AuxExtAdv
  PROVE  IInv' /\ Quiet(slots, slots')
<1> USE DEF AuxExtAdv, InMode
<1>1. RadioTypes /\ OtherTypes /\ slots \in SlotTable
  BY TypeParts DEF IInv
<1>2. Quiet(slots, slots')
  BY <1>1, StreamBuildsIsQuiet
<1>3. /\ aux' \in Aux /\ AuxChainBounded' /\ (aux.pending => aux'.pending)
  BY NoteExtAdvBounded DEF AuxChainBounded
<1>4. RadioTypes'
  BY <1>1, <1>3 DEF RadioTypes
<1>5. SchedInv'
  BY <1>1, <1>2, <1>3 DEF IInv, SchedInv, RadioTypes, OtherTypes, Sched, Quiet, Keeps
<1>6. OtherTypes' /\ PacketInv'
  BY <1>1 DEF OtherTypes, PacketInv, Idle
<1>7. QED
  BY <1>2, <1>4, <1>5, <1>6, Assemble DEF Quiet

LEMMA AuxOtherStep ==
  ASSUME IInv, AuxOther
  PROVE  IInv' /\ Quiet(slots, slots')
<1> USE DEF AuxOther, InMode
<1>1. RadioTypes' /\ SchedInv'
  BY Unmoved, SchedUntouched
<1>2. OtherTypes' /\ PacketInv'
  BY TypeParts DEF IInv, OtherTypes, PacketInv, Idle
<1>3. QED
  BY <1>1, <1>2, Assemble, Unmoved, UnmovedQuiet
-----------------------------------------------------------------------------
(* The host and the environment. *)

LEMMA HostStepStep ==
  ASSUME IInv, HostStep
  PROVE  IInv' /\ Quiet(slots, slots')
<1>1. RadioTypes /\ OtherTypes
  BY TypeParts DEF IInv
<1>2. CASE HostConfigures
  <2>1. host' \in [hopping : BOOLEAN, single : BOOLEAN, target : BOOLEAN,
                   retune : AdvChannels \cup {None}]
    BY <1>1, <1>2 DEF HostConfigures, OtherTypes
  <2>2. UNCHANGED <<slots, mode, ev, sched, aux, scanCh, radio, mail, isr, air>>
    BY <1>2 DEF HostConfigures
  <2>3. RadioTypes' /\ SchedInv'
    BY <2>2, Unmoved, SchedUntouched
  <2>4. OtherTypes' /\ PacketInv'
    BY <1>1, <2>1, <2>2 DEF OtherTypes, IInv, PacketInv
  <2>5. QED
    BY <2>2, <2>3, <2>4, Assemble, Unmoved, UnmovedQuiet
<1>3. CASE HostSetChannel
  <2> USE <1>3 DEF HostSetChannel
  <2>1. PICK ch \in AdvChannels :
          /\ scanCh' = ch
          /\ host' = [host EXCEPT !.retune = IF mode = "scanning" THEN ch ELSE None]
    OBVIOUS
  <2>2. RadioTypes' /\ OtherTypes'
    BY <1>1, <2>1 DEF RadioTypes, OtherTypes
  <2>3. SchedInv' /\ PacketInv'
    BY DEF IInv, SchedInv, AuxChainBounded, PacketInv
  <2>4. QED
    BY <2>2, <2>3, Assemble, Unmoved, UnmovedQuiet
<1>4. CASE HostRetune
  <2> USE <1>4 DEF HostRetune
  <2>1. host.retune \in AdvChannels
    BY <1>1 DEF OtherTypes
  <2>2. radio' \in Radio /\ radio'.on = radio.on /\ radio'.ch # DataCh
    BY <1>1, <2>1 DEF RadioTypes, Radio, AdvChannels, DataCh
  <2>3. RadioTypes'
    BY <1>1, <2>2 DEF RadioTypes
  <2>4. OtherTypes' /\ PacketInv'
    BY <1>1 DEF OtherTypes, IInv, PacketInv
  <2>5. SchedInv'
    BY <2>2 DEF IInv, SchedInv, AuxChainBounded
  <2>6. QED
    BY <2>3, <2>4, <2>5, Assemble, Unmoved, UnmovedQuiet
<1>5. CASE HostFollow
  <2> USE <1>5 DEF HostFollow
  <2>1. RadioTypes' /\ SchedInv'
    BY Unmoved, SchedUntouched
  <2>2. OtherTypes' /\ PacketInv'
    BY <1>1 DEF OtherTypes, IInv, PacketInv
  <2>3. QED
    BY <2>1, <2>2, Assemble, Unmoved, UnmovedQuiet
<1>6. CASE HostHint
  <2> USE <1>6 DEF HostHint
  <2>1. RadioTypes' /\ SchedInv'
    BY Unmoved, SchedUntouched
  <2>2. OtherTypes' /\ PacketInv'
    BY <1>1 DEF OtherTypes, IInv, PacketInv
  <2>3. QED
    BY <2>1, <2>2, Assemble, Unmoved, UnmovedQuiet
<1>7. QED
  BY <1>2, <1>3, <1>4, <1>5, <1>6 DEF HostStep

LEMMA LinkDiesStep ==
  ASSUME IInv, LinkDies
  PROVE  IInv' /\ Quiet(slots, slots')
<1> USE DEF LinkDies
<1>1. RadioTypes' /\ SchedInv'
  BY Unmoved, SchedUntouched
<1>2. OtherTypes' /\ PacketInv'
  BY TypeParts, ConstAssumption DEF IInv, OtherTypes, PacketInv
<1>3. QED
  BY <1>1, <1>2, Assemble, Unmoved, UnmovedQuiet

-----------------------------------------------------------------------------
(* A step takes up a connection in one of four ways, or none.                *)

TakesUpOne ==
  \/ InjectTaken /\ TakesUp(mail.inject, Unstale)
  \/ \E l \in Links, mine \in BOOLEAN, tm \in Timers :
       /\ mine = (l \in TargetLinks) \/ (mine = FALSE /\ l \notin TargetLinks)
       /\ Follow(l, mine, tm) /\ TakesUp(l, Preempted(mine))
       /\ UNCHANGED host

LEMMA Step ==
  ASSUME IInv, [Next]_vars
  PROVE  IInv' /\ (Quiet(slots, slots') \/ TakesUpOne)
<1>1. CASE TimerInterrupt
  <2>1. CASE ServeOpen
    BY <2>1, ServeOpenStep, UnmovedQuiet DEF ServeOpen
  <2>2. QED
    BY <1>1, <2>1, ServeCloseStep, ServeAuxOpenStep, ServeAuxCloseStep, ScanRotateStep,
       DispatchNoneStep DEF TimerInterrupt
<1>2. CASE PacketHandled
  <2>1. CASE ScanConnect \/ AuxConnect
    <3>1. isr.pkt.link \in Links /\ isr.pkt.mine = (isr.pkt.link \in TargetLinks)
          /\ sched.timer \in Timers /\ "off" \in Timers /\ UNCHANGED host
      BY <2>1, TypeParts
         DEF IInv, PacketInv, ScanConnect, AuxConnect, InMode, RadioTypes, Sched, Timers
    <3>2. isr.pkt.mine \in BOOLEAN
      BY <3>1
    <3>3. CASE ScanConnect
      BY <3>1, <3>2, <3>3, ScanConnectStep DEF TakesUpOne
    <3>4. CASE AuxConnect
      BY <3>1, <3>2, <3>4, AuxConnectStep DEF TakesUpOne
    <3>5. QED
      BY <2>1, <3>3, <3>4
  <2>2. CASE ScanDataPacket
    <3>1. sched.timer \in Timers /\ UNCHANGED host
      BY <2>2, TypeParts DEF IInv, ScanDataPacket, RadioTypes, Sched
    <3>2. QED
      BY <2>2, <3>1, ScanDataPacketStep DEF TakesUpOne
  <2>3. QED
    BY <1>2, <2>1, <2>2, ServedAclPacketStep, ServedPeriodicPacketStep, ServedIsoPacketStep,
       ScanTargetAdvStep, ScanExtAdvStep, AuxExtAdvStep, AuxOtherStep DEF PacketHandled
<1>3. CASE IsrStep
  BY <1>2, <1>3, InjectIgnoredStep, InjectRefusedStep, InjectTakenStep, PollHintStep,
     TargetFilterStep, PollPastStep DEF IsrStep, TakesUpOne
<1>4. CASE UNCHANGED vars
  <2> USE <1>4 DEF vars
  <2>1. RadioTypes' /\ SchedInv'
    BY Unmoved, SchedUntouched
  <2>2. OtherTypes' /\ PacketInv'
    BY TypeParts DEF IInv, OtherTypes, PacketInv
  <2>3. QED
    BY <2>1, <2>2, Assemble, Unmoved, UnmovedQuiet
<1>5. QED
  BY <1>1, <1>3, <1>4, PollMailboxesStep, ReceiveStep, HostStepStep, LinkDiesStep DEF Next
-----------------------------------------------------------------------------
(* The theorems. *)

\* The inductive invariant holds in every reachable state.
THEOREM InvariantHolds == Spec => []IInv
<1>1. Init => IInv
  BY InitIInv
<1>2. IInv /\ [Next]_vars => IInv'
  BY Step
<1>3. QED
  BY <1>1, <1>2, PTL DEF Spec

\* Every variable of the follower has its type, whatever the table size, the links, the
\* intervals and the limits are.
THEOREM TypeCorrect == Spec => []TypeOK
<1>1. IInv => TypeOK
  BY DEF IInv
<1>2. QED
  BY <1>1, InvariantHolds, PTL

\* However CONNECT_INDs, injects, hints, PAST and BIGInfo interleave, no access address
\* is followed by two slots (find_slot_by_aa before every build).
THEOREM NoLinkFollowedTwice == Spec => []NoDuplicateFollow
<1>1. IInv => NoDuplicateFollow
  BY DEF IInv, Unique, NoDuplicateFollow, Active
<1>2. QED
  BY <1>1, InvariantHolds, PTL

\* note_ext_adv and serve_aux_open together never chase more than AUX_MAX_CHAIN hops.
THEOREM ChainBounded == Spec => []AuxChainBounded
<1>1. IInv => AuxChainBounded
  BY DEF IInv, SchedInv
<1>2. QED
  BY <1>1, InvariantHolds, PTL

\* A closing callback on the timer line is the one of the window that is open: no
\* build_slot, preemption, inject or retune in between leaves a foreign one there.
THEOREM WindowsAreClosed == Spec => []WindowHasItsClose
<1>1. IInv => WindowHasItsClose
  BY DEF IInv, SchedInv, WindowHasItsClose
<1>2. QED
  BY <1>1, InvariantHolds, PTL

\* What a step takes up, the single-target policy and the target filter allow.
LEMMA TakenUpAllowed ==
  ASSUME IInv, TakesUpOne, NEW i \in BuiltAcl
  PROVE  /\ host.single => host.target /\ Acl(slots') = {i}
         /\ host.target /\ slots'[i].aa \notin TargetLinks => mail.inject = slots'[i].aa
<1>1. CASE InjectTaken /\ TakesUp(mail.inject, Unstale)
  BY <1>1 DEF InjectTaken, AllowsInject, TakesUp
<1>2. ASSUME NEW l \in Links, NEW mine \in BOOLEAN, NEW tm \in Timers,
             mine = (l \in TargetLinks) \/ (mine = FALSE /\ l \notin TargetLinks),
             Follow(l, mine, tm), TakesUp(l, Preempted(mine))
      PROVE  /\ host.single => host.target /\ Acl(slots') = {i}
             /\ host.target => slots'[i].aa \in TargetLinks
  BY <1>2 DEF Follow, AllowsConnect, TakesUp
<1>3. QED
  BY <1>1, <1>2 DEF TakesUpOne

LEMMA QuietTakesUpNone ==
  ASSUME Quiet(slots, slots')
  PROVE  BuiltAcl = {}
BY DEF Quiet, BuiltAcl, Built

\* In single-target mode a connection is taken up only while a target is set, and is
\* then the only connection followed: preemption runs before the policy is asked, on
\* every path that builds a slot.
THEOREM FollowIsExclusive == Spec => ExclusiveFollow
<1>1. IInv /\ [Next]_vars =>
        [host.single /\ BuiltAcl # {} => host.target /\ Cardinality(Acl(slots')) = 1]_vars
  <2> SUFFICES ASSUME IInv, [Next]_vars, host.single, NEW i \in BuiltAcl
               PROVE  host.target /\ Cardinality(Acl(slots')) = 1
    OBVIOUS
  <2>1. TakesUpOne
    BY Step, QuietTakesUpNone
  <2>2. host.target /\ Acl(slots') = {i}
    BY <2>1, TakenUpAllowed
  <2>3. QED
    BY <2>2, FS_Singleton
<1>2. QED
  BY <1>1, InvariantHolds, PTL DEF Spec, ExclusiveFollow

\* With a target set, another device's connection is taken up only through an inject of
\* the host: never from the air, and never from a data packet misread as advertising.
THEOREM TargetIsRespected == Spec => FollowsTargetOnly
<1>1. IInv /\ [Next]_vars =>
        [\A i \in BuiltAcl : host.target /\ slots'[i].aa \notin TargetLinks
                               => mail.inject = slots'[i].aa]_vars
  <2> SUFFICES ASSUME IInv, [Next]_vars, NEW i \in BuiltAcl,
                      host.target, slots'[i].aa \notin TargetLinks
               PROVE  mail.inject = slots'[i].aa
    OBVIOUS
  <2>1. TakesUpOne
    BY Step, QuietTakesUpNone
  <2>2. QED
    BY <2>1, TakenUpAllowed
<1>2. QED
  BY <1>1, InvariantHolds, PTL DEF Spec, FollowsTargetOnly

-----------------------------------------------------------------------------
(* What the radio is tuned to in each mode, and which packets can be in hand.   *)

\* The radio in its modes, and the mode against the packet in hand: while a connection
\* is served only its own packets come in, and only an ISO window closes from RX.
TunedInv ==
  /\ mode = "scanning" => radio.on /\ radio.aa = Adv
  /\ mode = "serving" => radio.aa # Adv
  /\ isr.pkt # None /\ mode = "serving" => isr.pkt.type = "data"
  /\ isr.stage = "close" => slots[ev.slot].kind = "iso"

\* What arm_next leaves, called with radio rd and scan channel ch: everything as its
\* caller left it, or scanning; and the timer line planned whenever something is followed.
Rearmed(rd, ch) ==
  /\ \/ mode' = mode /\ radio' = rd /\ scanCh' = ch
     \/ mode' = "scanning" /\ radio' = OnScanChannel(scanCh')
  /\ ~host.hopping => scanCh' = ch
  /\ Active(slots') # {} \/ mode' # "scanning" => sched'.timer = "dispatch" /\ sched'.act # "none"

LEMMA ArmNextRearms ==
  ASSUME IInv, NEW sl \in SlotTable, NEW ax \in Aux, NEW rd \in Radio, NEW tm \in Timers,
         NEW ch \in AdvChannels, ArmNextFrom(sl, ax, rd, tm, ch)
  PROVE  Rearmed(rd, ch)
<1>1. PICK plan \in AuxPlan(sl, ax) :
        \/ /\ plan[1]
           /\ sched' = [sched EXCEPT !.timer = "dispatch", !.act = "serve_aux"]
           /\ radio' = rd /\ scanCh' = ch /\ UNCHANGED mode
        \/ ~plan[1] /\ Active(sl) = {} /\ ScanOnly(rd, tm, ch)
        \/ ~plan[1] /\ Active(sl) # {} /\ ServeNext(sl, Earliest(sl), rd, ch)
  BY DEF ArmNextFrom
<1>2. Active(slots') = Active(sl)
  BY NormaliseIsQuiet DEF ArmNextFrom
<1>3. sched \in Sched
  BY TypeParts DEF IInv, RadioTypes
<1>4. CASE sched' = [sched EXCEPT !.timer = "dispatch", !.act = "serve_aux"]
           /\ radio' = rd /\ scanCh' = ch /\ UNCHANGED mode
  <2>1. sched'.timer = "dispatch" /\ sched'.act # "none"
    BY <1>3, <1>4 DEF Sched
  <2>2. QED
    BY <1>4, <2>1 DEF Rearmed
<1>5. CASE Active(sl) = {} /\ ScanOnly(rd, tm, ch)
  BY <1>2, <1>5 DEF ScanOnly, Rearmed
<1>6. CASE ServeNext(sl, Earliest(sl), rd, ch)
  <2>1. sched'.timer = "dispatch" /\ sched'.act # "none"
    BY <1>6 DEF ServeNext
  <2>2. QED
    BY <1>6, <2>1 DEF ServeNext, Rearmed
<1>7. QED
  BY <1>1, <1>4, <1>5, <1>6

\* build_slot's arm_next; and the connections it finds in the table stay.
LEMMA BuildRearms ==
  ASSUME IInv, NEW sl, Quiet(slots, sl), NEW l \in Links \ Followed(sl), NEW tm \in Timers,
         CanBuild(sl, l), Build(sl, l, tm)
  PROVE  Rearmed(radio, scanCh) /\ Acl(sl) \subseteq Acl(slots')
<1>1. PICK due \in 0 .. MaxDue :
        ArmNext([sl EXCEPT ![Alloc(sl)] = NewSlot("acl", l, due)], aux, radio, tm)
  BY DEF Build
<1> DEFINE sl2 == [sl EXCEPT ![Alloc(sl)] = NewSlot("acl", l, due)]
<1>2. sl2 \in SlotTable /\ Acl(sl) \subseteq Acl(sl2)
  <2>1. sl \in SlotTable /\ Free(sl) # {} /\ due \in Nat /\ "acl" \in Kinds
        /\ l \in (Links \cup Streams) \ Followed(sl)
    BY ConstAssumption DEF Quiet, Keeps, CanBuild, Kinds
  <2>2. Filled(sl, sl2, "acl", l)
    BY <2>1, FillKeeps
  <2>3. QED
    BY <2>2 DEF Filled, Keeps
<1>3. ArmNextFrom(sl2, aux, radio, tm, scanCh)
  BY <1>1 DEF ArmNext
<1> HIDE DEF sl2
<1>4. aux \in Aux /\ radio \in Radio /\ scanCh \in AdvChannels
  BY TypeParts DEF IInv, RadioTypes
<1>5. Rearmed(radio, scanCh)
  BY <1>2, <1>3, <1>4, ArmNextRearms
<1>6. Acl(slots') = Acl(sl2)
  BY <1>2, <1>3, NormaliseIsQuiet DEF ArmNextFrom
<1>7. QED
  BY <1>2, <1>5, <1>6

LEMMA FollowRearms ==
  ASSUME IInv, NEW l \in Links, NEW mine, NEW tm \in Timers, Follow(l, mine, tm)
  PROVE  Rearmed(radio, scanCh) /\ Acl(Preempted(mine)) \subseteq Acl(slots')
<1>1. l \in Links \ Followed(Preempted(mine))
  BY PreemptedIsQuiet DEF Follow
<1>2. QED
  BY <1>1, PreemptedIsQuiet, BuildRearms DEF Follow

-----------------------------------------------------------------------------
(* One step of an interrupt, as far as mode, radio and timer line are concerned. *)

\* Nothing but the table, and a first slot appears in it only through PAST, or
\* while a window is open.
Unscheduled ==
  /\ UNCHANGED <<mode, sched, scanCh, radio>>
  /\ Active(slots') # {} => Active(slots) # {} \/ mode # "scanning" \/ mail.past

\* The window of an ISO stream is over: its timer is cancelled and serve_close follows.
Closing ==
  /\ mode = "serving" /\ slots[ev.slot].kind = "iso"
  /\ isr'.stage = "close" /\ isr'.pkt = isr.pkt
  /\ UNCHANGED <<slots, mode, scanCh, radio>> /\ ev'.slot = ev.slot

\* An AUX_CONNECT_REQ is refused beside a connection: the window's timer is gone.
Orphaned ==
  /\ mode = "serving_aux" /\ isr.pkt # None /\ isr.pkt.type = "connect"
  /\ isr' = Idle /\ UNCHANGED <<mode, scanCh, radio>>

LEMMA ReleasedActive ==
  ASSUME NEW sl, NEW S
  PROVE  Active(Release(sl, S)) \subseteq Active(sl)
BY DEF Active, Release

\* The interrupt goes on with the same packet, or is over.
GoesOn == isr' = Idle \/ (isr'.pkt = isr.pkt /\ isr'.stage # "close")

LEMMA MailboxStepEffect ==
  ASSUME IInv, InjectIgnored \/ InjectRefused \/ PollHint \/ TargetFilter \/ PollPast
  PROVE  UNCHANGED host /\ GoesOn /\ Unscheduled
<1>1. isr \in [stage : {"idle", "inject", "hint", "filter", "past", "packet", "close"},
               pkt : Packet \cup {None}]
  BY TypeParts DEF IInv, OtherTypes
<1>2. CASE InjectIgnored \/ TargetFilter
  BY <1>1, <1>2 DEF InjectIgnored, TargetFilter, GoesOn, Unscheduled
<1>3. CASE InjectRefused
  <2>1. Active(slots') \subseteq Active(slots)
    BY <1>3, ReleasedActive DEF InjectRefused, Unstale
  <2>2. QED
    BY <1>1, <1>3, <2>1 DEF InjectRefused, GoesOn, Unscheduled
<1>4. CASE PollHint
  <2> DEFINE owner == {i \in Acl(slots) : mail.hint # None /\ slots[i].aa = mail.hint.link}
  <2>1. owner = {} => UNCHANGED slots
    BY <1>4 DEF PollHint
  <2>2. owner # {} => Active(slots) # {}
    BY DEF Acl
  <2>3. GoesOn
    BY <1>1, <1>4 DEF PollHint, AfterHint, GoesOn
  <2> HIDE DEF owner
  <2>4. QED
    BY <1>4, <2>1, <2>2, <2>3 DEF PollHint, Unscheduled
<1>5. CASE PollPast
  BY <1>1, <1>5 DEF PollPast, GoesOn, Unscheduled
<1>6. QED
  BY <1>2, <1>3, <1>4, <1>5

LEMMA InjectTakenEffect ==
  ASSUME IInv, InjectTaken
  PROVE  UNCHANGED host /\ GoesOn /\ Rearmed(radio, scanCh)
<1>1. mail.inject \in Links \ Followed(Unstale) /\ sched.timer \in Timers
  BY TypeParts, UnstaleIsQuiet DEF InjectTaken, IInv, OtherTypes, RadioTypes, Sched
<1>2. Rearmed(radio, scanCh)
  BY <1>1, UnstaleIsQuiet, BuildRearms DEF InjectTaken
<1>3. QED
  BY <1>2, TypeParts DEF InjectTaken, IInv, OtherTypes, GoesOn

LEMMA ServedEffect ==
  ASSUME IInv, ServedAclPacket \/ ServedPeriodicPacket \/ ServedIsoPacket
  PROVE  UNCHANGED host /\ (Closing \/ (GoesOn /\ Unscheduled))
<1>1. CASE ServedAclPacket \/ ServedPeriodicPacket
  BY <1>1 DEF ServedAclPacket, ServedPeriodicPacket, InMode, GoesOn, Unscheduled
<1>2. CASE ServedIsoPacket
  <2>1. UNCHANGED <<slots, mode, scanCh, radio, host>>
        /\ mode = "serving" /\ slots[ev.slot].kind = "iso"
    BY <1>2 DEF ServedIsoPacket, InMode, Served
  <2>2. ev'.slot = ev.slot
    BY <1>2, TypeParts DEF ServedIsoPacket, IInv, OtherTypes
  <2>3. CASE isr' = Idle /\ UNCHANGED sched
    BY <2>1, <2>3 DEF GoesOn, Unscheduled
  <2>4. CASE isr' = [isr EXCEPT !.stage = "close"]
    BY <2>1, <2>2, <2>4, TypeParts DEF IInv, OtherTypes, Closing
  <2>5. QED
    BY <1>2, <2>3, <2>4 DEF ServedIsoPacket
<1>3. QED
  BY <1>1, <1>2

LEMMA ScannedEffect ==
  ASSUME IInv, ScanConnect \/ ScanDataPacket \/ ScanTargetAdv \/ ScanExtAdv
  PROVE  UNCHANGED host /\ GoesOn /\ (Rearmed(radio, scanCh) \/ Unscheduled)
<1>1. isr' = Idle /\ UNCHANGED host
  BY DEF ScanConnect, ScanDataPacket, ScanTargetAdv, ScanExtAdv
<1>2. /\ sched.timer \in Timers /\ aux \in Aux /\ radio \in Radio /\ scanCh \in AdvChannels
      /\ slots \in SlotTable
  BY TypeParts DEF IInv, RadioTypes, Sched
<1>3. CASE UNCHANGED <<slots, mode, sched, aux, scanCh, radio>>
  BY <1>1, <1>3 DEF GoesOn, Unscheduled
<1>4. CASE ScanConnect
  <2>1. CASE Follow(isr.pkt.link, isr.pkt.mine, sched.timer)
    <3>1. Rearmed(radio, scanCh)
      BY <1>2, <1>4, <2>1, FollowRearms DEF ScanConnect, InMode, IInv, PacketInv
    <3>2. QED
      BY <1>1, <3>1 DEF GoesOn
  <2>2. CASE Refuse(isr.pkt.link, isr.pkt.mine, slots') /\ UNCHANGED <<mode, sched, aux, scanCh, radio>>
    <3>1. Active(slots') \subseteq Active(slots)
      BY <2>2, ReleasedActive DEF Refuse, Preempted
    <3>2. QED
      BY <1>1, <2>2, <3>1 DEF GoesOn, Unscheduled
  <2>3. QED
    BY <1>1, <1>4, <2>1, <2>2 DEF ScanConnect, GoesOn
<1>5. CASE ScanDataPacket
  <2>1. ASSUME NEW l \in Links, Follow(l, FALSE, sched.timer)
        PROVE  Rearmed(radio, scanCh)
    BY <1>2, <2>1, FollowRearms
  <2>2. QED
    BY <1>1, <1>3, <1>5, <2>1 DEF ScanDataPacket, GoesOn
<1>6. CASE ScanTargetAdv
  <2>1. CASE ArmNext(Unstale, aux, radio, sched.timer)
    <3>1. Rearmed(radio, scanCh)
      BY <1>2, <2>1, UnstaleIsQuiet, ArmNextRearms DEF ArmNext, Quiet, Keeps
    <3>2. QED
      BY <1>1, <3>1 DEF GoesOn
  <2>2. QED
    BY <1>1, <1>3, <1>6, <2>1 DEF ScanTargetAdv, GoesOn
<1>7. CASE ScanExtAdv
  <2>1. ASSUME NEW ax \in NoteExtAdv, ArmNext(slots, ax, radio, sched.timer)
        PROVE  Rearmed(radio, scanCh)
    BY <1>2, <2>1, NoteExtAdvBounded, ArmNextRearms DEF ArmNext
  <2>2. QED
    BY <1>1, <1>3, <1>7, <2>1 DEF ScanExtAdv, GoesOn
<1>8. QED
  BY <1>4, <1>5, <1>6, <1>7

LEMMA AuxiliaryEffect ==
  ASSUME IInv, AuxConnect \/ AuxExtAdv \/ AuxOther
  PROVE  UNCHANGED host /\ GoesOn /\ (Rearmed(radio, scanCh) \/ Unscheduled \/ Orphaned)
<1>1. isr' = Idle /\ UNCHANGED host
  BY DEF AuxConnect, AuxExtAdv, AuxOther
<1>2. CASE AuxExtAdv \/ AuxOther
  BY <1>1, <1>2 DEF AuxExtAdv, AuxOther, InMode, GoesOn, Unscheduled
<1>3. CASE AuxConnect
  <2>1. /\ aux \in Aux /\ radio \in Radio /\ scanCh \in AdvChannels /\ "off" \in Timers
        /\ mode = "serving_aux" /\ isr.pkt # None /\ isr.pkt.type = "connect"
        /\ isr.pkt.link \in Links
    BY <1>3, TypeParts DEF AuxConnect, InMode, IInv, RadioTypes, PacketInv, Timers
  <2>2. CASE Follow(isr.pkt.link, isr.pkt.mine, "off")
    BY <1>1, <2>1, <2>2, FollowRearms DEF GoesOn
  <2>3. ASSUME NEW sl, Refuse(isr.pkt.link, isr.pkt.mine, sl), ArmNext(sl, aux, radio, "off")
        PROVE  Rearmed(radio, scanCh)
    BY <2>1, <2>3, RefuseIsQuiet, ArmNextRearms DEF ArmNext, Quiet, Keeps
  <2>4. CASE UNCHANGED <<mode, scanCh, radio>>
    BY <1>1, <2>1, <2>4 DEF GoesOn, Orphaned
  <2>5. QED
    BY <1>1, <1>3, <2>2, <2>3, <2>4 DEF AuxConnect, GoesOn
<1>4. QED
  BY <1>2, <1>3

LEMMA IsrStepEffect ==
  ASSUME IInv, IsrStep
  PROVE  /\ UNCHANGED host /\ isr.stage # "close"
         /\ Closing \/ (GoesOn /\ (Rearmed(radio, scanCh) \/ Unscheduled \/ Orphaned))
<1>1. isr.stage \in {"inject", "hint", "filter", "past", "packet"}
  BY DEF IsrStep, PacketHandled, InjectIgnored, InjectRefused, InjectTaken, PollHint, TargetFilter,
     PollPast, ServedAclPacket, ServedPeriodicPacket, ServedIsoPacket, ScanConnect, ScanDataPacket,
     ScanTargetAdv, ScanExtAdv, AuxConnect, AuxExtAdv, AuxOther, InMode
<1>2. QED
  BY <1>1, MailboxStepEffect, InjectTakenEffect, ServedEffect, ScannedEffect, AuxiliaryEffect
     DEF IsrStep, PacketHandled

\* A closing window and a rotation also end in arm_next, with the radio off or on the
\* next scan channel.
LEMMA ClosingRearms ==
  ASSUME IInv, ServeClose \/ ServeAuxClose
  PROVE  /\ Rearmed(RadioOff, scanCh) /\ UNCHANGED host /\ mode # "scanning"
         /\ isr' = Idle
<1>1. /\ aux \in Aux /\ RadioOff \in Radio /\ scanCh \in AdvChannels /\ "off" \in Timers
      /\ slots \in SlotTable /\ NoAux \in Aux
  BY TypeParts DEF IInv, RadioTypes, Radio, RadioOff, Timers, NoAux, Aux
<1>2. CASE ServeClose
  <2>1. PICK s \in Accounted(slots[ev.slot]) : \E t \in Advanced(s) :
          ArmNext([slots EXCEPT ![ev.slot] = t], aux, RadioOff, "off")
    BY <1>2 DEF ServeClose
  <2>2. PICK t \in Advanced(s) : ArmNext([slots EXCEPT ![ev.slot] = t], aux, RadioOff, "off")
    BY <2>1
  <2>3. mode = "serving"
    BY <1>2 DEF ServeClose, TimerFires, IInv, SchedInv, PacketInv
  <2>4. [slots EXCEPT ![ev.slot] = t] \in SlotTable
    BY <2>3, AccountedSlot DEF IInv, SchedInv, Quiet, Keeps
  <2>5. Rearmed(RadioOff, scanCh)
    BY <1>1, <2>2, <2>4, ArmNextRearms DEF ArmNext
  <2>6. QED
    BY <1>2, <2>3, <2>5 DEF ServeClose
<1>3. CASE ServeAuxClose
  <2>1. Rearmed(RadioOff, scanCh)
    BY <1>1, <1>3, ArmNextRearms DEF ServeAuxClose, ArmNext
  <2>2. QED
    BY <1>3, <2>1 DEF ServeAuxClose, TimerFires, IInv, SchedInv
<1>4. QED
  BY <1>2, <1>3

Rotated(rd, ch) ==
  /\ rd.aa = radio.aa /\ (radio.on => rd.on)
  /\ mode # "scanning" \/ ~host.hopping => rd = radio
  /\ mode = "scanning" /\ host.hopping => rd.ch = ch
  /\ ~host.hopping => ch = scanCh

LEMMA RotateRearms ==
  ASSUME IInv, ScanRotate
  PROVE  /\ \E rd, ch : Rotated(rd, ch) /\ Rearmed(rd, ch)
         /\ UNCHANGED <<host, isr>> /\ isr = Idle
<1> USE DEF ScanRotate, TimerFires
<1> DEFINE ch == IF host.hopping THEN NextScanChannel(scanCh) ELSE scanCh
           rd == IF host.hopping /\ mode = "scanning"
                   THEN [radio EXCEPT !.on = TRUE, !.ch = ch] ELSE radio
<1>1. RadioTypes /\ slots \in SlotTable /\ aux \in Aux /\ "off" \in Timers
  BY TypeParts DEF IInv, RadioTypes, Timers
<1>2. ch \in AdvChannels /\ (~host.hopping => ch = scanCh)
  BY <1>1 DEF RadioTypes, NextScanChannel, AdvChannels
<1>3. ArmNextFrom(slots, aux, rd, "off", ch)
  OBVIOUS
<1>4. rd = IF host.hopping /\ mode = "scanning"
             THEN [radio EXCEPT !.on = TRUE, !.ch = ch] ELSE radio
  OBVIOUS
<1> HIDE DEF rd, ch
<1>5. rd \in Radio /\ Rotated(rd, ch)
  BY <1>1, <1>2, <1>4 DEF RadioTypes, Radio, Rotated
<1>6. Rearmed(rd, ch)
  BY <1>1, <1>2, <1>3, <1>5, ArmNextRearms
<1>7. QED
  BY <1>5, <1>6

-----------------------------------------------------------------------------
(* The radio in its modes. *)

\* arm_next, given the radio as it is up to being off, keeps mode and radio together.
LEMMA RearmedTunes ==
  ASSUME TunedInv, NEW rd, NEW ch, Rearmed(rd, ch), rd.aa = radio.aa, mode = "scanning" => rd.on
  PROVE  /\ mode' = "scanning" => radio'.on /\ radio'.aa = Adv
         /\ mode' = "serving" => radio'.aa # Adv /\ mode = "serving"
         /\ mode' \in {mode, "scanning"}
BY DEF TunedInv, Rearmed, OnScanChannel

LEMMA TunedStep ==
  ASSUME IInv, TunedInv, [Next]_vars
  PROVE  TunedInv'
<1>1. RadioTypes /\ OtherTypes /\ slots \in SlotTable
  BY TypeParts DEF IInv
<1>2. CASE ServeOpen
  <2>1. slots[sched.slot].aa # Adv
    BY <1>1, ConstAssumption DEF RadioTypes, Sched, SlotTable, SlotRecord
  <2>2. QED
    BY <1>2, <2>1 DEF ServeOpen, TimerFires, TunedInv, Idle
<1>3. CASE ServeAuxOpen
  BY <1>3 DEF ServeAuxOpen, TimerFires, TunedInv, Idle
<1>4. CASE ServeClose \/ ServeAuxClose
  <2>1. RadioOff.aa = radio.aa
    BY <1>1 DEF RadioOff, RadioTypes, Radio
  <2>2. QED
    BY <1>4, <2>1, ClosingRearms, RearmedTunes DEF TunedInv, Idle
<1>5. CASE ScanRotate
  BY <1>5, RotateRearms, RearmedTunes DEF TunedInv, Rotated, Idle
<1>6. CASE IsrStep
  <2>1. CASE Closing
    BY <2>1 DEF Closing, TunedInv
  <2>2. CASE GoesOn /\ Rearmed(radio, scanCh)
    BY <2>2, RearmedTunes DEF TunedInv, GoesOn, Idle
  <2>3. CASE GoesOn /\ (Unscheduled \/ Orphaned)
    BY <2>3 DEF Unscheduled, Orphaned, TunedInv, GoesOn, Idle
  <2>4. QED
    BY <1>6, <2>1, <2>2, <2>3, IsrStepEffect
<1>7. CASE Receive
  BY <1>7 DEF Receive, ReceiveConnect, ReceiveAdvertising, ReceiveData, Received, TunedInv
<1>8. CASE HostRetune
  BY <1>1, <1>8 DEF HostRetune, RadioTypes, Radio, TunedInv
<1>9. CASE DispatchNone \/ PollMailboxes \/ LinkDies \/ UNCHANGED vars
  BY <1>9 DEF DispatchNone, PollMailboxes, LinkDies, vars, Poll, TunedInv
<1>10. CASE HostConfigures \/ HostSetChannel \/ HostFollow \/ HostHint
  BY <1>10 DEF HostConfigures, HostSetChannel, HostFollow, HostHint, TunedInv
<1>11. QED
  BY <1>2, <1>3, <1>4, <1>5, <1>6, <1>7, <1>8, <1>9, <1>10 DEF Next, TimerInterrupt, HostStep

LEMMA TunedInit ==
  ASSUME Init
  PROVE  TunedInv
BY DEF Init, TunedInv, OnScanChannel, Idle

THEOREM RadioFollowsMode == Spec => []TunedInv
<1>1. Init => TunedInv
  BY TunedInit
<1>2. IInv /\ TunedInv /\ [Next]_vars => TunedInv'
  BY TunedStep
<1>3. QED
  BY <1>1, <1>2, InvariantHolds, PTL DEF Spec

-----------------------------------------------------------------------------
(* The guard channel. *)

\* Steps that leave mode, radio and scan channel alone, beside the interrupts' own.
Elsewhere ==
  DispatchNone \/ PollMailboxes \/ Receive \/ HostFollow \/ HostHint \/ LinkDies
  \/ UNCHANGED vars

LEMMA ElsewhereEffect ==
  ASSUME Elsewhere
  PROVE  UNCHANGED <<mode, radio, scanCh, host>>
BY DEF Elsewhere, DispatchNone, PollMailboxes, Receive, ReceiveConnect, ReceiveAdvertising,
       ReceiveData, HostFollow, HostHint, LinkDies, vars

LEMMA ScanChannelMoves ==
  ASSUME IInv, [Next]_vars, scanCh' # scanCh
  PROVE  host.hopping \/ HostSetChannel
<1>1. CASE ServeOpen \/ ServeAuxOpen
  BY <1>1 DEF ServeOpen, ServeAuxOpen
<1>2. CASE ServeClose \/ ServeAuxClose
  BY <1>2, ClosingRearms DEF Rearmed
<1>3. CASE ScanRotate
  BY <1>3, RotateRearms DEF Rearmed, Rotated
<1>4. CASE IsrStep
  BY <1>4, IsrStepEffect DEF Closing, Rearmed, Unscheduled, Orphaned
<1>5. CASE HostConfigures \/ HostRetune
  BY <1>5 DEF HostConfigures, HostRetune
<1>6. CASE Elsewhere
  BY <1>6, ElsewhereEffect
<1>7. QED
  BY <1>1, <1>2, <1>3, <1>4, <1>5, <1>6 DEF Next, TimerInterrupt, HostStep, Elsewhere

\* Following a connection, chasing an AUX packet and coming back leave the channel the
\* board guards alone: without hopping only the host's own command moves it.
THEOREM ScanChannelSticks == Spec => GuardChannelSticks
<1>1. IInv /\ [Next]_vars => [scanCh' # scanCh => host.hopping \/ HostSetChannel]_vars
  BY ScanChannelMoves
<1>2. QED
  BY <1>1, InvariantHolds, PTL DEF Spec, GuardChannelSticks

\* A retune is in progress, or hopping on, only where the host commands it.
IssuedInv ==
  /\ host.retune # None => "channel" \in HostCommands
  /\ host.hopping => "hopping on" \in HostCommands

LEMMA IssuedStep ==
  ASSUME IInv, IssuedInv, [Next]_vars
  PROVE  IssuedInv'
<1>1. OtherTypes
  BY TypeParts DEF IInv
<1>2. CASE HostConfigures
  BY <1>1, <1>2 DEF HostConfigures, Commands, OtherTypes, IssuedInv
<1>3. CASE HostSetChannel
  BY <1>1, <1>3 DEF HostSetChannel, Commands, OtherTypes, IssuedInv
<1>4. CASE HostRetune
  BY <1>1, <1>4 DEF HostRetune, OtherTypes, IssuedInv
<1>5. CASE UNCHANGED host
  BY <1>5 DEF IssuedInv
<1>6. (ServeOpen \/ ServeAuxOpen) => UNCHANGED host
  BY DEF ServeOpen, ServeAuxOpen
<1>7. QED
  BY <1>2, <1>3, <1>4, <1>5, <1>6, ClosingRearms, RotateRearms, IsrStepEffect, ElsewhereEffect
     DEF Next, TimerInterrupt, HostStep, Elsewhere

LEMMA CommandsIssued == Spec => []IssuedInv
<1>1. Init => IssuedInv
  BY DEF Init, IssuedInv
<1>2. IInv /\ IssuedInv /\ [Next]_vars => IssuedInv'
  BY IssuedStep
<1>3. QED
  BY <1>1, <1>2, InvariantHolds, PTL DEF Spec

\* A retune in progress must not meet a hopping board that stops hopping: SET_CHANNEL,
\* hopping on and hopping off may not all be in use.
NoLateRetune == ~({"channel", "hopping on", "hopping off"} \subseteq HostCommands)

\* The radio is on the guard channel while the board scans, or a retune to it is due.
ChannelInv ==
  /\ mode = "scanning" /\ host.retune = None /\ (~host.hopping \/ "channel" \notin HostCommands)
       => radio.ch = scanCh
  /\ ~host.hopping /\ host.retune # None => host.retune = scanCh

\* arm_next from a radio that is on the scan channel whenever it has to be.
LEMMA RearmedChannel ==
  ASSUME ChannelInv, UNCHANGED host, NEW rd, NEW ch, Rearmed(rd, ch), ~host.hopping => ch = scanCh,
         mode = "scanning" /\ host.retune = None /\ (~host.hopping \/ "channel" \notin HostCommands)
           => rd.ch = ch
  PROVE  ChannelInv'
<1>1. mode' = "scanning" => \/ mode = "scanning" /\ radio'.ch = rd.ch /\ scanCh' = ch
                            \/ radio'.ch = scanCh'
  BY DEF Rearmed, OnScanChannel
<1>2. ~host.hopping => scanCh' = scanCh
  BY DEF Rearmed
<1>3. QED
  BY <1>1, <1>2 DEF ChannelInv

LEMMA ChannelStep ==
  ASSUME NoLateRetune, IInv, IssuedInv, ChannelInv, [Next]_vars
  PROVE  ChannelInv'
<1>1. RadioTypes /\ OtherTypes /\ None \notin AdvChannels
  BY TypeParts, ConstAssumption DEF IInv
<1>2. CASE ServeOpen \/ ServeAuxOpen
  BY <1>2 DEF ServeOpen, ServeAuxOpen, ChannelInv
<1>3. CASE ServeClose \/ ServeAuxClose
  BY <1>3, ClosingRearms, RearmedChannel
<1>4. CASE ScanRotate
  <2>1. PICK rd, ch : Rotated(rd, ch) /\ Rearmed(rd, ch)
    BY <1>4, RotateRearms
  <2>2. mode = "scanning" /\ host.retune = None /\ (~host.hopping \/ "channel" \notin HostCommands)
          => rd.ch = ch
    BY <2>1 DEF ChannelInv, Rotated
  <2>3. QED
    BY <1>4, <2>1, <2>2, RotateRearms, RearmedChannel DEF Rotated
<1>5. CASE IsrStep
  <2>1. CASE Rearmed(radio, scanCh)
    BY <1>5, <2>1, IsrStepEffect, RearmedChannel DEF ChannelInv
  <2>2. CASE Closing \/ Unscheduled \/ Orphaned
    BY <1>5, <2>2, IsrStepEffect DEF Closing, Unscheduled, Orphaned, ChannelInv
  <2>3. QED
    BY <1>5, <2>1, <2>2, IsrStepEffect
<1>6. CASE HostConfigures
  <2>1. UNCHANGED <<mode, scanCh, radio>> /\ host'.retune = host.retune
    BY <1>1, <1>6 DEF HostConfigures, OtherTypes
  <2>2. CASE host'.hopping = host.hopping
    BY <2>1, <2>2 DEF ChannelInv
  <2>3. CASE host'.hopping # host.hopping
    <3>1. host'.hopping \in BOOLEAN /\ host.hopping \in BOOLEAN
          /\ (IF host'.hopping THEN "hopping on" ELSE "hopping off") \in HostCommands
      BY <1>1, <1>6, <2>3 DEF HostConfigures, Commands, OtherTypes
    <3>2. CASE host'.hopping
      BY <2>1, <3>1, <3>2, <2>3 DEF ChannelInv
    <3>3. CASE ~host'.hopping
      <4>1. host.hopping /\ "hopping on" \in HostCommands /\ "channel" \notin HostCommands
        BY <2>3, <3>1, <3>3 DEF IssuedInv, NoLateRetune
      <4>2. QED
        BY <2>1, <3>3, <4>1 DEF ChannelInv, IssuedInv
    <3>4. QED
      BY <3>2, <3>3
  <2>4. QED
    BY <2>2, <2>3
<1>7. CASE HostSetChannel
  <2>1. PICK c \in AdvChannels :
          scanCh' = c /\ host' = [host EXCEPT !.retune = IF mode = "scanning" THEN c ELSE None]
    BY <1>7 DEF HostSetChannel
  <2>2. /\ host'.hopping = host.hopping
        /\ host'.retune = IF mode = "scanning" THEN c ELSE None
        /\ "channel" \in HostCommands /\ UNCHANGED <<mode, radio>>
    BY <1>1, <1>7, <2>1 DEF HostSetChannel, Commands, OtherTypes
  <2>3. QED
    BY <1>1, <2>1, <2>2 DEF ChannelInv
<1>8. CASE HostRetune
  <2>1. /\ host.retune # None /\ host'.retune = None /\ host'.hopping = host.hopping
        /\ radio'.ch = host.retune /\ UNCHANGED <<mode, scanCh>>
    BY <1>1, <1>8 DEF HostRetune, OtherTypes, RadioTypes, Radio
  <2>2. QED
    BY <2>1 DEF ChannelInv, IssuedInv
<1>9. CASE Elsewhere
  BY <1>9, ElsewhereEffect DEF ChannelInv
<1>10. QED
  BY <1>2, <1>3, <1>4, <1>5, <1>6, <1>7, <1>8, <1>9 DEF Next, TimerInterrupt, HostStep, Elsewhere

\* Between interrupts, scanning means receiving advertising, on the channel guarded unless
\* a retune is due.  With all three commands in use a late retune would undo that.
THEOREM ScanningReceives == NoLateRetune => (Spec => []ScanReceivesAdvertising)
<1> SUFFICES ASSUME NoLateRetune
             PROVE  Spec => []ScanReceivesAdvertising
  OBVIOUS
<1>1. Init => ChannelInv
  BY DEF Init, ChannelInv, OnScanChannel
<1>2. IInv /\ IssuedInv /\ ChannelInv /\ [Next]_vars => ChannelInv'
  BY ChannelStep
<1>3. TunedInv /\ ChannelInv => ScanReceivesAdvertising
  BY DEF TunedInv, ChannelInv, ScanReceivesAdvertising
<1>4. QED
  BY <1>1, <1>2, <1>3, InvariantHolds, CommandsIssued, RadioFollowsMode, PTL DEF Spec

-----------------------------------------------------------------------------
(* The timer line. *)

\* What loses the timer line is left out: a train built from PAST without arm_next, and an
\* AUX_CONNECT_REQ refused beside a connection (or an AUX window the host retunes).
NoLostTimer ==
  /\ "past" \notin Ctrl
  /\ AuxMaxChain = 0 \/ (AuxLinks = {} /\ "channel" \notin HostCommands)

\* Whatever is followed and wherever the radio is, the timer line brings it back; and no
\* connection request is in hand in an AUX window.
ArmedInv ==
  /\ isr.stage # "close" /\ (Active(slots) # {} \/ mode # "scanning")
       => sched.timer # "off" /\ sched.act # "none"
  /\ ~mail.past
  /\ mode = "serving_aux" => radio.ch = SecondaryCh
  /\ isr.pkt # None /\ mode = "serving_aux" => isr.pkt.type # "connect"
  /\ AuxMaxChain = 0 => mode # "serving_aux"

LEMMA PastStaysOff ==
  ASSUME "past" \notin Ctrl, IInv, ~mail.past, [Next]_vars
  PROVE  ~mail'.past
<1>1. OtherTypes
  BY TypeParts DEF IInv
<1>2. CASE PollHint
  BY <1>1, <1>2 DEF PollHint, OtherTypes
<1>3. CASE ServedAclPacket
  BY <1>3 DEF ServedAclPacket
<1>4. CASE UNCHANGED mail
  BY <1>4
<1>5. CASE InjectIgnored \/ InjectRefused \/ InjectTaken \/ PollPast \/ HostFollow \/ HostHint
  BY <1>1, <1>5 DEF InjectIgnored, InjectRefused, InjectTaken, PollPast, HostFollow, HostHint,
     OtherTypes
<1>6. (TimerInterrupt \/ PollMailboxes \/ Receive \/ LinkDies) => UNCHANGED mail
  BY DEF TimerInterrupt, ServeOpen, ServeClose, ServeAuxOpen, ServeAuxClose, ScanRotate,
     DispatchNone, PollMailboxes, Receive, ReceiveConnect, ReceiveAdvertising, ReceiveData, LinkDies
<1>7. PacketHandled => ServedAclPacket \/ UNCHANGED mail
  BY DEF PacketHandled, ServedPeriodicPacket, ServedIsoPacket, ScanConnect, ScanDataPacket,
     ScanTargetAdv, ScanExtAdv, AuxConnect, AuxExtAdv, AuxOther
<1>8. (TargetFilter \/ HostConfigures \/ HostSetChannel \/ HostRetune \/ UNCHANGED vars)
        => UNCHANGED mail
  BY DEF TargetFilter, HostConfigures, HostSetChannel, HostRetune, vars
<1>9. QED
  BY <1>2, <1>3, <1>4, <1>5, <1>6, <1>7, <1>8 DEF Next, IsrStep, HostStep

LEMMA RearmedArms ==
  ASSUME ArmedInv, NEW rd, NEW ch, Rearmed(rd, ch), rd.ch = radio.ch \/ mode # "serving_aux", GoesOn,
         ~mail'.past
  PROVE  ArmedInv'
BY DEF ArmedInv, Rearmed, GoesOn, Idle

LEMMA ArmedStep ==
  ASSUME NoLostTimer, IInv, IssuedInv, ArmedInv, [Next]_vars
  PROVE  ArmedInv'
<1>1. RadioTypes /\ OtherTypes
  BY TypeParts DEF IInv
<1>2. ~mail'.past
  BY PastStaysOff DEF NoLostTimer, ArmedInv
<1>3. CASE ServeOpen
  <2>1. sched'.timer # "off" /\ sched'.act # "none"
    BY <1>1, <1>3 DEF ServeOpen, RadioTypes, Sched
  <2>2. QED
    BY <1>2, <1>3, <2>1 DEF ServeOpen, TimerFires, ArmedInv
<1>4. CASE ServeAuxOpen
  <2>1. sched'.timer # "off" /\ sched'.act # "none"
    BY <1>1, <1>4 DEF ServeAuxOpen, TimerFires, RadioTypes, Sched
  <2>2. AuxMaxChain # 0
    BY <1>1, <1>4, ConstAssumption
       DEF ServeAuxOpen, TimerFires, IInv, SchedInv, AuxChainBounded, RadioTypes, Aux
  <2>3. QED
    BY <1>2, <1>4, <2>1, <2>2 DEF ServeAuxOpen, TimerFires, ArmedInv, Idle
<1>5. CASE ServeClose \/ ServeAuxClose
  <2>1. RadioOff.ch = radio.ch
    BY <1>1 DEF RadioOff, RadioTypes, Radio
  <2>2. QED
    BY <1>2, <1>5, <2>1, ClosingRearms, RearmedArms DEF GoesOn
<1>6. CASE ScanRotate
  <2>1. PICK rd, ch : Rotated(rd, ch) /\ Rearmed(rd, ch)
    BY <1>6, RotateRearms
  <2>2. rd.ch = radio.ch \/ mode # "serving_aux"
    BY <2>1 DEF Rotated
  <2>3. QED
    BY <1>2, <1>6, <2>1, <2>2, RotateRearms, RearmedArms DEF GoesOn
<1>7. CASE IsrStep
  <2>1. CASE Closing
    BY <1>2, <2>1 DEF Closing, ArmedInv
  <2>2. CASE GoesOn /\ Rearmed(radio, scanCh)
    BY <1>2, <2>2, RearmedArms
  <2>3. CASE GoesOn /\ Unscheduled
    BY <1>2, <1>7, <2>3, IsrStepEffect DEF GoesOn, Unscheduled, ArmedInv, Idle
  <2>4. CASE Orphaned
    BY <2>4 DEF Orphaned, ArmedInv
  <2>5. QED
    BY <1>7, <2>1, <2>2, <2>3, <2>4, IsrStepEffect
<1>8. CASE Receive
  <2>1. UNCHANGED <<slots, mode, sched, radio>> /\ isr = Idle
    BY <1>8 DEF Receive, ReceiveConnect, ReceiveAdvertising, ReceiveData
  <2>2. isr'.stage # "close"
    BY <1>8 DEF Receive, ReceiveConnect, ReceiveAdvertising, ReceiveData, Received
  <2>3. isr'.pkt.type = "connect" => ReceiveConnect
    BY <1>8 DEF Receive, ReceiveAdvertising, ReceiveData, Received
  <2>4. ASSUME ReceiveConnect, mode = "serving_aux"
        PROVE  FALSE
    BY <2>4 DEF ReceiveConnect, ArmedInv, NoLostTimer
  <2>5. QED
    BY <1>2, <2>1, <2>2, <2>3, <2>4 DEF ArmedInv, Idle
<1>9. CASE HostRetune
  <2>1. mode # "serving_aux"
    BY <1>9 DEF HostRetune, IssuedInv, NoLostTimer, ArmedInv
  <2>2. QED
    BY <1>2, <1>9, <2>1 DEF HostRetune, ArmedInv
<1>10. CASE DispatchNone
  BY <1>1, <1>2, <1>10 DEF DispatchNone, TimerFires, ArmedInv, Idle, RadioTypes, Sched
<1>11. CASE PollMailboxes
  BY <1>2, <1>11 DEF PollMailboxes, Poll, ArmedInv, Idle
<1>12. CASE HostConfigures \/ HostSetChannel \/ HostFollow \/ HostHint \/ LinkDies \/ UNCHANGED vars
  BY <1>2, <1>12 DEF HostConfigures, HostSetChannel, HostFollow, HostHint, LinkDies, vars, ArmedInv
<1>13. QED
  BY <1>3, <1>4, <1>5, <1>6, <1>7, <1>8, <1>9, <1>10, <1>11, <1>12 DEF Next, TimerInterrupt, HostStep

LEMMA TimerIsArmed == NoLostTimer => (Spec => []ArmedInv)
<1> SUFFICES ASSUME NoLostTimer
             PROVE  Spec => []ArmedInv
  OBVIOUS
<1>1. Init => ArmedInv
  BY DEF Init, ArmedInv, Active, EmptySlot, Idle
<1>2. IInv /\ IssuedInv /\ ArmedInv /\ [Next]_vars => ArmedInv'
  BY ArmedStep
<1>3. QED
  BY <1>1, <1>2, InvariantHolds, CommandsIssued, PTL DEF Spec

\* Between interrupts a followed link has the timer line armed, however windows, injects,
\* preemptions and AUX packets follow each other.  The hypothesis names the two ways in
\* which the code does lose the line; the runs follower_past_lost and
\* follower_aux_parked show them.
THEOREM FollowedIsScheduled == NoLostTimer => (Spec => []ActiveSlotScheduled)
<1> SUFFICES ASSUME NoLostTimer
             PROVE  Spec => []ActiveSlotScheduled
  OBVIOUS
<1>1. ArmedInv => ActiveSlotScheduled
  BY DEF ArmedInv, ActiveSlotScheduled, Idle
<1>2. QED
  BY <1>1, TimerIsArmed, PTL

\* With nothing on the timer line the radio is on and scanning: no error path leaves it
\* off, on a data channel or on a secondary one for good.
THEOREM RadioComesBack == NoLostTimer => (Spec => []RadioNeverParked)
<1> SUFFICES ASSUME NoLostTimer
             PROVE  Spec => []RadioNeverParked
  OBVIOUS
<1>1. ArmedInv /\ TunedInv => RadioNeverParked
  BY DEF ArmedInv, TunedInv, RadioNeverParked, Idle
<1>2. QED
  BY <1>1, TimerIsArmed, RadioFollowsMode, PTL

-----------------------------------------------------------------------------
(* Connections that are still heard. *)

LEMMA StreamBuildsKeepsAcl ==
  ASSUME NEW sl \in SlotTable, NEW kind, NEW sl2 \in StreamBuilds(sl, kind)
  PROVE  Acl(sl) \subseteq Acl(sl2)
<1>1. CASE Free(sl) # {} /\ \E s : sl2 = [sl EXCEPT ![Alloc(sl)] = s]
  <2>1. Alloc(sl) \notin Acl(sl)
    BY <1>1, AllocIsFree DEF Free, Acl
  <2>2. \A i \in Acl(sl) : sl2[i] = sl[i] /\ i \in Slot
    BY <1>1, <2>1 DEF SlotTable, Acl, Active
  <2>3. QED
    BY <2>2 DEF Acl, Active
<1>2. QED
  BY <1>1 DEF StreamBuilds

\* Of the control PDUs only LL_TERMINATE_IND ends a connection, its own.
LEMMA CtrlKeepsAcl ==
  ASSUME NEW sl \in SlotTable, NEW i \in Slot, NEW ctrl, NEW sl2 \in CtrlOutcomes(sl, i, ctrl)
  PROVE  Acl(sl) \subseteq IF ctrl = "terminate" THEN Acl(sl2) \cup {i} ELSE Acl(sl2)
<1>1. CASE ctrl = "terminate"
  BY <1>1, ReleaseIsQuiet DEF CtrlOutcomes
<1>2. CASE ctrl = "cis_ind"
  BY <1>2, StreamBuildsKeepsAcl DEF CtrlOutcomes
<1>3. CASE ctrl = "cis_terminate"
  <2>1. CASE sl2 = sl
    BY <1>3, <2>1
  <2>2. ASSUME NEW j \in Active(sl), sl[j].kind = "iso", sl2 = Release(sl, {j})
        PROVE  Acl(sl) \subseteq Acl(sl2)
    <3>1. j \notin Acl(sl)
      BY <2>2 DEF Acl
    <3>2. QED
      BY <2>2, <3>1, ReleaseIsQuiet
  <2>3. QED
    BY <1>3, <2>1, <2>2 DEF CtrlOutcomes
<1>4. CASE ctrl \notin {"terminate", "cis_ind", "cis_terminate"}
  BY <1>4 DEF CtrlOutcomes
<1>5. QED
  BY <1>1, <1>2, <1>3, <1>4

\* Preempting stale slots leaves every connection that is still heard.
LEMMA UnstaleKeepsHeard ==
  ASSUME IInv, NEW i \in Acl(slots), slots[i].miss = 0
  PROVE  i \in Acl(Unstale)
<1>1. i \notin Stale(slots)
  BY DEF Stale
<1>2. QED
  BY <1>1, ReleaseIsQuiet, TypeParts DEF IInv, Unstale

\* serve_close drops the slot it served, and only after an event without a packet.
LEMMA ServeCloseKeepsHeard ==
  ASSUME IInv, TunedInv, ServeClose, NEW i \in Acl(slots), slots[i].miss = 0, i \notin Acl(slots')
  PROVE  sched.timer = "serve_close" /\ i = ev.slot /\ ev.heard = "nothing"
<1>1. PICK s \in Accounted(slots[ev.slot]) : \E t \in Advanced(s) :
        ArmNext([slots EXCEPT ![ev.slot] = t], aux, RadioOff, "off")
  BY DEF ServeClose
<1>2. PICK t \in Advanced(s) : ArmNext([slots EXCEPT ![ev.slot] = t], aux, RadioOff, "off")
  BY <1>1
<1> DEFINE sl == [slots EXCEPT ![ev.slot] = t]
<1>3. mode = "serving"
  BY DEF ServeClose, TimerFires, IInv, SchedInv, PacketInv
<1>4. sl \in SlotTable
  BY <1>3, AccountedSlot DEF IInv, SchedInv, Quiet, Keeps
<1>5. i \notin Acl(sl)
  BY <1>2, <1>4, NormaliseIsQuiet DEF ArmNext, ArmNextFrom
<1>6. slots \in SlotTable /\ ev.slot \in Slot /\ i \in Slot /\ slots[i].kind = "acl" /\ slots[i].active
  BY TypeParts DEF IInv, OtherTypes, Acl, Active
<1>7. i = ev.slot
  <2>1. i # ev.slot => sl[i] = slots[i]
    BY <1>6 DEF SlotTable
  <2>2. QED
    BY <1>5, <1>6, <2>1 DEF Acl, Active
<1>8. sched.timer = "serve_close"
  BY <1>6, <1>7 DEF ServeClose, TimerFires, TunedInv
<1>9. ev.heard = "nothing"
  <2>1. SUFFICES ASSUME ev.heard # "nothing"
                 PROVE  FALSE
    OBVIOUS
  <2>2. s = [slots[i] EXCEPT !.miss = 0]
    BY <1>6, <1>7, <2>1 DEF Accounted
  <2>3. s.kind = "acl" /\ s.active /\ s \in SlotRecord
    BY <1>6, <2>2 DEF SlotTable, SlotRecord
  <2>4. \E n : t = [s EXCEPT !.due = n]
    BY <2>3 DEF Advanced
  <2>5. t.kind = "acl" /\ t.active
    BY <2>3, <2>4 DEF SlotRecord
  <2>6. sl[i] = t
    BY <1>6, <1>7 DEF SlotTable
  <2>7. QED
    BY <1>5, <1>6, <2>5, <2>6 DEF Acl, Active
<1>10. QED
  BY <1>7, <1>8, <1>9

\* The table after a step that leaves the connections alone.
LEMMA PlainStepsKeepAcl ==
  ASSUME IInv,
         \/ ServeAuxClose \/ ScanRotate \/ ScanExtAdv \/ PollPast \/ ServedPeriodicPacket
         \/ AuxExtAdv
  PROVE  Acl(slots) \subseteq Acl(slots')
<1>1. slots \in SlotTable
  BY TypeParts DEF IInv
<1>2. ASSUME slots' = Normalise(slots)
      PROVE  Acl(slots) \subseteq Acl(slots')
  BY <1>1, <1>2, NormaliseIsQuiet
<1>3. CASE ServeAuxClose \/ ScanRotate
  BY <1>2, <1>3 DEF ServeAuxClose, ScanRotate, ArmNext, ArmNextFrom
<1>4. CASE ScanExtAdv
  BY <1>2, <1>4 DEF ScanExtAdv, ArmNext, ArmNextFrom
<1>5. CASE PollPast \/ AuxExtAdv
  BY <1>1, <1>5, StreamBuildsKeepsAcl DEF PollPast, AuxExtAdv
<1>6. CASE ServedPeriodicPacket
  <2>1. CASE UNCHANGED slots
    BY <2>1
  <2>2. ASSUME NEW sl \in StreamBuilds(slots, "iso"), slots' \in StreamBuilds(sl, "iso")
        PROVE  Acl(slots) \subseteq Acl(slots')
    <3>1. sl \in SlotTable
      BY <1>1, StreamBuildsIsQuiet DEF Quiet, Keeps
    <3>2. QED
      BY <1>1, <2>2, <3>1, StreamBuildsKeepsAcl
  <2>3. QED
    BY <1>6, <2>1, <2>2 DEF ServedPeriodicPacket
<1>7. QED
  BY <1>3, <1>4, <1>5, <1>6

\* A new connection request preempts only when it is the target's own.
LEMMA ConnectKeepsHeard ==
  ASSUME IInv, ScanConnect \/ AuxConnect \/ ScanDataPacket, NEW i \in Acl(slots), i \notin Acl(slots')
  PROVE  isr.stage = "packet" /\ isr.pkt.type = "connect" /\ isr.pkt.mine
<1>1. sched.timer \in Timers /\ "off" \in Timers /\ slots \in SlotTable
  BY TypeParts DEF IInv, RadioTypes, Sched, Timers
<1>2. isr.stage = "packet"
  BY DEF ScanConnect, AuxConnect, ScanDataPacket, InMode
<1>3. Preempted(FALSE) = slots
  BY DEF Preempted
<1>4. CASE ScanDataPacket
  <2>1. ASSUME NEW l \in Links, Follow(l, FALSE, sched.timer)
        PROVE  Acl(slots) \subseteq Acl(slots')
    BY <1>1, <1>3, <2>1, FollowRearms
  <2>2. QED
    BY <1>4, <2>1 DEF ScanDataPacket
<1>5. CASE ScanConnect \/ AuxConnect
  <2>1. isr.pkt.type = "connect" /\ isr.pkt.link \in Links
        /\ isr.pkt.mine = (isr.pkt.link \in TargetLinks)
    BY <1>5 DEF ScanConnect, AuxConnect, InMode, IInv, PacketInv
  <2>2. SUFFICES ASSUME ~isr.pkt.mine
                 PROVE  FALSE
    BY <1>2, <2>1
  <2>3. Preempted(isr.pkt.mine) = slots
    BY <2>2 DEF Preempted
  <2>4. ASSUME NEW tm \in Timers, Follow(isr.pkt.link, isr.pkt.mine, tm)
        PROVE  FALSE
    BY <2>1, <2>3, <2>4, FollowRearms
  <2>5. ASSUME NEW sl, Refuse(isr.pkt.link, isr.pkt.mine, sl)
        PROVE  sl = slots
    BY <2>3, <2>5 DEF Refuse
  <2>6. CASE ScanConnect
    BY <1>1, <2>4, <2>5, <2>6 DEF ScanConnect
  <2>7. CASE AuxConnect
    <3>1. PICK sl : /\ Refuse(isr.pkt.link, isr.pkt.mine, sl)
                    /\ ArmNext(sl, aux, radio, "off") \/ slots' = sl
      BY <1>1, <2>4, <2>7 DEF AuxConnect
    <3>2. slots' = Normalise(slots) \/ slots' = slots
      BY <2>5, <3>1 DEF ArmNext, ArmNextFrom
    <3>3. QED
      BY <1>1, <3>2, NormaliseIsQuiet
  <2>8. QED
    BY <1>5, <2>6, <2>7
<1>6. QED
  BY <1>4, <1>5

LEMMA HeardStep ==
  ASSUME IInv, TunedInv, [Next]_vars, NEW i \in Acl(slots), slots[i].miss = 0, i \notin Acl(slots')
  PROVE  \/ isr.stage = "hint" /\ mail.hint # None /\ mail.hint.ctrl = "terminate"
         \/ isr.stage = "packet" /\ isr.pkt.type = "data" /\ i = ev.slot
         \/ isr.stage = "packet" /\ isr.pkt.type = "connect" /\ isr.pkt.mine
         \/ sched.timer = "serve_close" /\ i = ev.slot /\ ev.heard = "nothing"
<1>1. slots \in SlotTable /\ ev.slot \in Slot
  BY TypeParts DEF IInv, OtherTypes
<1>2. CASE ServeClose
  BY <1>2, ServeCloseKeepsHeard
<1>3. CASE InjectRefused \/ InjectTaken \/ ScanTargetAdv
  <2>1. i \in Acl(Unstale)
    BY UnstaleKeepsHeard
  <2>2. CASE InjectRefused
    BY <2>1, <2>2 DEF InjectRefused
  <2>3. CASE InjectTaken
    <3>1. mail.inject \in Links \ Followed(Unstale) /\ sched.timer \in Timers
      BY <2>3, TypeParts, UnstaleIsQuiet DEF InjectTaken, IInv, OtherTypes, RadioTypes, Sched
    <3>2. Acl(Unstale) \subseteq Acl(slots')
      BY <2>3, <3>1, UnstaleIsQuiet, BuildRearms DEF InjectTaken
    <3>3. QED
      BY <2>1, <3>2
  <2>4. CASE ScanTargetAdv
    <3>1. slots' = Normalise(Unstale) \/ slots' = slots
      BY <2>4 DEF ScanTargetAdv, ArmNext, ArmNextFrom
    <3>2. QED
      BY <2>1, <3>1, UnstaleIsQuiet, NormaliseIsQuiet DEF Quiet, Keeps
  <2>5. QED
    BY <1>3, <2>2, <2>3, <2>4
<1>4. CASE PollHint
  <2> DEFINE owner == {j \in Acl(slots) : mail.hint # None /\ slots[j].aa = mail.hint.link}
             o == CHOOSE j \in owner : TRUE
  <2>1. owner # {} /\ slots' \in CtrlOutcomes(slots, o, mail.hint.ctrl)
    BY <1>4 DEF PollHint
  <2>2. o \in owner
    BY <2>1
  <2>3. o \in Slot /\ mail.hint # None
    BY <2>2 DEF Acl, Active
  <2>4. isr.stage = "hint"
    BY <1>4 DEF PollHint
  <2> HIDE DEF owner, o
  <2>5. mail.hint.ctrl = "terminate"
    BY <1>1, <2>1, <2>3, CtrlKeepsAcl
  <2>6. QED
    BY <2>3, <2>4, <2>5
<1>5. CASE ServedAclPacket
  <2>1. isr.stage = "packet" /\ isr.pkt.type = "data"
    BY <1>5 DEF ServedAclPacket, InMode, TunedInv, IInv, PacketInv
  <2>2. PICK central \in BOOLEAN, ctrl \in Ctrl \cup {"other"} :
          slots' \in CtrlOutcomes(HeardFrom(central), ev.slot, ctrl) \/ slots' = slots
    BY <1>5 DEF ServedAclPacket
  <2>3. HeardFrom(central) \in SlotTable
    BY HeardFromIsQuiet DEF Quiet, Keeps
  <2>4. i \in Acl(HeardFrom(central))
    <3> DEFINE s == IF central THEN [slots[ev.slot] EXCEPT !.central = TRUE]
                    ELSE [slots[ev.slot] EXCEPT !.peripheral = TRUE]
    <3>1. HeardFrom(central) = [slots EXCEPT ![ev.slot] = s]
      BY DEF HeardFrom
    <3>2. s.active = slots[ev.slot].active /\ s.kind = slots[ev.slot].kind
      BY <1>1 DEF SlotTable, SlotRecord
    <3> HIDE DEF s
    <3>3. QED
      BY <1>1, <3>1, <3>2 DEF Acl, Active, SlotTable
  <2>5. i = ev.slot
    BY <1>1, <2>2, <2>3, <2>4, CtrlKeepsAcl
  <2>6. QED
    BY <2>1, <2>5
<1>6. CASE ScanConnect \/ AuxConnect \/ ScanDataPacket
  BY <1>6, ConnectKeepsHeard
<1>7. slots' # slots
  OBVIOUS
<1>8. ~(ServeOpen \/ ServeAuxOpen \/ DispatchNone \/ PollMailboxes \/ Receive \/ LinkDies \/ HostStep)
  BY <1>7 DEF ServeOpen, ServeAuxOpen, DispatchNone, PollMailboxes, Receive, ReceiveConnect,
     ReceiveAdvertising, ReceiveData, LinkDies, HostStep, HostConfigures, HostSetChannel, HostRetune,
     HostFollow, HostHint
<1>9. ~(InjectIgnored \/ TargetFilter \/ ServedIsoPacket \/ AuxOther \/ UNCHANGED vars)
  BY <1>7 DEF InjectIgnored, TargetFilter, ServedIsoPacket, AuxOther, vars
<1>10. QED
  BY <1>2, <1>3, <1>4, <1>5, <1>6, <1>8, <1>9, PlainStepsKeepAcl
     DEF Next, TimerInterrupt, IsrStep, PacketHandled

\* A connection that is still heard is never the victim of a stale-slot preemption, of
\* another link's request or of a full table: it is given up only for the four reasons
\* the property names.
THEOREM HeardIsKept == Spec => HeardLinkIsKept
<1>1. IInv /\ TunedInv /\ [Next]_vars =>
        [\A i \in Acl(slots) :
           slots[i].miss = 0 /\ i \notin Acl(slots')
             => \/ isr.stage = "hint" /\ mail.hint # None /\ mail.hint.ctrl = "terminate"
                \/ isr.stage = "packet" /\ isr.pkt.type = "data" /\ i = ev.slot
                \/ isr.stage = "packet" /\ isr.pkt.type = "connect" /\ isr.pkt.mine
                \/ sched.timer = "serve_close" /\ i = ev.slot /\ ev.heard = "nothing"]_vars
  BY HeardStep
<1>2. QED
  BY <1>1, InvariantHolds, RadioFollowsMode, PTL DEF Spec, HeardLinkIsKept
=============================================================================
