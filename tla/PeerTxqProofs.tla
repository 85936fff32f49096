---------------------------- MODULE PeerTxqProofs ----------------------------
(***************************************************************************)
(* Theorems of PeerTxq, for every depth of the ring, every set of messages *)
(* and every width of the drop counter.                                    *)
(*                                                                         *)
(* The invariant needed beyond the types says what the thread's local copy *)
(* holds at each point of a pop: until the index is released, no push has  *)
(* touched the slot being read.                                            *)
(***************************************************************************)
EXTENDS PeerTxq, TLAPS, SequenceTheorems

Msgs == [len : Lens, data : Datas, tick : Ticks]

CopyIsWhole ==
  /\ pc \in {"len", "data", "tick", "release"} => head # tail
  /\ pc \in {"data", "tick", "release"} => msg.len = len[head]
  /\ pc \in {"tick", "release"} => msg.data = buf[head]
  /\ pc = "release" => msg.tick = tick[head]

Inv == TypeOK /\ NoLostWakeup /\ CopyIsWhole

-----------------------------------------------------------------------------
(* Arithmetic of the ring. *)

LEMMA NextIdxValue ==
  ASSUME NEW i \in Slot
  PROVE  /\ NextIdx(i) = IF i = Depth THEN 0 ELSE i + 1
         /\ NextIdx(i) \in Slot
BY QueueAssumption DEF NextIdx, Slot, Slots

LEMMA DroppedBounded ==
  ASSUME NEW d \in 0 .. CounterMod - 1
  PROVE  (d + 1) % CounterMod \in 0 .. CounterMod - 1
BY QueueAssumption

-----------------------------------------------------------------------------
(* The inductive invariant. *)

LEMMA InitInv == Init => Inv
<1> SUFFICES ASSUME Init PROVE Inv
  OBVIOUS
<1>1. 0 \in Slot
  BY QueueAssumption DEF Slot, Slots
<1>2. Blank.len \in Lens /\ Blank.data \in Datas /\ Blank.tick \in Ticks
  BY QueueAssumption
<1>3. head \in Slot /\ tail \in Slot /\ dropped \in 0 .. CounterMod - 1
  BY <1>1, QueueAssumption DEF Init
<1>4. len \in [Slot -> Lens] /\ buf \in [Slot -> Datas] /\ tick \in [Slot -> Ticks]
  BY <1>2 DEF Init
<1>5. TypeOK
  BY <1>3, <1>4, QueueAssumption DEF Init, TypeOK
<1>6. QED
  BY <1>5 DEF Init, Inv, NoLostWakeup, CopyIsWhole

LEMMA NextInv == Inv /\ [Next]_vars => Inv'
<1> SUFFICES ASSUME Inv, [Next]_vars PROVE Inv'
  OBVIOUS
<1> USE DEF Inv
<1>1. ASSUME NEW m \in Message, Push(m) PROVE Inv'
  <2>1. m \in Msgs /\ m.len \in Lens /\ m.data \in Datas /\ m.tick \in Ticks
    BY QueueAssumption DEF Msgs
  <2>2. TypeOK'
    BY <1>1, <2>1, NextIdxValue DEF Push, TypeOK
  <2>3. NoLostWakeup'
    BY <1>1 DEF Push, NoLostWakeup
  <2>4. CopyIsWhole'
    BY <1>1 DEF Push, CopyIsWhole, TypeOK
  <2>5. QED
    BY <2>2, <2>3, <2>4
<1>2. CASE PushFull
  BY <1>2, DroppedBounded DEF PushFull, TypeOK, NoLostWakeup, CopyIsWhole
<1>3. CASE StartWork
  BY <1>3 DEF StartWork, At, ring, TypeOK, NoLostWakeup, CopyIsWhole
<1>4. CASE PopEmpty
  BY <1>4 DEF PopEmpty, At, ring, TypeOK, NoLostWakeup, CopyIsWhole
<1>5. CASE PopBegin
  BY <1>5 DEF PopBegin, At, ring, TypeOK, NoLostWakeup, CopyIsWhole
<1>6. CASE ReadLen
  BY <1>6 DEF ReadLen, At, ring, TypeOK, NoLostWakeup, CopyIsWhole
<1>7. CASE ReadData
  BY <1>7 DEF ReadData, At, ring, TypeOK, NoLostWakeup, CopyIsWhole
<1>8. CASE ReadTick
  BY <1>8 DEF ReadTick, At, ring, TypeOK, NoLostWakeup, CopyIsWhole
<1>9. CASE PopRelease
  BY <1>9, NextIdxValue DEF PopRelease, At, TypeOK, NoLostWakeup, CopyIsWhole
<1>10. CASE Broadcast
  BY <1>10 DEF Broadcast, At, ring, TypeOK, NoLostWakeup, CopyIsWhole
<1>11. CASE UNCHANGED vars
  BY <1>11 DEF vars, TypeOK, NoLostWakeup, CopyIsWhole
<1>12. QED
  BY <1>1, <1>2, <1>3, <1>4, <1>5, <1>6, <1>7, <1>8, <1>9, <1>10, <1>11 DEF Next, Worker

(* In every state the types hold, a non-empty ring has somebody coming for *)
(* it, and the thread's copy is of the message at the head.                *)
THEOREM QueueInvariant == Spec => []Inv
BY InitInv, NextInv, PTL DEF Spec

(* Every variable of the queue and its two users keeps its type. *)
THEOREM QueueTypeCorrect == Spec => []TypeOK
BY QueueInvariant, PTL DEF Inv

(* No message waits with the work item neither submitted nor running. *)
THEOREM WakeupKept == Spec => []NoLostWakeup
BY QueueInvariant, PTL DEF Inv

-----------------------------------------------------------------------------
(* Refinement: the ring from head to tail is the queue. *)

LEMMA ContentsShape ==
  ASSUME TypeOK
  PROVE  /\ Count \in 0 .. Depth
         /\ Count = 0 <=> head = tail
         /\ Count = Depth <=> NextIdx(tail) = head
         /\ \A k \in 0 .. Depth : Pos(k) \in Slot
         /\ \A i \in Slot : Stored(i) \in Msgs
         /\ Contents \in Seq(Msgs)
         /\ Len(Contents) = Count
<1> USE QueueAssumption DEF Slot, Slots
<1>1. head \in 0 .. Depth /\ tail \in 0 .. Depth
  BY DEF TypeOK
<1>2. Count \in 0 .. Depth /\ (Count = 0 <=> head = tail)
  BY <1>1 DEF Count
<1>3. Count = Depth <=> NextIdx(tail) = head
  BY <1>1, NextIdxValue DEF Count
<1>4. \A k \in 0 .. Depth : Pos(k) \in Slot
  BY <1>1 DEF Pos
<1>5. \A i \in Slot : Stored(i) \in Msgs
  BY DEF TypeOK, Stored, Msgs
<1>6. Contents \in [1 .. Count -> Msgs]
  BY <1>2, <1>4, <1>5 DEF Contents
<1>7. Contents \in Seq(Msgs) /\ Len(Contents) = Count
  BY <1>2, <1>6
<1>8. QED
  BY <1>2, <1>3, <1>4, <1>5, <1>7

LEMMA SameContents ==
  ASSUME UNCHANGED <<head, tail, len, buf, tick>>
  PROVE  Contents' = Contents
BY DEF Contents, Count, Pos, Stored

LEMMA PushAppends ==
  ASSUME Inv, NEW m \in Message, Push(m)
  PROVE  Contents' = Append(Contents, m) /\ Len(Contents) < Depth
<1> USE QueueAssumption DEF Slot, Slots
<1>1. m \in Msgs
  BY DEF Msgs
<1>2. TypeOK /\ TypeOK'
  BY NextInv DEF Inv, Next
<1>3. head \in 0 .. Depth /\ tail \in 0 .. Depth /\ head' = head /\ tail' = NextIdx(tail)
  BY <1>2 DEF TypeOK, Push
<1>4. Count' = Count + 1 /\ Count < Depth /\ Count \in Nat
  <2>1. Count \in 0 .. Depth /\ Count # Depth
    BY <1>2, ContentsShape DEF Push
  <2>2. tail' = IF tail = Depth THEN 0 ELSE tail + 1
    BY <1>3, NextIdxValue
  <2>3. Count' = Count + 1
    BY <1>3, <2>1, <2>2 DEF Count
  <2>4. QED
    BY <2>1, <2>3
<1>5. \A k \in 0 .. Depth : Pos(k)' = Pos(k) /\ (k < Count => Pos(k) # tail)
  BY <1>3 DEF Pos, Count
<1>6. Pos(Count) = tail
  BY <1>3 DEF Pos, Count
<1>7. \A i \in Slot : Stored(i)' = IF i = tail THEN m ELSE Stored(i)
  BY <1>1, <1>2 DEF Push, Stored, TypeOK, Msgs
<1>8. Contents \in Seq(Msgs) /\ Len(Contents) = Count
  BY <1>2, ContentsShape
<1>9. Append(Contents, m) = [k \in 1 .. Count + 1 |-> IF k <= Count THEN Contents[k] ELSE m]
  <2> DEFINE T == [k \in 1 .. Count + 1 |-> IF k <= Count THEN Contents[k] ELSE m]
  <2>1. \A k \in 1 .. Count + 1 : T[k] \in Msgs
    BY <1>1, <1>4, <1>8, ElementOfSeq
  <2>2. T \in Seq(Msgs) /\ Len(T) = Count + 1
    BY <1>4, <2>1
  <2>3. /\ Append(Contents, m) \in Seq(Msgs)
        /\ Len(Append(Contents, m)) = Count + 1
        /\ \A k \in 1 .. Count + 1 : Append(Contents, m)[k] = T[k]
    BY <1>1, <1>4, <1>8, AppendProperties
  <2> HIDE DEF T
  <2>4. Append(Contents, m) = T
    BY <2>2, <2>3, SeqEqual
  <2>5. QED
    BY <2>4 DEF T
<1>10. \A k \in 1 .. Count + 1 : Stored(Pos(k - 1))' = IF k <= Count THEN Contents[k] ELSE m
  <2> TAKE k \in 1 .. Count + 1
  <2>1. k - 1 \in 0 .. Depth
    BY <1>4
  <2>2. Pos(k - 1) \in Slot
    BY <1>2, <2>1, ContentsShape
  <2>3. Stored(Pos(k - 1))' = IF Pos(k - 1) = tail THEN m ELSE Stored(Pos(k - 1))
    BY <1>5, <1>7, <2>1, <2>2 DEF Stored
  <2>4. Pos(k - 1) = tail <=> k = Count + 1
    BY <1>4, <1>5, <1>6, <2>1
  <2>5. k <= Count => Contents[k] = Stored(Pos(k - 1))
    BY <1>4 DEF Contents
  <2>6. QED
    BY <1>4, <2>3, <2>4, <2>5
<1>11. Contents' = [k \in 1 .. Count + 1 |-> Stored(Pos(k - 1))']
  BY <1>4 DEF Contents
<1>12. QED
  BY <1>4, <1>8, <1>9, <1>10, <1>11

LEMMA ReleaseTakes ==
  ASSUME Inv, PopRelease
  PROVE  Contents # <<>> /\ popped' = <<Head(Contents)>> /\ Contents' = Tail(Contents)
<1> USE QueueAssumption DEF Slot, Slots
<1>1. TypeOK /\ head # tail /\ TypeOK'
  BY NextInv DEF Inv, Next, Worker, PopRelease, At, CopyIsWhole
<1>2. head \in 0 .. Depth /\ tail \in 0 .. Depth /\ tail' = tail /\ head' = NextIdx(head)
  BY <1>1 DEF TypeOK, PopRelease
<1>3. Count \in 1 .. Depth /\ Count' = Count - 1
  BY <1>1, <1>2, NextIdxValue DEF Count
<1>4. Contents \in Seq(Msgs) /\ Len(Contents) = Count
  BY <1>1, ContentsShape
<1>5. msg = Stored(head)
  BY <1>1 DEF Inv, CopyIsWhole, PopRelease, At, TypeOK, Stored
<1>6. Contents # <<>> /\ Head(Contents) = Stored(head)
  <2>1. Contents[1] = Stored(Pos(0))
    BY <1>3 DEF Contents
  <2>2. Pos(0) = head
    BY <1>2 DEF Pos
  <2>3. QED
    BY <1>3, <1>4, <2>1, <2>2
<1>7. Tail(Contents) = [k \in 1 .. Count - 1 |-> Contents[k + 1]]
  <2> DEFINE T == [k \in 1 .. Count - 1 |-> Contents[k + 1]]
  <2>1. \A k \in 1 .. Count - 1 : T[k] \in Msgs
    BY <1>3, <1>4, ElementOfSeq
  <2>2. T \in Seq(Msgs) /\ Len(T) = Count - 1
    BY <1>3, <2>1
  <2>3. /\ Tail(Contents) \in Seq(Msgs)
        /\ Len(Tail(Contents)) = Count - 1
        /\ \A k \in 1 .. Count - 1 : Tail(Contents)[k] = T[k]
    BY <1>3, <1>4, <1>6, HeadTailProperties
  <2> HIDE DEF T
  <2>4. Tail(Contents) = T
    BY <2>2, <2>3, SeqEqual
  <2>5. QED
    BY <2>4 DEF T
<1>8. \A k \in 1 .. Count - 1 : Stored(Pos(k - 1))' = Contents[k + 1]
  <2> TAKE k \in 1 .. Count - 1
  <2>1. k + 1 \in 1 .. Count /\ (k + 1) - 1 = k
    BY <1>3
  <2>2. Pos(k - 1)' = Pos(k)
    BY <1>2, <1>3, NextIdxValue DEF Pos
  <2>3. Contents[k + 1] = Stored(Pos(k))
    BY <2>1 DEF Contents
  <2>4. UNCHANGED <<len, buf, tick>>
    BY DEF PopRelease
  <2>5. QED
    BY <2>2, <2>3, <2>4 DEF Stored
<1>9. Contents' = [k \in 1 .. Count - 1 |-> Stored(Pos(k - 1))']
  BY <1>3 DEF Contents
<1>10. QED
  BY <1>5, <1>6, <1>7, <1>8, <1>9 DEF PopRelease

LEMMA InitRefines == Init => Fifo!Init
<1> SUFFICES ASSUME Init PROVE Fifo!Init
  OBVIOUS
<1>1. Contents \in Seq(Msgs) /\ Len(Contents) = 0
  <2>1. TypeOK
    BY InitInv DEF Inv
  <2>2. QED
    BY <2>1, ContentsShape DEF Init
<1>2. Contents = <<>>
  BY <1>1
<1>3. QED
  BY <1>2 DEF Init, Fifo!Init

LEMMA NextRefines == Inv /\ [Next]_vars => [Fifo!Next]_Fifo!vars
<1> SUFFICES ASSUME Inv, [Next]_vars PROVE [Fifo!Next]_Fifo!vars
  OBVIOUS
<1>1. ASSUME NEW m \in Message, Push(m) PROVE Fifo!Next
  BY <1>1, PushAppends DEF Push, Fifo!Next, Fifo!Accept
<1>2. CASE PushFull
  <2>1. TypeOK
    BY DEF Inv
  <2>2. Len(Contents) = Depth
    BY <1>2, <2>1, ContentsShape DEF PushFull
  <2>3. Contents' = Contents
    BY <1>2, SameContents DEF PushFull
  <2>4. QED
    BY <1>2, <2>2, <2>3 DEF PushFull, Fifo!Next, Fifo!Drop
<1>3. CASE PopRelease
  BY <1>3, ReleaseTakes DEF PopRelease, Fifo!Next, Fifo!Take
<1>4. CASE StartWork \/ PopEmpty \/ PopBegin \/ ReadLen \/ ReadData \/ ReadTick \/ Broadcast
           \/ UNCHANGED vars
  <2>1. UNCHANGED <<head, tail, len, buf, tick, dropped, popped>>
    BY <1>4 DEF StartWork, PopEmpty, PopBegin, ReadLen, ReadData, ReadTick, Broadcast,
                ring, vars
  <2>2. QED
    BY <2>1, SameContents DEF Fifo!vars
<1>5. QED
  BY <1>1, <1>2, <1>3, <1>4 DEF Next, Worker

(* The lock-free ring implements the bounded FIFO: an interrupt that pushes *)
(* between any two memory accesses of a pop cannot make a message torn,     *)
(* reordered, repeated or overwritten, and only a full ring refuses one.    *)
THEOREM RingIsAFifo == Spec => ImplementsFifo
BY InitRefines, NextRefines, QueueInvariant, PTL DEF Spec, ImplementsFifo, Fifo!Spec
=============================================================================
