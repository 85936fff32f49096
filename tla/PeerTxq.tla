------------------------------- MODULE PeerTxq -------------------------------
(***************************************************************************)
(* The inter-board transmit queue (peer_txq.c) with its two users in       *)
(* tri_coord.c: the radio interrupt pushes a message and submits a work    *)
(* item; the work-queue thread pops messages until the ring is empty and   *)
(* broadcasts each.                                                        *)
(*                                                                         *)
(* There is no lock.  The interrupt runs to its end before the thread      *)
(* continues, so a push is one step; it may come between any two memory    *)
(* accesses of a pop, which are steps of their own.                        *)
(***************************************************************************)
EXTENDS Integers, Sequences

CONSTANTS
  Lens, Datas, Ticks,   \* what q->len, q->buf and q->ref_tick may hold
  Message,              \* the messages pushed
  Depth,                \* PEER_TXQ_DEPTH
  CounterMod,           \* 2^32, the width of q->dropped
  Blank                 \* a slot after memset

ASSUME QueueAssumption ==
  /\ Message \subseteq [len : Lens, data : Datas, tick : Ticks] /\ Message # {}
  /\ Blank \in [len : Lens, data : Datas, tick : Ticks]
  /\ Depth \in Nat \ {0} /\ CounterMod \in Nat \ {0}

VARIABLES
  head, tail,       \* ring indices: read by both sides, written by one each
  len, buf, tick,   \* the slots' fields
  dropped,          \* messages dropped because the ring was full
  pending,          \* the work item is submitted
  pc,               \* where the work-queue thread is
  msg,              \* the thread's local copy: len, data, tick
  popped            \* the messages returned by peer_txq_pop, the last only

ring == <<head, tail, len, buf, tick, dropped>>
vars == <<head, tail, len, buf, tick, dropped, pending, pc, msg, popped>>

Slots == Depth + 1   \* PEER_TXQ_SLOTS: one slot stays empty
Slot == 0 .. Slots - 1

\* Mutation: the index wraps one too late.
NextIdxLate(i) == (i + 1) % (Slots + 1)

NextIdx(i) == (i + 1) % Slots

-----------------------------------------------------------------------------
(* The radio interrupt. *)

\* Mutations: a full ring is not noticed; the work item is not submitted.
PushOverwrites(m) ==
  /\ len' = [len EXCEPT ![tail] = m.len]
  /\ buf' = [buf EXCEPT ![tail] = m.data]
  /\ tick' = [tick EXCEPT ![tail] = m.tick]
  /\ tail' = NextIdx(tail)
  /\ pending' = TRUE
  /\ UNCHANGED <<head, dropped, pc, msg, popped>>
PushSilently(m) ==
  /\ NextIdx(tail) # head
  /\ len' = [len EXCEPT ![tail] = m.len]
  /\ buf' = [buf EXCEPT ![tail] = m.data]
  /\ tick' = [tick EXCEPT ![tail] = m.tick]
  /\ tail' = NextIdx(tail)
  /\ UNCHANGED <<head, dropped, pending, pc, msg, popped>>

Push(m) ==
  /\ NextIdx(tail) # head
  /\ len' = [len EXCEPT ![tail] = m.len]
  /\ buf' = [buf EXCEPT ![tail] = m.data]
  /\ tick' = [tick EXCEPT ![tail] = m.tick]
  /\ tail' = NextIdx(tail)
  /\ pending' = TRUE      \* k_work_submit: no effect if already submitted
  /\ UNCHANGED <<head, dropped, pc, msg, popped>>

PushFull ==
  /\ NextIdx(tail) = head
  /\ dropped' = (dropped + 1) % CounterMod
  /\ UNCHANGED <<head, tail, len, buf, tick, pending, pc, msg, popped>>

-----------------------------------------------------------------------------
(* The work-queue thread: peer_tx_work_fn and peer_txq_pop. *)

At(here, next) == pc = here /\ pc' = next

\* The work item may be submitted again from here on.
StartWork ==
  /\ pending /\ At("idle", "check")
  /\ pending' = FALSE
  /\ UNCHANGED <<ring, msg, popped>>

PopEmpty ==
  /\ head = tail /\ At("check", "idle")
  /\ UNCHANGED <<ring, pending, msg, popped>>

PopBegin ==
  /\ head # tail /\ At("check", "len")
  /\ UNCHANGED <<ring, pending, msg, popped>>

ReadLen ==
  /\ At("len", "data")
  /\ msg' = [msg EXCEPT !.len = len[head]]
  /\ UNCHANGED <<ring, pending, popped>>

ReadData ==
  /\ At("data", "tick")
  /\ msg' = [msg EXCEPT !.data = buf[head]]
  /\ UNCHANGED <<ring, pending, popped>>

ReadTick ==
  /\ At("tick", "release")
  /\ msg' = [msg EXCEPT !.tick = tick[head]]
  /\ UNCHANGED <<ring, pending, popped>>

PopRelease ==
  /\ At("release", "send")
  /\ head' = NextIdx(head)
  /\ popped' = <<msg>>
  /\ UNCHANGED <<tail, len, buf, tick, dropped, pending, msg>>

\* Mutation: one message for each run of the work item.
BroadcastOnce ==
  /\ At("send", "idle")
  /\ UNCHANGED <<ring, pending, msg, popped>>

\* broadcast_msg: both links, then the next message.
Broadcast ==
  /\ At("send", "check")
  /\ UNCHANGED <<ring, pending, msg, popped>>

-----------------------------------------------------------------------------
Init ==
  /\ head = 0 /\ tail = 0 /\ dropped = 0
  /\ len = [i \in Slot |-> Blank.len]
  /\ buf = [i \in Slot |-> Blank.data]
  /\ tick = [i \in Slot |-> Blank.tick]
  /\ msg = Blank
  /\ pending = FALSE /\ pc = "idle" /\ popped = <<>>

Worker ==
  \/ StartWork \/ PopEmpty \/ PopBegin
  \/ ReadLen \/ ReadData \/ ReadTick \/ PopRelease \/ Broadcast

Next == PushFull \/ Worker \/ \E m \in Message : Push(m)

Spec == Init /\ [][Next]_vars

\* The work queue runs a submitted item, and the item's function to its end.
FairSpec == Spec /\ WF_vars(Worker)

-----------------------------------------------------------------------------
\* Every variable has its type.
TypeOK ==
  /\ head \in Slot /\ tail \in Slot
  /\ len \in [Slot -> Lens] /\ buf \in [Slot -> Datas] /\ tick \in [Slot -> Ticks]
  /\ dropped \in 0 .. CounterMod - 1
  /\ pending \in BOOLEAN
  /\ pc \in {"idle", "check", "len", "data", "tick", "release", "send"}
  /\ msg \in [len : Lens, data : Datas, tick : Ticks]
  /\ popped \in {<<>>} \cup {<<m>> : m \in [len : Lens, data : Datas, tick : Ticks]}

\* A message never waits in the ring without anybody coming for it: the item is
\* submitted, or the thread will look at the ring again before it returns.
NoLostWakeup == head # tail => pending \/ pc # "idle"

\* The ring read as a queue: from head up to tail.
Count == IF head <= tail THEN tail - head ELSE tail - head + Slots
Pos(k) == IF head + k < Slots THEN head + k ELSE head + k - Slots
Stored(i) == [len |-> len[i], data |-> buf[i], tick |-> tick[i]]
Contents == [k \in 1 .. Count |-> Stored(Pos(k - 1))]

Fifo == INSTANCE BoundedFifo WITH queue <- Contents, taken <- popped

\* The ring is a bounded FIFO of Depth messages (peer_txq.h: "head is written only by
\* the consumer, tail only by the producer ... so no lock is needed"): a push between
\* any two accesses of a pop tears, reorders or overwrites nothing, and the one message
\* not accepted is the one that found Depth messages waiting, counted.
ImplementsFifo == Fifo!Spec

\* Every message accepted is taken out in the end, however submissions coalesce.
EveryMessageLeaves == Fifo!Liveness
=============================================================================
