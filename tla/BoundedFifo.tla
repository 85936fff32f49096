----------------------------- MODULE BoundedFifo -----------------------------
(***************************************************************************)
(* What the inter-board transmit queue promises: messages leave whole and  *)
(* in the order they came; when Depth of them wait, a new one is dropped   *)
(* and counted; whatever was accepted leaves in the end.                   *)
(***************************************************************************)
EXTENDS Integers, Sequences

CONSTANTS
  Message,
  Depth,       \* how many messages may wait
  CounterMod   \* the drop counter wraps here

VARIABLES
  queue,     \* accepted and not yet taken, oldest first
  dropped,   \* how many were refused
  taken      \* the messages taken last: none, or a sequence of one

vars == <<queue, dropped, taken>>

Init == queue = <<>> /\ dropped = 0 /\ taken = <<>>

Accept(m) ==
  /\ Len(queue) < Depth
  /\ queue' = Append(queue, m)
  /\ UNCHANGED <<dropped, taken>>

Drop ==
  /\ Len(queue) = Depth
  /\ dropped' = (dropped + 1) % CounterMod
  /\ UNCHANGED <<queue, taken>>

Take ==
  /\ queue # <<>>
  /\ taken' = <<Head(queue)>>
  /\ queue' = Tail(queue)
  /\ UNCHANGED dropped

Next == Drop \/ Take \/ \E m \in Message : Accept(m)

Spec == Init /\ [][Next]_vars

Liveness == WF_vars(Take)
=============================================================================
