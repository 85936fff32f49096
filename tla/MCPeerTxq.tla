------------------------------ MODULE MCPeerTxq ------------------------------
(***************************************************************************)
(* Constants of PeerTxq for model checking: messages that differ in every  *)
(* field, so that a message put together from two is not a message.        *)
(***************************************************************************)
EXTENDS PeerTxq

MCFields == 0 .. 2
MCMessage == {[len |-> i, data |-> i, tick |-> i] : i \in 1 .. 2}
MCBlank == [len |-> 0, data |-> 0, tick |-> 0]
=============================================================================
