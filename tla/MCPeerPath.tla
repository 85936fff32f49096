----------------------------- MODULE MCPeerPath -----------------------------
(***************************************************************************)
(* Constants of PeerPath for model checking: the ring of three boards.     *)
(***************************************************************************)
EXTENDS PeerPath

MCBoards == 0 .. 2
MCDown == [b \in MCBoards |-> (b + 1) % 3]
=============================================================================
