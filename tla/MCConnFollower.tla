--------------------------- MODULE MCConnFollower ---------------------------
(***************************************************************************)
(* Constants of ConnFollower for model checking: two slots, so that the    *)
(* table can be full, and miss limits shrunk to the smallest values that   *)
(* keep their order (relock before give-up before supervision).            *)
(***************************************************************************)
EXTENDS ConnFollower, TLC

CONSTANTS t1, t2, o1, s1

MCInterval == [x \in Links \cup Streams |-> IF x = t1 THEN 1 ELSE 2]
MCMissLimit == [acl |-> 3, periodic |-> 1, iso |-> 1]
=============================================================================
