---------------------------- MODULE MCTargetFilter ----------------------------
EXTENDS TargetFilter, TLC

CONSTANTS a1, a2, o1, s1, k1, k2

\* The target device and one other.
MCKey == (a1 :> k1) @@ (a2 :> k1) @@ (o1 :> k2)
MCOwn == <<a1, a2>>
=============================================================================
