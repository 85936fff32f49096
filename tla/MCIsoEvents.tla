------------------------------ MODULE MCIsoEvents ------------------------------
(* Constants of the runs of IsoEvents: four bits of counter, five channels. *)
EXTENDS IsoEvents

MCChanIds == <<6, 11>>
MCMap == {0, 2, 3, 4}
\* One stream after the other, and interleaved.
MCLayouts == { [sub |-> 3, spacing |-> 6], [sub |-> 7, spacing |-> 3] }
MCStarts == {W - 2}
=============================================================================
