----------------------------- MODULE MCLinkEvents -----------------------------
(* Constants of the runs of LinkEvents: four bits of counter, five channels; *)
(* times are the code's, in microseconds.                                    *)
EXTENDS LinkEvents

MCMaps == { {0, 1, 2, 3, 4}, {1, 3} }
MCStarts == {0, W - 2}
MCPreamble == [phy \in Phys |-> CASE phy = "2M" -> 24 [] phy = "1M" -> 40 [] OTHER -> 376]
MCConnIntervals == {10000, 3200000}
MCIntervals == MCConnIntervals \cup {1200}
=============================================================================
