------------------------- MODULE MC_SliceAllocation -------------------------
(* TLC instance of SliceAllocation.                                        *)
EXTENDS SliceAllocation, TLC
CONSTANTS u1, u2

TwoUes == {u1, u2}
\* The grid is free, has one VRB in use, or is free in two isolated VRBs only.
Fragmented == {{}, {1}, {0, 1, 3, 4}}
Free == {{}}
SomeWeights == {-2, 0, 3}
ExampleWeights == {7, 3}
Symm == Permutations(Ue)
=============================================================================
