----------------------------- MODULE MC_Control -----------------------------
(* TLC instance of EdgericControl.                                         *)
EXTENDS EdgericControl, TLC
CONSTANTS r1, r2

WeightsApp == {"weights"}
TwoUes == {r1, r2}
\* In operation, and the offset of the staleness test.
SomeOffsets == {0, -3}
Symm == Permutations({r1, r2})
=============================================================================
