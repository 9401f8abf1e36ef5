--------------------------- MODULE MC_InterSlice ---------------------------
(* TLC instances of InterSlice.                                            *)
EXTENDS InterSlice, TLC
CONSTANTS s1, s2

Rbs(d, n, m) == [ded |-> d, min |-> n, max |-> m]
\* With and without a minimum; the dedicated RBs may fill the cell.
SomeLimits == s1 :> {Rbs(0, 0, 2), Rbs(1, 2, 3)} @@ s2 :> {Rbs(2, 2, 3)}
\* Equal priorities allow every order that distinct ones allow.
SamePrio == s1 :> 1 @@ s2 :> 1
\* UL heavy: one PDCCH slot serves two PUSCH slots.
UlHeavy == 0 :> {1, 2} @@ 1 :> {} @@ 2 :> {}
=============================================================================
