--------------------------- MODULE MC_HarqManager ---------------------------
(* TLC instance of HarqManager.                                           *)
EXTENDS HarqManager

MCDelays == {1, 2}
MCSnrs == {1, 2}
=============================================================================
