------------------------------ MODULE MC_RlcAm ------------------------------
(* TLC instance of RlcAm.                                                  *)
EXTENDS RlcAm
=============================================================================
