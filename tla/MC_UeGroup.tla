----------------------------- MODULE MC_UeGroup -----------------------------
(* TLC instance of UeGroup.                                                *)
EXTENDS UeGroup
=============================================================================
