----------------------------- MODULE MC_PdcpRx -----------------------------
(* TLC instance of PdcpRx.                                                 *)
EXTENDS PdcpRx
=============================================================================
