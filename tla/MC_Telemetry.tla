---------------------------- MODULE MC_Telemetry ----------------------------
(* TLC instance of EdgericTelemetry.                                       *)
EXTENDS EdgericTelemetry
=============================================================================
