------------------------------ MODULE MCSelfies ------------------------------
(* The instance of Selfies that TLC checks: two punches, with or without a    *)
(* selfie that may be too large, and a retry or a death of the app.           *)
EXTENDS Selfies

MCPunches == 1..2
=============================================================================
