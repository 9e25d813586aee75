------------------------- MODULE MCScheduledPayments -------------------------
(* Small instances of ScheduledPayments for TLC; a liveness property is among   *)
(* those of the main run, so no symmetry is declared.                           *)
EXTENDS ScheduledPayments, TLC
=============================================================================
