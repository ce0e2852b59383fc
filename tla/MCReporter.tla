------------------------------ MODULE MCReporter ------------------------------
(***************************************************************************)
(* The instance of Reporter for TLC: one run start, which two calls race.  *)
(* There is no symmetry reduction, since the run checks liveness.          *)
(***************************************************************************)
EXTENDS Reporter

=============================================================================
