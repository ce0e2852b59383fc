------------------------------ MODULE MCPlatform ------------------------------
(***************************************************************************)
(* The instance of Platform for TLC: two invocations at a time, over one   *)
(* run of two scenarios and five requests.  The statements name their run  *)
(* or, the reaper, test each row by itself, so runs meet nowhere.  There   *)
(* is no symmetry reduction, since liveness is checked.                    *)
(***************************************************************************)
EXTENDS Platform

=============================================================================
