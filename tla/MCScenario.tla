----------------------------- MODULE MCScenario -----------------------------
(***************************************************************************)
(* Small instances of Scenario for TLC.                                    *)
(***************************************************************************)
EXTENDS Scenario

\* The last scenario is walked through in two steps, the others in one.
Units == [s \in 1..Last |-> IF s = Last THEN 2 ELSE 1]

=============================================================================
