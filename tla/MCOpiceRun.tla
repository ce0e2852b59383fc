------------------------------ MODULE MCOpiceRun ------------------------------
(***************************************************************************)
(* Small instances of OpiceRun for TLC.                                    *)
(***************************************************************************)
EXTENDS OpiceRun, TLC

Symmetry == Permutations(Cli) \cup Permutations(Pid) \cup Permutations(Run)

=============================================================================
