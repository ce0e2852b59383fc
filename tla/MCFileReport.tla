----------------------------- MODULE MCFileReport -----------------------------
(***************************************************************************)
(* Small instances of FileReport for TLC.                                  *)
(***************************************************************************)
EXTENDS FileReport, TLC

\* Slots of writes are told apart by nothing but their names.
Symmetry == Permutations(Write)

Zero == [p \in Proc |-> 0]
One  == [p \in Proc |-> 1]

\* The first process walks through its scenario, the others skip theirs.
OthersSkip == (Proc \ {1}) \X {1}

\* Steps, and retries, of the first process.
FirstOne == [p \in Proc |-> IF p = 1 THEN 1 ELSE 0]
FirstTwo == [p \in Proc |-> IF p = 1 THEN 2 ELSE 0]

=============================================================================
