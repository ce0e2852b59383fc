---------------------------- MODULE MCCredentials -----------------------------
(***************************************************************************)
(* Two operators of one project, who create it, rotate its keys, share its *)
(* runs and revoke, as often as the credentials last.                      *)
(***************************************************************************)
EXTENDS Credentials, TLC

Symmetry == Permutations(Op) \cup Permutations(Cred)

=============================================================================
