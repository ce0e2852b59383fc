------------------------------- MODULE MCRunPage -------------------------------
(***************************************************************************)
(* A scenario of two attempts, the last with two steps and one the first   *)
(* left behind; two requests of them and of the video, and one reader; a   *)
(* link of this run and one of another.                                    *)
(***************************************************************************)
EXTENDS RunPage, TLC

MCStep == {[attempt |-> 0, place |-> 0, body |-> 0], [attempt |-> 1, place |-> 0, body |-> 1],
           [attempt |-> 1, place |-> 1, body |-> 1], [attempt |-> 1, place |-> 0, body |-> 0]}

Symmetry == Permutations(Req)

=============================================================================
