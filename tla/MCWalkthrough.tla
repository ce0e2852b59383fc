---------------------------- MODULE MCWalkthrough -----------------------------
(***************************************************************************)
(* Two scenarios of one name, after one whose name is that name and a      *)
(* number; the first is of the legacy form, the second may be retried.     *)
(***************************************************************************)
EXTENDS Walkthrough

Slugs   == <<<<"login">>, <<"login">>>>
Earlier == {<<"login", 2>>}
Steps   == <<1, 2>>
Tries   == <<0, 1>>

=============================================================================
