------------------------------ MODULE MCSessions ------------------------------
(***************************************************************************)
(* Three calls that share a cache in one environment, and one in another.  *)
(* An admin and an editor clash in a cookie; an admin and a viewer in      *)
(* nothing but the indexedDB of an origin.                                 *)
(***************************************************************************)
EXTENDS Sessions

Roles == [t \in Thread |-> CASE t = "first"  -> <<"admin", "editor">>
                             [] t = "second" -> <<"viewer", "admin">>
                             [] OTHER        -> <<"admin">>]
Envs  == [t \in Thread |-> IF t = "local" THEN "local" ELSE "stage"]
Keys  == [r \in Role |-> CASE r = "admin"  -> {"cookie", "indexedDB"}
                           [] r = "editor" -> {"cookie", "item"}
                           [] r = "viewer" -> {"item", "indexedDB"}]

=============================================================================
