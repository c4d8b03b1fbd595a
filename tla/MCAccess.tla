------------------------------ MODULE MCAccess ------------------------------
(* The instance of Access for TLC. *)
EXTENDS Access, TLC

MCTargets == {<<"template", "ADMIN">>, <<"tenant", "MANAGER">>, <<"store", "MANAGER">>, <<"user", "ann">>}
MCDefaults == [ro \in Roles |-> IF ro = "USER" THEN {} ELSE {USER_MANAGE}]
Symmetric == Permutations(Requests)
=============================================================================
