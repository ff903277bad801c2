----------------------------- MODULE MCOperator -----------------------------
(* Instances of Operator for TLC. *)
EXTENDS Operator

MCOrders == {CHOOSE all \in GetAllResources : TRUE}
MCFaulty == {<<"roles", ControllerName>>}
MCEditable == {<<"deployments", LockName>>}
MCDeletable == {<<"rolebindings", ControllerName>>}
MCSecret == {Target}
=============================================================================
