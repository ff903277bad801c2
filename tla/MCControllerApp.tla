--------------------------- MODULE MCControllerApp ---------------------------
(* An instance of ControllerApp for TLC: the migrations are in one namespace  *)
(* or in two.                                                                 *)
EXTENDS ControllerApp

MCAssignments ==
    LET n == CHOOSE x \in Namespaces : TRUE
        k == CHOOSE x \in Keys : TRUE
    IN  {[x \in Keys |-> n],
         [x \in Keys |-> IF x = k THEN n ELSE CHOOSE y \in Namespaces : y # n]}
=============================================================================
