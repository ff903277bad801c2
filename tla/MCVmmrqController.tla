------------------------- MODULE MCVmmrqController -------------------------
(***************************************************************************)
(* Small instances of the controller for TLC.  The quota allows what the   *)
(* running pods use, so no target pod fits, and the VMMRQ lends one pod.   *)
(***************************************************************************)
EXTENDS VmmrqLoan, TLC

CONSTANTS HardPods, UsedPods, AddPods

Amount(n) == [x \in Resources |-> n]

MCPending == [m \in Migrations |-> "pending"]
MCRejected == [m \in Migrations |-> "rejected"]
MCInitialHard == [r \in RQs |-> Amount(HardPods)]
MCBaseUsed == Amount(UsedPods)
MCPodUsage == Amount(1)
MCInitialAdd == Amount(AddPods)
MCTenantHards == {Amount(HardPods - 1), Amount(HardPods)}
MCTenantAdds == {Amount(AddPods), Amount(AddPods + 1)}
MCNode == [m \in Migrations |-> "node"]

\* Workers are interchangeable, and so are migrations: all share one node.
MCSymmetry == Permutations(Workers) \cup Permutations(Migrations)
=============================================================================
