SPECIFICATION Spec
CONSTANTS
    NotRecorded = notRecorded
    Gone = gone
    Resources = {cpu}
    validationSet = {cpu}
    RQs = {q1, q2}
    Migrations = {m1}
    VMMRQs = {v1, v2}
    Workers = {w1, w2}
    Fake = fake
    Ns = ns
    MtqNs = mtq
    HardPods = 2
    UsedPods = 2
    AddPods = 1
    InitialHard <- MCInitialHard
    BaseUsed <- MCBaseUsed
    PodUsage <- MCPodUsage
    InitialMig <- MCPending
    InitialAdd <- MCInitialAdd
    TenantHards <- MCTenantHards
    TenantAdds <- MCTenantAdds
    Node <- MCNode
    ParallelMigrationsPerCluster = 5
    ParallelOutboundMigrationsPerNode = 2
    TenantOps = {"deleteRQ", "createPod", "deleteMigration", "createVmmrq", "deleteVmmrq"}
    Faults = {"status", "statusLost", "lockLost", "unlock", "rqLost", "crash"}
    MaxOps = 2
    MaxFaults = 1
    MaxHard = 6
    MaxRqLag = 0
SYMMETRY MCSymmetry
INVARIANTS LoanIndInv
PROPERTIES QuotaWritesCovered ImplementsLoan
CHECK_DEADLOCK FALSE
