SPECIFICATION Spec
CONSTANTS
    NotRecorded = notRecorded
    Gone = gone
    Resources = {cpu}
    validationSet = {cpu}
    RQs = {q1}
    Migrations = {m1}
    VMMRQs = {v1, v2}
    Workers = {w1, w2}
    Fake = fake
    Ns = ns
    MtqNs = mtq
    HardPods = 2
    UsedPods = 2
    AddPods = 1
    InitialHard <- MCInitialHard
    BaseUsed <- MCBaseUsed
    PodUsage <- MCPodUsage
    InitialMig <- MCPending
    InitialAdd <- MCInitialAdd
    TenantHards <- MCTenantHards
    TenantAdds <- MCTenantAdds
    Node <- MCNode
    ParallelMigrationsPerCluster = 5
    ParallelOutboundMigrationsPerNode = 2
    TenantOps = {"updateRQ", "deleteRQ", "deleteMigration", "editVmmrq", "createVmmrq", "deleteVmmrq"}
    Faults = {"status", "statusLost", "lockLost", "unlock", "rq", "crash"}
    MaxOps = 1
    MaxFaults = 1
    MaxHard = 4
    MaxRqLag = 1
SYMMETRY MCSymmetry
INVARIANTS LedgerUnderLock IndInv
PROPERTIES QuotaWritesCovered
CHECK_DEADLOCK FALSE
