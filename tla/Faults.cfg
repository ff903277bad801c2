SPECIFICATION Spec
CONSTANTS
    NotRecorded = notRecorded
    Gone = gone
    Resources = {cpu}
    validationSet = {cpu}
    RQs = {q1}
    Migrations = {m1, m2}
    VMMRQs = {v1}
    Workers = {w1, w2}
    Fake = fake
    Ns = ns
    MtqNs = mtq
    HardPods = 2
    UsedPods = 2
    AddPods = 1
    InitialHard <- MCInitialHard
    BaseUsed <- MCBaseUsed
    PodUsage <- MCPodUsage
    InitialMig <- MCRejected
    InitialAdd <- MCInitialAdd
    TenantHards <- MCTenantHards
    TenantAdds <- MCTenantAdds
    Node <- MCNode
    ParallelMigrationsPerCluster = 5
    ParallelOutboundMigrationsPerNode = 1
    TenantOps = {}
    Faults = {"list", "status", "statusLost", "render", "webhookGet", "lock", "lockLost", "unlock", "rqLost", "crash"}
    MaxOps = 0
    MaxFaults = 1
    MaxHard = 6
    MaxRqLag = 0
SYMMETRY MCSymmetry
INVARIANTS TypeOK QuotaIntact LoanRecorded
CHECK_DEADLOCK FALSE
