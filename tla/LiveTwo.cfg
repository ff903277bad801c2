SPECIFICATION FairSpec
CONSTANTS
    NotRecorded = notRecorded
    Gone = gone
    Resources = {cpu}
    validationSet = {cpu}
    RQs = {q1}
    Migrations = {m1, m2}
    VMMRQs = {v1}
    Workers = {w1}
    Fake = fake
    Ns = ns
    MtqNs = mtq
    HardPods = 2
    UsedPods = 2
    AddPods = 1
    InitialHard <- MCInitialHard
    BaseUsed <- MCBaseUsed
    PodUsage <- MCPodUsage
    InitialMig <- MCRejected
    InitialAdd <- MCInitialAdd
    TenantHards <- MCTenantHards
    TenantAdds <- MCTenantAdds
    Node <- MCNode
    ParallelMigrationsPerCluster = 5
    ParallelOutboundMigrationsPerNode = 2
    TenantOps = {}
    Faults = {}
    MaxOps = 0
    MaxFaults = 0
    MaxHard = 6
    MaxRqLag = 0
PROPERTIES LockReleased MigrationReleased
CHECK_DEADLOCK FALSE
