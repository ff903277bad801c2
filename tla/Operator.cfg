SPECIFICATION Spec
CONSTANTS
    DeployClusterResources = TRUE
    MTQPriorityClass = critical
    NoClass = noClass
    Nodes = {node1, node2}
    Crs = {mtq1, mtq2}
    None = none
    CrClasses = {noClass}
    Orders <- MCOrders
    Faulty <- MCFaulty
    CrashPoints = {3}
    MaxCrs = 2
    MaxDeletes = 1
    MaxTroubles = 1
    Laggards = {"mtqs", "configmaps"}
    Deletable <- MCDeletable
    Editable <- MCEditable
INVARIANTS TypeOK OneActive ClaimIndInv
PROPERTIES InstallCompletes
CHECK_DEADLOCK FALSE
