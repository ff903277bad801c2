SPECIFICATION Spec
CONSTANTS
    DeployClusterResources = TRUE
    MTQPriorityClass = critical
    NoClass = noClass
    Nodes = {node1, node2}
    Crs = {mtq1, mtq2}
    None = none
    CrClasses = {noClass}
    Orders <- MCOrders
    Faulty = {}
    CrashPoints = {}
    MaxCrs = 2
    MaxDeletes = 1
    MaxTroubles = 1
    Laggards = {}
    Deletable <- MCSecret
    Editable = {}
PROPERTIES Reinstalled
CHECK_DEADLOCK FALSE
