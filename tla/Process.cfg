SPECIFICATION Spec
CONSTANTS
    Replicas = {pod1, pod2}
    threadiness = 2
    Namespaces = {ns1, ns2}
    Keys = {mig1, mig2}
    Assignments <- MCAssignments
    None = none
    LeaseDuration = 2
    RenewDeadline = 1
    MaxTroubles = 2
INVARIANTS TypeOK OneLeader NamespaceExclusive CacheTruthful
PROPERTIES Served
