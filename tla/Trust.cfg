SPECIFICATION Spec
CONSTANTS
    Unset = unset
    CertConfigs <- MCCertConfigs
    InitialCerts <- MCCerts
    CAs = {c1, c2, c3, c4, c5, c6}
    MaxTime = 13
    MaxTroubles = 1
    TroubleTimes = {0, 5, 11, 12}
    MaxStaleSyncs = 1
    KvNamespaces = {kv}
    MaxLockAge = 1
    Ns = ns
    MtqNs = mtq
INVARIANTS TypeOK YoungLockTrusted TrustIndInv
PROPERTIES LockUsableAgain CertConfigApplied
CHECK_DEADLOCK FALSE
