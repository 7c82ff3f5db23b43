SPECIFICATION Spec
SYMMETRY Symmetry
CONSTANTS
    Threads = {t1, t2}
    Buckets = {s1}
    NoSupi = NoSupi
    MaxRefs = 2
    Memos = {0, 1, 2}
    Ratings <- MCRatings
    UsedReports <- MCUsedReports
    UsageCounts = {1}
    TopUpAmounts = {4}
    CareAmounts = {3}
    MaxRequests = 4
    MaxFaults = 1
    MaxBssOps = 2
PROPERTIES
    RefinesSession
INVARIANTS
    EngineTypeOK
    NoOverdraft
    Reconciles
    SettledOnce
    NeverOvercharged
    RefundNeverRefused
    GrantsBacked
