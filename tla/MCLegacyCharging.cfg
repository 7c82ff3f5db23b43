SPECIFICATION Spec
CONSTANTS
    Threads = {gy, cap}
    GyConns = {gy}
    CapAssocs = {cap}
    SessionIds = {i1}
    Buckets = {s1}
    NoSupi = NoSupi
    MaxRefs = 2
    Memos = {0, 1, 2}
    Ratings <- MCRatings
    UsedReports <- MCUsedReports
    UsageCounts = {1}
    TopUpAmounts = {4}
    CareAmounts = {3}
    MaxRequests = 4
    MaxFaults = 1
    MaxBssOps = 1
INVARIANTS
    SettledOnce
    NeverOvercharged
    RefundNeverRefused
    GrantsBacked
    DialoguesDisjoint
PROPERTIES
    RefinesSession
    EndedIsSettled
