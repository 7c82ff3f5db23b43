SPECIFICATION Spec
CONSTANTS
    Sessions = {s1}
    MaxSeq = 4
    Retention = 1
    MaxClock = 4
    MaxFaults = 1
INVARIANTS
    TypeOK
    SweepInv
PROPERTIES
    DeletedIsArchived
    AlarmExact
    ExpiredIsSwept
