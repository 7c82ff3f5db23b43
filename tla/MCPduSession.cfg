SPECIFICATION Spec
CONSTANTS
    MaxSessions = 2
    Grants <- OneGrant
    Packets <- OneOctet
    MaxTeids = 3
    MapEntries = 2
    RingSize = 1
    MaxOctets = 3
    MaxAttempts = 2
    MaxInputs = 3
    SeqSpace = 16777216
    FirstCalls = {1, 16777215}
INVARIANTS TeidPerSession ReportFindsSession UniqueInvocation NoReportStorm
PROPERTIES ReleasedStaysReleased
