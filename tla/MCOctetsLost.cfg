SPECIFICATION Spec
CONSTANTS
    MaxSessions = 1
    Grants <- OneGrant
    Packets <- OneOctet
    MaxTeids = 2
    MapEntries = 2
    RingSize = 1
    MaxOctets = 3
    MaxAttempts = 2
    MaxInputs = 2
    SeqSpace = 16777216
    FirstCalls = {1}
PROPERTY OctetsPreserved
