SPECIFICATION Spec
CONSTANTS
    NF = {n1}
    Grain = 2
    TokenTtl = 11
    MaxSubs = 1
    MaxTrouble = 6
INVARIANTS TokenAccepted SubscriberFollows
PROPERTIES SweptOnlyIfSilent CrashedIsSwept RegistersEventually
