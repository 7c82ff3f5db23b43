SPECIFICATION Spec
CONSTANTS
    UE = {u1}
    Gnb = {g1, g2}
    ResyncJump = 2
    MaxVectors = 3
    MaxIds = 3
    MaxEvents = 2
INVARIANT ReachableAfterHandover
CHECK_DEADLOCK FALSE
