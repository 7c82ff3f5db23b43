SPECIFICATION Spec
CONSTANTS
    UE = {u1}
    Gnb = {g1, g2}
    ResyncJump = 2
    MaxVectors = 5
    MaxIds = 4
    MaxEvents = 4
SYMMETRY GnbSymmetry
INVARIANTS NoSilentStall EntryFresh ReservationReturned HandoverBacked
CHECK_DEADLOCK FALSE
