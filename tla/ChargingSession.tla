------------------------- MODULE ChargingSession -------------------------
(***************************************************************************)
(* What a charging session promises the subscriber, whichever front end    *)
(* carries it: it is opened and closed once; money is held for it from the *)
(* moment it is opened; after it is closed part of what is held is         *)
(* returned, once; after that part of what was returned is paid, once.     *)
(* (Money may also be held after the session is closed: a request that was *)
(* let in before is not stopped.)                                          *)
(***************************************************************************)
EXTENDS Integers

CONSTANT Sessions

VARIABLES phase, held, freed, paid

svars == <<phase, held, freed, paid>>

Zero == [r \in Sessions |-> 0]

Init ==
    /\ phase = [r \in Sessions |-> "none"]
    /\ held = Zero /\ freed = Zero /\ paid = Zero

Open(r) ==
    /\ phase[r] = "none"
    /\ phase' = [phase EXCEPT ![r] = "open"]
    /\ UNCHANGED <<held, freed, paid>>

Hold(r) ==
    /\ phase[r] # "none"
    /\ held'[r] > held[r]
    /\ held' = [held EXCEPT ![r] = held'[r]]
    /\ UNCHANGED <<phase, freed, paid>>

Close(r) ==
    /\ phase[r] = "open"
    /\ phase' = [phase EXCEPT ![r] = "closed"]
    /\ UNCHANGED <<held, freed, paid>>

Return(r) ==
    /\ phase[r] = "closed"
    /\ freed[r] = 0
    /\ freed'[r] \in 1..held[r]
    /\ freed' = [freed EXCEPT ![r] = freed'[r]]
    /\ UNCHANGED <<phase, held, paid>>

Pay(r) ==
    /\ phase[r] = "closed"
    /\ paid[r] = 0
    /\ paid'[r] \in 1..freed[r]
    /\ paid' = [paid EXCEPT ![r] = paid'[r]]
    /\ UNCHANGED <<phase, held, freed>>

Next == \E r \in Sessions : Open(r) \/ Hold(r) \/ Close(r) \/ Return(r) \/ Pay(r)

Spec == Init /\ [][Next]_svars
===========================================================================
