------------------------ MODULE ConvergedCharging ------------------------
(***************************************************************************)
(* Nchf_ConvergedCharging, the CHF's SBI front end: Create, Update and     *)
(* Release of a charging data resource, each handled on any of the threads *)
(* of run_multi_threaded, concurrently with every other request, also for  *)
(* the same resource.  (The SMF sends Updates from detached threads, so an *)
(* Update and the Release of one resource do meet.)                        *)
(***************************************************************************)
EXTENDS ChargingEngine

VARIABLE
    known         \* resources whose Create was answered: what consumers address

vars == <<engineVars, known>>

Init == EngineInit /\ known = {}

---------------------------------------------------------------------------
(* POST /chargingdata                                                       *)
Create(t) ==
    /\ \E s \in Supis, n \in UsageCounts :
          create(s) /\ Receive(t, Charging(nextId + 1, s, n))
    /\ UNCHANGED known

(* POST /chargingdata/{ref}/update: 404 unless the resource is active when  *)
(* the request comes in; it is not looked at again.                         *)
Update(t) ==
    /\ \E r \in known, n \in UsageCounts :
          Receive(t, IF r \in active
                     THEN Charging(r, content[r].supi, n) ELSE Idle)
    /\ UNCHANGED <<storeVars, known>>

(* POST /chargingdata/{ref}/release                                         *)
Release(t) ==
    /\ \E r \in known, u \in UsedReports : Receive(t, Settling(r, u))
    /\ UNCHANGED <<storeVars, known>>

(* Create's and Update's answer.                                            *)
Answer(t) ==
    /\ Authorize(t)
    /\ known' = known \cup {job[t].ref}
    /\ UNCHANGED <<balanceVars, storeVars, cdr, envVars>>

(* Release proportions the debit over all three dimensions.                 *)
ReadGranted(t) ==
    /\ get_granted(t, content[job[t].ref].granted)
    /\ UNCHANGED known

(* Mutant: the result of the SREM is not looked at.                         *)
release_Unchecked(t) ==
    /\ At(t, "release")
    /\ active' = active \ {job[t].ref}
    /\ Goto(t, FirstSettlingCall(t))
    /\ UNCHANGED <<balanceVars, nextId, content, cdr, authorized, envVars, known>>

(* ChargingDataStore::release, an SREM: the one Release that finds the      *)
(* resource in the active set settles it, any other is answered 404.        *)
release(t) ==
    /\ At(t, "release")
    /\ \/ /\ job[t].ref \in active
          /\ active' = active \ {job[t].ref}
          /\ Goto(t, FirstSettlingCall(t))
       \/ /\ job[t].ref \notin active
          /\ job' = [job EXCEPT ![t] = Idle]
          /\ UNCHANGED active
    /\ UNCHANGED <<balanceVars, nextId, content, cdr, authorized, envVars, known>>

WriteReleaseCdr(t) == write_release_cdr(t) /\ UNCHANGED known

Restart == Crash /\ UNCHANGED known

Environment == (\E s \in Buckets : TopUp(s) \/ CareDebit(s)) /\ UNCHANGED known

Engine(t) == (ChargeStep(t) \/ SettleStep(t)) /\ UNCHANGED known

(* Every handler has returned and the bounds allow no further request.      *)
Rest == (\A t \in Threads : At(t, "idle")) /\ UNCHANGED vars

Next ==
    \/ \E t \in Threads :
          \/ Create(t) \/ Update(t) \/ Release(t) \/ Answer(t)
          \/ ReadGranted(t) \/ release(t) \/ WriteReleaseCdr(t) \/ Engine(t)
    \/ Restart
    \/ Environment
    \/ Rest

Spec == Init /\ [][Next]_vars

---------------------------------------------------------------------------
(* "Release finalizes exactly this total as a real permanent debit": when   *)
(* all handlers have returned, a closed session holds nothing any more.     *)
NothingStranded ==
    (\A t \in Threads : At(t, "idle")) =>
       \A r \in 1..nextId : r \notin active =>
          memo[r].freed = content[r].reserved
===========================================================================
