-------------------- MODULE ConvergedChargingProofs --------------------
(***************************************************************************)
(* What holds of Nchf_ConvergedCharging for any number of threads,         *)
(* resources, requests, faults and prices: the types, the rules of the     *)
(* balance store it drives, that a session is settled at most once, what   *)
(* it may cost, and that it implements the abstract charging session.      *)
(***************************************************************************)
EXTENDS ConvergedCharging, ChargingEngineProofs

IInv == EngineInv /\ known \subseteq 1..nextId

(* No resource is answered before it was created.                           *)
LEMMA KnownStep == IInv /\ [Next]_vars => known' \subseteq 1..nextId'
<1> SUFFICES ASSUME IInv, [Next]_vars PROVE known' \subseteq 1..nextId'
  OBVIOUS
<1>1. ASSUME UNCHANGED known, nextId' = nextId PROVE known' \subseteq 1..nextId'
  BY <1>1 DEF IInv
<1>2. ASSUME NEW t \in Threads, Create(t) PROVE known' \subseteq 1..nextId'
  <2>1. known' = known /\ nextId' = nextId + 1 /\ nextId \in Nat
    BY <1>2 DEF Create, create, IInv, EngineInv, EngineTypeOK
  <2> QED BY <2>1 DEF IInv
<1>3. ASSUME NEW t \in Threads, Answer(t) PROVE known' \subseteq 1..nextId'
  BY <1>3 DEF Answer, Authorize, storeVars, IInv, EngineInv, JobOK, At
<1>4. ASSUME NEW t \in Threads,
             \/ Update(t) \/ Release(t) \/ ReadGranted(t) \/ release(t)
             \/ WriteReleaseCdr(t)
      PROVE  UNCHANGED known /\ nextId' = nextId
  BY <1>4 DEF Update, Release, ReadGranted, release, WriteReleaseCdr,
     get_granted, write_release_cdr, storeVars
<1>5. ASSUME NEW t \in Threads, Engine(t)
      PROVE  UNCHANGED known /\ nextId' = nextId
  BY <1>5 DEF Engine, ChargeStep, SettleStep, build_rating_grant,
     reserve_subscriber_balance, add_reserved, add_granted,
     write_converged_charging_cdr, unreserve, debit, storeVars
<1>6. ASSUME Restart \/ Environment \/ Rest \/ UNCHANGED vars
      PROVE  UNCHANGED known /\ nextId' = nextId
  BY <1>6 DEF Restart, Crash, Environment, TopUp, CareDebit, Rest, vars,
     engineVars, storeVars
<1> QED BY <1>1, <1>2, <1>3, <1>4, <1>5, <1>6 DEF Next

(* The front end does to the engine only what the lemmas about the engine   *)
(* allow a front end to do.                                                 *)
LEMMA DrivesEngine == IInv /\ [Next]_vars => [EngineNext]_engineVars
<1> SUFFICES ASSUME IInv, [Next]_vars PROVE [EngineNext]_engineVars
  OBVIOUS
<1>1. ASSUME NEW t \in Threads, Create(t) PROVE Creates(t)
  BY <1>1, EngineAssumption DEF Create, Creates
<1>2. ASSUME NEW t \in Threads, Update(t) PROVE Starts(t)
  <2>1. PICK r \in known, n \in UsageCounts :
           Receive(t, IF r \in active
                      THEN Charging(r, content[r].supi, n) ELSE Idle)
    BY <1>2 DEF Update
  <2>2. r \in 1..nextId /\ r \in Refs /\ n \in Nat /\ UNCHANGED storeVars
    BY <1>2, RefFacts, EngineAssumption DEF IInv, Update
  <2>3. content[r].supi \in Supis
    BY <2>2 DEF IInv, EngineInv, EngineTypeOK
  <2>4. Charging(r, content[r].supi, n) \in Job /\ Idle \in Job
    BY <2>2, <2>3, ChargingType, IdleType
  <2> QED BY <2>1, <2>2, <2>4 DEF Starts
<1>3. ASSUME NEW t \in Threads, Release(t) PROVE Starts(t)
  <2>1. PICK r \in known, u \in UsedReports : Receive(t, Settling(r, u))
    BY <1>3 DEF Release
  <2>2. r \in 1..nextId /\ r \in Refs /\ u \in Quantity /\ UNCHANGED storeVars
    BY <1>3, RefFacts, EngineAssumption DEF IInv, Release
  <2>3. Settling(r, u) \in Job
    BY <2>2, SettlingType DEF IInv, EngineInv
  <2> QED BY <2>1, <2>2, <2>3 DEF Starts
<1>4. ASSUME NEW t \in Threads, Answer(t) PROVE Answers(t)
  BY <1>4 DEF Answer, Answers
<1>5. ASSUME NEW t \in Threads, ReadGranted(t) PROVE Proportions(t)
  <2>1. job[t].ref \in Refs
    BY <1>5, HandlerFacts DEF ReadGranted, get_granted, At, IInv
  <2>2. content[job[t].ref].granted \in Quantity
    BY <2>1 DEF IInv, EngineInv, EngineTypeOK
  <2> QED BY <1>5, <2>2 DEF ReadGranted, Proportions
<1>6. ASSUME NEW t \in Threads, release(t) PROVE Leaves(t)
  BY <1>6 DEF release, Leaves
<1>7. ASSUME NEW t \in Threads, WriteReleaseCdr(t) PROVE Ends(t)
  BY <1>7 DEF WriteReleaseCdr, Ends
<1>8. ASSUME NEW t \in Threads, Engine(t) PROVE ChargeStep(t) \/ SettleStep(t)
  BY <1>8 DEF Engine
<1>9. Restart => Crash
  BY DEF Restart
<1>10. Environment => \E s \in Buckets : TopUp(s) \/ CareDebit(s)
  BY DEF Environment
<1>11. Rest \/ UNCHANGED vars => UNCHANGED engineVars
  BY DEF Rest, vars
<1> QED BY <1>1, <1>2, <1>3, <1>4, <1>5, <1>6, <1>7, <1>8, <1>9, <1>10, <1>11
        DEF Next, EngineNext

(* The inductive invariant of the types.                                    *)
LEMMA IInvStep == IInv /\ [Next]_vars => IInv'
BY KnownStep, DrivesEngine, EngineInvStep DEF IInv

LEMMA IInvInit == Init => IInv
BY EngineInitial DEF Init, IInv

(* The stores, the handlers' locals and the CDR sums keep their types       *)
(* whatever requests, faults and restarts come: no counter of a handler     *)
(* goes below zero and no handler names a resource that was not created.    *)
THEOREM TypeCorrect == Spec => []EngineTypeOK
<1>1. IInv => EngineTypeOK
  BY DEF IInv, EngineInv
<1> QED BY <1>1, IInvInit, IInvStep, PTL DEF Spec

(* Every step of the CHF is a step of the balance store or leaves it alone. *)
THEOREM DrivesBalance == Spec => BalanceSpec
<1>1. Init => BalanceInit
  BY DEF Init, EngineInit
<1>2. IInv /\ [Next]_vars => [BalanceNext]_balanceVars
  BY DrivesEngine, BalanceStep DEF IInv
<1> QED BY <1>1, <1>2, IInvInit, IInvStep, PTL DEF Spec, BalanceSpec

(* No sequence of Creates, Updates, Releases, payments and care debits, on  *)
(* any number of threads, with calls lost and the CHF crashing at any step, *)
(* drives a bucket below zero: the conditional UPDATEs of BalanceStore are  *)
(* all it takes.                                                            *)
THEOREM BalanceHolds == Spec => []NoOverdraft
BY DrivesBalance, BalanceSafe, PTL

(* And the bucket rows agree with the action rows at all times, also after  *)
(* a call whose answer was lost.                                            *)
THEOREM BooksAgree == Spec => []Reconciles
BY DrivesBalance, BalanceSafe, PTL

---------------------------------------------------------------------------
(* The whole invariant: that the money adds up rests on each session being  *)
(* settled once.                                                            *)
Inv == IInv /\ SettleInv /\ MoneyInv

LEMMA InvInit == Init => Inv
BY IInvInit, SettleInitial, MoneyInitial DEF Init, Inv

LEMMA InvStep == Inv /\ [Next]_vars => Inv'
BY IInvStep, DrivesEngine, SettleInvStep, MoneyInvStep DEF Inv, IInv

(* However many Releases of a session are sent, repeated and overlap, on    *)
(* however many threads, and wherever the CHF crashes: at most one handler  *)
(* settles it, nothing is returned or debited while it is active, and it    *)
(* has at most one final CDR total.                                         *)
THEOREM SettlesOnce == Spec => []SettledOnce
<1>1. Inv => SettledOnce
  BY DEF Inv, SettleInv
<1> QED BY <1>1, InvInit, InvStep, PTL DEF Spec

(* With any number of Updates racing the Release, lost answers and crashes  *)
(* at any step: what a session pays is at most what it got back, that is at *)
(* most the total the CHF recorded, and that at most what was held for it.  *)
THEOREM OverchargesNobody == Spec => []NeverOvercharged
<1>1. Inv => NeverOvercharged
  BY MoneyFollows DEF Inv, IInv
<1> QED BY <1>1, InvInit, InvStep, PTL DEF Spec

(* The refund is never refused: whatever else is held in the subscriber's   *)
(* bucket, by however many sessions, this session's total is part of it.    *)
THEOREM RefundsAccepted == Spec => []RefundNeverRefused
<1>1. Inv => RefundNeverRefused
  BY MoneyFollows DEF Inv, IInv
<1> QED BY <1>1, InvInit, InvStep, PTL DEF Spec

(* Units reach the consumer only once their price is in the total that a    *)
(* Release settles, and in the CDR rows when no row was lost.               *)
THEOREM BacksGrants == Spec => []GrantsBacked
<1>1. Inv => GrantsBacked
  BY MoneyFollows DEF Inv, IInv
<1> QED BY <1>1, InvInit, InvStep, PTL DEF Spec

(* The SBI front end implements the abstract charging session.              *)
THEOREM ImplementsSession == Spec => RefinesSession
<1>1. Init => Session!Init
  BY SessionInitial DEF Init
<1>2. Inv /\ [Next]_vars => [Session!Next]_(Session!svars)
  BY DrivesEngine, SessionStep DEF Inv, IInv
<1> QED BY <1>1, <1>2, InvInit, InvStep, PTL DEF Spec, RefinesSession, Session!Spec
===========================================================================
