------------------------- MODULE ChargingEngine -------------------------
(***************************************************************************)
(* The part of the CHF that its three front ends share: the charging-data  *)
(* store in Redis (ChargingDataStore), rating, reservation and recording of  *)
(* one usage (charge_one_usage), the settlement of a session's reservation *)
(* (finalize_subscriber_balance) and the CDR rows these write.             *)
(*                                                                         *)
(* A request is handled by a thread that runs synchronously, one remote    *)
(* call after another.  Each call that reads or changes state outside the  *)
(* thread (a Redis command, an HTTP call to balance-management, a CDR      *)
(* insert) is one action here, so the requests that the other threads      *)
(* handle interleave between any two of them.  job[t] holds the local      *)
(* variables of thread t's handler and the step it is about to take.       *)
(*                                                                         *)
(* Faults: a call to balance-management may fail before it is executed, or *)
(* its answer may be lost after; a CDR insert may fail; the process may    *)
(* crash, losing every handler while Redis and PostgreSQL survive.         *)
(***************************************************************************)
EXTENDS BalanceManagement, ProportionalDebit, FiniteSets

CONSTANTS
    Threads,      \* threads that run handlers
    MaxRefs,      \* bound: charging data resources ever created
    NoSupi,       \* the empty subscriber identifier
    Ratings,      \* what rating may return: records [cost, grant]
    UsedReports,  \* usage a consumer may report when it ends a session
    UsageCounts,  \* numbers of multipleUnitUsage entries in a request
    TopUpAmounts, \* what a subscriber may pay in
    CareAmounts,  \* what customer care may debit
    MaxRequests,  \* bound: requests received
    MaxFaults,    \* bound: lost calls, lost rows and crashes
    MaxBssOps     \* bound: top-ups and customer-care debits

Refs == 1..MaxRefs

NoCost == -1      \* rating.cost has no value

NoRating == [cost |-> NoCost, grant |-> NoQuantity]

Care == 0         \* the description of customer-care adjustments

Supis == Buckets \cup {NoSupi}

ASSUME EngineAssumption ==
    /\ MaxRefs \in Nat /\ MaxRequests \in Nat /\ MaxFaults \in Nat
    /\ MaxBssOps \in Nat
    /\ Refs \cup {Care} \subseteq Memos
    /\ NoSupi \notin Buckets
    /\ UsageCounts \subseteq Nat
    /\ TopUpAmounts \subseteq Nat /\ CareAmounts \subseteq Nat
    /\ UsedReports \subseteq Quantity
    /\ Ratings \subseteq [cost : Nat \cup {NoCost}, grant : Quantity]

VARIABLES
    nextId,       \* kChargingDataNextIdKey: the last resource id given out
    active,       \* kChargingDataActiveSet
    content,      \* chf:cdr:content:{ref}: supi, reserved_total, granted_*
    cdr,          \* the cdr table: per resource the sum of reserved_cost over
                  \* its Create and Update rows, and its Release rows
    job,          \* per thread, the handler in progress
    authorized,   \* per resource, the price of the units answered to the consumer
    requests, faults, bssOps

storeVars == <<nextId, active, content>>
envVars   == <<requests, faults, bssOps>>
engineVars == <<bucket, ledger, memo, nextId, active, content, cdr, job,
                authorized, requests, faults, bssOps>>

Steps == {"idle", "rate", "reserve", "add_reserved", "add_granted", "cdr",
          "answer", "read_granted", "release", "unreserve", "debit",
          "release_cdr"}

Job == [pc : Steps, ref : Refs \cup {0}, supi : Supis, left : Nat,
        rating : [cost : Nat \cup {NoCost}, grant : Quantity], ok : BOOLEAN,
        given : Nat, used : Quantity, total : Nat, debit : Nat]

Idle == [pc |-> "idle", ref |-> 0, supi |-> NoSupi, left |-> 0,
         rating |-> NoRating, ok |-> TRUE, given |-> 0, used |-> NoQuantity,
         total |-> 0, debit |-> 0]

EngineTypeOK ==
    /\ BalanceTypeOK
    /\ nextId \in 0..MaxRefs
    /\ active \subseteq Refs
    /\ content \in [Refs -> [supi : Supis, reserved : Nat, granted : Quantity]]
    /\ cdr \in [Refs -> [reserved : Nat, final : SUBSET Nat]]
    /\ job \in [Threads -> Job]
    /\ authorized \in [Refs -> Nat]
    /\ requests \in Nat /\ faults \in Nat /\ bssOps \in Nat

EngineInit ==
    /\ BalanceInit
    /\ nextId = 0
    /\ active = {}
    /\ content = [r \in Refs |-> [supi |-> NoSupi, reserved |-> 0,
                                  granted |-> NoQuantity]]
    /\ cdr = [r \in Refs |-> [reserved |-> 0, final |-> {}]]
    /\ job = [t \in Threads |-> Idle]
    /\ authorized = [r \in Refs |-> 0]
    /\ requests = 0 /\ faults = 0 /\ bssOps = 0

At(t, step) == job[t].pc = step

Goto(t, step) == job' = [job EXCEPT ![t].pc = step]

Fault == faults < MaxFaults /\ faults' = faults + 1

NoFault == UNCHANGED faults

(* A request for the idle thread t; the handler starts with the locals j.   *)
Receive(t, j) ==
    /\ At(t, "idle")
    /\ requests < MaxRequests
    /\ requests' = requests + 1
    /\ job' = [job EXCEPT ![t] = j]
    /\ UNCHANGED <<balanceVars, cdr, authorized, faults, bssOps>>

(* Mutant: one entry too many.                                              *)
NextUsage_OffByOne(n) == IF n >= 0 THEN "rate" ELSE "answer"

(* The next entry of multipleUnitUsage, or the answer when there is none.   *)
NextUsage(n) == IF n > 0 THEN "rate" ELSE "answer"

(* A handler that charges n usages of resource r for subscriber s.          *)
Charging(r, s, n) ==
    [Idle EXCEPT !.pc = NextUsage(n), !.ref = r, !.supi = s, !.left = n]

(* A handler that settles resource r with the final report u.  It starts    *)
(* with get_supi and get_reserved_total.                                    *)
Settling(r, u) ==
    [Idle EXCEPT !.pc = "read_granted", !.ref = r, !.used = u,
                 !.supi = content[r].supi, !.total = content[r].reserved]

---------------------------------------------------------------------------
(* ChargingDataStore::create: INCR, SADD and two HSETs.  The id is told to  *)
(* no one before the handler answers, so no other thread can see the four   *)
(* commands apart.                                                          *)
create(s) ==
    /\ nextId < MaxRefs
    /\ nextId' = nextId + 1
    /\ active' = active \cup {nextId + 1}
    /\ content' = [content EXCEPT ![nextId + 1] =
                     [supi |-> s, reserved |-> 0, granted |-> NoQuantity]]

(* build_rating_grant: a read of the product catalogue.  The catalogue may  *)
(* be unreachable or hold no matching price (NoRating).  charge_one_usage   *)
(* reserves only for a price and a known subscriber, and                    *)
(* reserve_subscriber_balance makes no call for a price of zero.            *)
build_rating_grant(t) ==
    /\ At(t, "rate")
    /\ \E rating \in Ratings \cup {NoRating} :
          job' = [job EXCEPT ![t].rating = rating, ![t].ok = TRUE,
                    ![t].pc = IF rating.cost = NoCost \/ job[t].supi = NoSupi
                              THEN "cdr"
                              ELSE IF rating.cost = 0 THEN "add_reserved"
                              ELSE "reserve"]
    /\ UNCHANGED <<balanceVars, storeVars, cdr, authorized, envVars>>

(* Mutant: a call that failed is taken for a reservation.                   *)
reserve_subscriber_balance_LostIsHeld(t) ==
    LET s == job[t].supi
        c == job[t].rating.cost
    IN  /\ At(t, "reserve")
        /\ \/ /\ reserve(s, c, job[t].ref)
              /\ NoFault
              /\ job' = [job EXCEPT
                           ![t].ok = ReserveCompletes(s, c),
                           ![t].pc = IF ReserveCompletes(s, c)
                                     THEN "add_reserved" ELSE "cdr"]
           \/ /\ Fault
              /\ reserve(s, c, job[t].ref) \/ UNCHANGED balanceVars
              /\ job' = [job EXCEPT ![t].ok = TRUE, ![t].pc = "add_reserved"]
        /\ UNCHANGED <<storeVars, cdr, authorized, requests, bssOps>>

(* Mutant: 201 is taken for "completed".                                    *)
reserve_subscriber_balance_Any201(t) ==
    /\ At(t, "reserve")
    /\ \/ /\ reserve(job[t].supi, job[t].rating.cost, job[t].ref)
          /\ NoFault
          /\ job' = [job EXCEPT ![t].ok = TRUE, ![t].pc = "add_reserved"]
       \/ /\ Fault
          /\ \/ reserve(job[t].supi, job[t].rating.cost, job[t].ref)
             \/ UNCHANGED balanceVars
          /\ job' = [job EXCEPT ![t].ok = FALSE, ![t].pc = "cdr"]
    /\ UNCHANGED <<storeVars, cdr, authorized, requests, bssOps>>

(* The POST /reserveBalance of reserve_subscriber_balance.  Anything but an *)
(* answer with status "completed" makes it return false.                    *)
reserve_subscriber_balance(t) ==
    LET s == job[t].supi
        c == job[t].rating.cost
    IN  /\ At(t, "reserve")
        /\ \/ /\ reserve(s, c, job[t].ref)
              /\ NoFault
              /\ job' = [job EXCEPT
                           ![t].ok = ReserveCompletes(s, c),
                           ![t].pc = IF ReserveCompletes(s, c)
                                     THEN "add_reserved" ELSE "cdr"]
           \/ /\ Fault
              /\ reserve(s, c, job[t].ref) \/ UNCHANGED balanceVars
              /\ job' = [job EXCEPT ![t].ok = FALSE, ![t].pc = "cdr"]
        /\ UNCHANGED <<storeVars, cdr, authorized, requests, bssOps>>

(* HINCRBYFLOAT reserved_total                                              *)
add_reserved(t) ==
    /\ At(t, "add_reserved")
    /\ content' = [content EXCEPT ![job[t].ref].reserved =
                     content[job[t].ref].reserved + job[t].rating.cost]
    /\ Goto(t, "add_granted")
    /\ UNCHANGED <<balanceVars, nextId, active, cdr, authorized, envVars>>

Plus(p, q) == [volume |-> p.volume + q.volume, units |-> p.units + q.units,
               time |-> p.time + q.time]

(* HINCRBYFLOAT granted_volume, granted_service_units or granted_time: a    *)
(* grant has one dimension.                                                 *)
add_granted(t) ==
    /\ At(t, "add_granted")
    /\ content' = [content EXCEPT ![job[t].ref].granted =
                     Plus(content[job[t].ref].granted, job[t].rating.grant)]
    /\ Goto(t, "cdr")
    /\ UNCHANGED <<balanceVars, nextId, active, cdr, authorized, envVars>>

(* Mutant: "reserved" is not looked at.                                     *)
RowCost_Unreserved(j) == IF j.rating.cost > 0 THEN j.rating.cost ELSE 0

(* reserved && cost.has_value(): the reserved_cost of the row.              *)
RowCost(j) == IF j.ok /\ j.rating.cost > 0 THEN j.rating.cost ELSE 0

(* write_converged_charging_cdr, after which charge_one_usage returns and   *)
(* the handler notes the grant for its answer.                              *)
write_converged_charging_cdr(t) ==
    /\ At(t, "cdr")
    /\ \/ /\ cdr' = [cdr EXCEPT ![job[t].ref].reserved =
                       cdr[job[t].ref].reserved + RowCost(job[t])]
          /\ NoFault
       \/ Fault /\ UNCHANGED cdr
    /\ job' = [job EXCEPT ![t].left = job[t].left - 1,
                          ![t].given = job[t].given + RowCost(job[t]),
                          ![t].pc = NextUsage(job[t].left - 1)]
    /\ UNCHANGED <<balanceVars, storeVars, authorized, requests, bssOps>>

(* The consumer receives the grants.                                        *)
Authorize(t) ==
    /\ At(t, "answer")
    /\ authorized' = [authorized EXCEPT ![job[t].ref] =
                        authorized[job[t].ref] + job[t].given]
    /\ job' = [job EXCEPT ![t] = Idle]

---------------------------------------------------------------------------
(* Settlement.  get_granted_volume, _service_units and _time; the debit     *)
(* follows from them, g being the grants the front end passes to            *)
(* proportional_debit.                                                      *)
get_granted(t, g) ==
    /\ At(t, "read_granted")
    /\ job' = [job EXCEPT ![t].debit =
                              proportional_debit(job[t].total, g, job[t].used),
                          ![t].pc = "release"]
    /\ UNCHANGED <<balanceVars, storeVars, cdr, authorized, envVars>>

(* Mutant: the debit without the refund before it.                          *)
FirstSettlingCall_NoRefund(t) ==
    IF job[t].supi = NoSupi \/ job[t].total <= 0 THEN "release_cdr" ELSE "debit"

(* finalize_subscriber_balance returns at once when nothing is reserved and *)
(* is not called without a subscriber.                                      *)
FirstSettlingCall(t) ==
    IF job[t].supi = NoSupi \/ job[t].total <= 0 THEN "release_cdr" ELSE "unreserve"

(* Mutant: only the part to be debited goes back.                           *)
unreserve_ConsumedOnly(t) ==
    /\ At(t, "unreserve")
    /\ \/ /\ reserve(job[t].supi, -job[t].debit, job[t].ref)
          /\ NoFault
          /\ Goto(t, IF job[t].debit > 0 THEN "debit" ELSE "release_cdr")
       \/ /\ Fault
          /\ \/ reserve(job[t].supi, -job[t].debit, job[t].ref)
             \/ UNCHANGED balanceVars
          /\ Goto(t, "release_cdr")
    /\ UNCHANGED <<storeVars, cdr, authorized, requests, bssOps>>

(* finalize_subscriber_balance, first call: the whole total goes back.  Its *)
(* answer is checked for 201 only, which a refused action has too.          *)
unreserve(t) ==
    /\ At(t, "unreserve")
    /\ \/ /\ reserve(job[t].supi, -job[t].total, job[t].ref)
          /\ NoFault
          /\ Goto(t, IF job[t].debit > 0 THEN "debit" ELSE "release_cdr")
       \/ /\ Fault
          /\ \/ reserve(job[t].supi, -job[t].total, job[t].ref)
             \/ UNCHANGED balanceVars
          /\ Goto(t, "release_cdr")
    /\ UNCHANGED <<storeVars, cdr, authorized, requests, bssOps>>

(* finalize_subscriber_balance, second call: the consumed part is debited.  *)
(* Its outcome is only logged, so a lost answer is like a received one.     *)
debit(t) ==
    /\ At(t, "debit")
    /\ \/ adjust(job[t].supi, -job[t].debit, job[t].ref) /\ NoFault
       \/ Fault /\ UNCHANGED balanceVars
    /\ Goto(t, "release_cdr")
    /\ UNCHANGED <<storeVars, cdr, authorized, requests, bssOps>>

(* The Release row, and the answer that ends the handler.                   *)
write_release_cdr(t) ==
    /\ At(t, "release_cdr")
    /\ \/ /\ cdr' = [cdr EXCEPT ![job[t].ref].final =
                       cdr[job[t].ref].final \cup {job[t].total}]
          /\ NoFault
       \/ Fault /\ UNCHANGED cdr
    /\ job' = [job EXCEPT ![t] = Idle]
    /\ UNCHANGED <<balanceVars, storeVars, authorized, requests, bssOps>>

---------------------------------------------------------------------------
(* The CHF process stops and starts again: every handler is lost.           *)
Crash ==
    /\ \E t \in Threads : ~At(t, "idle")
    /\ Fault
    /\ job' = [t \in Threads |-> Idle]
    /\ UNCHANGED <<balanceVars, storeVars, cdr, authorized, requests, bssOps>>

(* Others use the same balance: a payment by the subscriber, and a one-time *)
(* debit by customer care.                                                  *)
TopUp(s) ==
    /\ bssOps < MaxBssOps
    /\ bssOps' = bssOps + 1
    /\ \E a \in TopUpAmounts : topup(s, a)
    /\ UNCHANGED <<storeVars, cdr, job, authorized, requests, faults>>

CareDebit(s) ==
    /\ bssOps < MaxBssOps
    /\ bssOps' = bssOps + 1
    /\ \E a \in CareAmounts : adjust(s, -a, Care)
    /\ UNCHANGED <<storeVars, cdr, job, authorized, requests, faults>>

(* The steps of charge_one_usage and of a settlement that do not depend on  *)
(* the front end.                                                           *)
ChargeStep(t) ==
    \/ build_rating_grant(t)
    \/ reserve_subscriber_balance(t)
    \/ add_reserved(t)
    \/ add_granted(t)
    \/ write_converged_charging_cdr(t)

SettleStep(t) ==
    \/ unreserve(t)
    \/ debit(t)

---------------------------------------------------------------------------
(* The thread is past the removal of its resource from the active set.      *)
Settles(t) == job[t].pc \in {"unreserve", "debit", "release_cdr"}

(* A session is settled at most once, whatever Releases are repeated or     *)
(* overlap and whichever front end they come in by: at most one handler is  *)
(* past the removal from the active set, until then nothing of the          *)
(* reservation has been returned, debited or reported as final, and no      *)
(* second final row is ever written.                                        *)
SettledOnce ==
    /\ \A t, u \in Threads :
          Settles(t) /\ Settles(u) /\ job[t].ref = job[u].ref => t = u
    /\ \A r \in active :
          memo[r].freed = 0 /\ memo[r].paid = 0 /\ cdr[r].final = {}
    /\ \A r \in Refs : \A a, b \in cdr[r].final : a = b

(* What a session costs: the debit at Release never exceeds the refund that *)
(* precedes it, that never exceeds the total the CHF recorded, and that     *)
(* never exceeds the money held for this session, with Updates in flight,   *)
(* lost answers and crashes at any step.                                    *)
NeverOvercharged ==
    \A r \in Refs :
       /\ memo[r].paid <= memo[r].freed
       /\ memo[r].freed <= content[r].reserved
       /\ content[r].reserved <= memo[r].held

(* The refund of finalize_subscriber_balance is never refused: its caller   *)
(* checks the HTTP status only and would go on to debit money that is still *)
(* reserved.                                                                *)
RefundNeverRefused == \A r \in Refs : "unreserve" \notin memo[r].failed

(* Units are answered to the consumer only after their price is part of the *)
(* total a later Release settles, and, when no row was lost, part of the    *)
(* rows the CDR store holds.                                                *)
GrantsBacked ==
    \A r \in Refs :
       content[r].supi # NoSupi =>
          /\ authorized[r] <= content[r].reserved
          /\ faults = 0 => authorized[r] <= cdr[r].reserved

(* The CHF implements the abstract charging session.                        *)
phase == [r \in Refs |-> IF r > nextId THEN "none"
                         ELSE IF r \in active THEN "open" ELSE "closed"]

Session ==
    INSTANCE ChargingSession
    WITH Sessions <- Refs,
         held  <- [r \in Refs |-> memo[r].held],
         freed <- [r \in Refs |-> memo[r].freed],
         paid  <- [r \in Refs |-> memo[r].paid]

RefinesSession == Session!Spec
===========================================================================
