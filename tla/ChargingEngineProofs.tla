---------------------- MODULE ChargingEngineProofs ----------------------
(***************************************************************************)
(* What the steps of the charging engine preserve, whichever front end     *)
(* runs them: the types of the engine's state; the rules of                *)
(* balance-management (every step is a step of BalanceSpec or leaves the   *)
(* balance alone); that a session is settled at most once; that the money  *)
(* of a session adds up; and that every step is a step of the abstract     *)
(* charging session or a stutter.  The front ends' proofs show that their  *)
(* steps are EngineNext steps.                                             *)
(***************************************************************************)
EXTENDS ChargingEngine, TLAPS

---------------------------------------------------------------------------
(***************************************************************************)
(* balance-management, whoever calls it.                                   *)
(***************************************************************************)
(* Each operation of BalanceStore keeps the types of the three tables.      *)
LEMMA TopupTypes ==
    ASSUME BalanceTypeOK, NEW b \in Buckets, NEW a \in Nat, topup(b, a)
    PROVE  BalanceTypeOK'
<1>1. bucket' \in [Buckets -> [open : BOOLEAN, remaining : Int, reserved : Int]]
  BY DEF BalanceTypeOK, topup
<1>2. ledger' \in [Buckets -> [topup : Int, adjust : Int, reserve : Int]]
  BY DEF BalanceTypeOK, topup
<1> QED BY <1>1, <1>2 DEF BalanceTypeOK, topup

(* adjust keeps the types.                                                  *)
LEMMA AdjustTypes ==
    ASSUME BalanceTypeOK, NEW b \in Buckets, NEW a \in Int, NEW m \in Memos,
           adjust(b, a, m)
    PROVE  BalanceTypeOK'
<1>1. CASE AdjustCompletes(b, a)
  <2>1. bucket' \in [Buckets -> [open : BOOLEAN, remaining : Int, reserved : Int]]
    BY <1>1 DEF BalanceTypeOK, adjust
  <2>2. ledger' \in [Buckets -> [topup : Int, adjust : Int, reserve : Int]]
    BY <1>1 DEF BalanceTypeOK, adjust
  <2>3. memo' \in [Memos -> [held : Int, freed : Int, paid : Int,
                             failed : SUBSET Kinds]]
    BY <1>1 DEF BalanceTypeOK, adjust
  <2> QED BY <2>1, <2>2, <2>3 DEF BalanceTypeOK
<1>2. CASE ~AdjustCompletes(b, a)
  <2>1. (IF a < 0 THEN "debit" ELSE "credit") \in Kinds
    BY DEF Kinds
  <2>2. memo' \in [Memos -> [held : Int, freed : Int, paid : Int,
                             failed : SUBSET Kinds]]
    BY <1>2, <2>1 DEF BalanceTypeOK, adjust
  <2> QED BY <1>2, <2>2 DEF BalanceTypeOK, adjust
<1> QED BY <1>1, <1>2

(* reserve keeps the types.                                                 *)
LEMMA ReserveTypes ==
    ASSUME BalanceTypeOK, NEW b \in Buckets, NEW a \in Int, NEW m \in Memos,
           reserve(b, a, m)
    PROVE  BalanceTypeOK'
<1>1. CASE ReserveCompletes(b, a)
  <2>1. bucket' \in [Buckets -> [open : BOOLEAN, remaining : Int, reserved : Int]]
    BY <1>1 DEF BalanceTypeOK, reserve
  <2>2. ledger' \in [Buckets -> [topup : Int, adjust : Int, reserve : Int]]
    BY <1>1 DEF BalanceTypeOK, reserve
  <2>3. memo' \in [Memos -> [held : Int, freed : Int, paid : Int,
                             failed : SUBSET Kinds]]
    BY <1>1 DEF BalanceTypeOK, reserve
  <2> QED BY <2>1, <2>2, <2>3 DEF BalanceTypeOK
<1>2. CASE ~ReserveCompletes(b, a)
  <2>1. (IF a >= 0 THEN "reserve" ELSE "unreserve") \in Kinds
    BY DEF Kinds
  <2>2. memo' \in [Memos -> [held : Int, freed : Int, paid : Int,
                             failed : SUBSET Kinds]]
    BY <1>2, <2>1 DEF BalanceTypeOK, reserve
  <2> QED BY <1>2, <2>2 DEF BalanceTypeOK, reserve
<1> QED BY <1>1, <1>2

(* The tables of balance-management keep their types under every sequence   *)
(* of top-ups, adjustments and reservations.                                *)
THEOREM BalanceTypeCorrect == BalanceSpec => []BalanceTypeOK
<1>1. BalanceInit => BalanceTypeOK
  BY DEF BalanceInit, BalanceTypeOK
<1>2. BalanceTypeOK /\ [BalanceNext]_balanceVars => BalanceTypeOK'
  <2> SUFFICES ASSUME BalanceTypeOK, [BalanceNext]_balanceVars
               PROVE  BalanceTypeOK'
    OBVIOUS
  <2>1. CASE UNCHANGED balanceVars
    BY <2>1 DEF BalanceTypeOK, balanceVars
  <2>2. ASSUME NEW b \in Buckets, NEW a \in Nat, topup(b, a)
        PROVE  BalanceTypeOK'
    BY <2>2, TopupTypes
  <2>3. ASSUME NEW b \in Buckets, NEW a \in Int, NEW m \in Memos, adjust(b, a, m)
        PROVE  BalanceTypeOK'
    BY <2>3, AdjustTypes
  <2>4. ASSUME NEW b \in Buckets, NEW a \in Int, NEW m \in Memos, reserve(b, a, m)
        PROVE  BalanceTypeOK'
    BY <2>4, ReserveTypes
  <2> QED BY <2>1, <2>2, <2>3, <2>4 DEF BalanceNext
<1> QED BY <1>1, <1>2, PTL DEF BalanceSpec

(* What the floor and the books need of each operation.                     *)
BalanceInv == BalanceTypeOK /\ NoOverdraft /\ Reconciles

(* topup keeps floor and books.                                             *)
LEMMA TopupKeepsBooks ==
    ASSUME BalanceInv, NEW b \in Buckets, NEW a \in Nat, topup(b, a)
    PROVE  NoOverdraft' /\ Reconciles'
<1> SUFFICES ASSUME NEW c \in Buckets
             PROVE  /\ bucket'[c].remaining >= 0 /\ bucket'[c].reserved >= 0
                    /\ bucket'[c].remaining =
                          ledger'[c].topup + ledger'[c].adjust - ledger'[c].reserve
                    /\ bucket'[c].reserved = ledger'[c].reserve
  BY DEF NoOverdraft, Reconciles
<1>1. CASE c = b
  BY <1>1 DEF BalanceInv, BalanceTypeOK, NoOverdraft, Reconciles, topup
<1>2. CASE c # b
  BY <1>2 DEF BalanceInv, BalanceTypeOK, NoOverdraft, Reconciles, topup
<1> QED BY <1>1, <1>2

(* adjust keeps floor and books.                                            *)
LEMMA AdjustKeepsBooks ==
    ASSUME BalanceInv, NEW b \in Buckets, NEW a \in Int, NEW m \in Memos,
           adjust(b, a, m)
    PROVE  NoOverdraft' /\ Reconciles'
<1> SUFFICES ASSUME NEW c \in Buckets
             PROVE  /\ bucket'[c].remaining >= 0 /\ bucket'[c].reserved >= 0
                    /\ bucket'[c].remaining =
                          ledger'[c].topup + ledger'[c].adjust - ledger'[c].reserve
                    /\ bucket'[c].reserved = ledger'[c].reserve
  BY DEF NoOverdraft, Reconciles
<1>1. CASE AdjustCompletes(b, a) /\ c = b
  <2>1. bucket[b].remaining + a >= 0
    BY <1>1 DEF AdjustCompletes
  <2>2. /\ bucket'[c].remaining = bucket[c].remaining + a
        /\ bucket'[c].reserved = bucket[c].reserved
        /\ ledger'[c].topup = ledger[c].topup
        /\ ledger'[c].adjust = ledger[c].adjust + a
        /\ ledger'[c].reserve = ledger[c].reserve
    BY <1>1 DEF BalanceInv, BalanceTypeOK, adjust
  <2> QED
    BY <1>1, <2>1, <2>2 DEF BalanceInv, BalanceTypeOK, NoOverdraft, Reconciles
<1>2. CASE AdjustCompletes(b, a) /\ c # b
  BY <1>2 DEF BalanceInv, BalanceTypeOK, NoOverdraft, Reconciles, adjust
<1>3. CASE ~AdjustCompletes(b, a)
  BY <1>3 DEF BalanceInv, NoOverdraft, Reconciles, adjust
<1> QED BY <1>1, <1>2, <1>3

(* reserve keeps floor and books.                                           *)
LEMMA ReserveKeepsBooks ==
    ASSUME BalanceInv, NEW b \in Buckets, NEW a \in Int, NEW m \in Memos,
           reserve(b, a, m)
    PROVE  NoOverdraft' /\ Reconciles'
<1> SUFFICES ASSUME NEW c \in Buckets
             PROVE  /\ bucket'[c].remaining >= 0 /\ bucket'[c].reserved >= 0
                    /\ bucket'[c].remaining =
                          ledger'[c].topup + ledger'[c].adjust - ledger'[c].reserve
                    /\ bucket'[c].reserved = ledger'[c].reserve
  BY DEF NoOverdraft, Reconciles
<1>1. CASE ReserveCompletes(b, a) /\ c = b
  BY <1>1 DEF BalanceInv, BalanceTypeOK, NoOverdraft, Reconciles, reserve,
              ReserveCompletes
<1>2. CASE ReserveCompletes(b, a) /\ c # b
  BY <1>2 DEF BalanceInv, BalanceTypeOK, NoOverdraft, Reconciles, reserve
<1>3. CASE ~ReserveCompletes(b, a)
  BY <1>3 DEF BalanceInv, NoOverdraft, Reconciles, reserve
<1> QED BY <1>1, <1>2, <1>3

(* BalanceStore's guarantee to all its clients: no interleaving of their    *)
(* top-ups, adjustments and reservations overdraws a bucket, and the bucket *)
(* rows always agree with the sums of the completed action rows.  The       *)
(* conjunction is inductive as it stands.                                   *)
THEOREM BalanceSafe == BalanceSpec => [](NoOverdraft /\ Reconciles)
<1>1. BalanceInit => BalanceInv
  BY DEF BalanceInit, BalanceInv, BalanceTypeOK, NoOverdraft, Reconciles
<1>2. BalanceInv /\ [BalanceNext]_balanceVars => BalanceInv'
  <2> SUFFICES ASSUME BalanceInv, [BalanceNext]_balanceVars
               PROVE  BalanceInv'
    OBVIOUS
  <2>1. CASE UNCHANGED balanceVars
    BY <2>1 DEF BalanceInv, BalanceTypeOK, NoOverdraft, Reconciles, balanceVars
  <2>2. ASSUME NEW b \in Buckets, NEW a \in Nat, topup(b, a)
        PROVE  BalanceInv'
    BY <2>2, TopupTypes, TopupKeepsBooks DEF BalanceInv
  <2>3. ASSUME NEW b \in Buckets, NEW a \in Int, NEW m \in Memos, adjust(b, a, m)
        PROVE  BalanceInv'
    BY <2>3, AdjustTypes, AdjustKeepsBooks DEF BalanceInv
  <2>4. ASSUME NEW b \in Buckets, NEW a \in Int, NEW m \in Memos, reserve(b, a, m)
        PROVE  BalanceInv'
    BY <2>4, ReserveTypes, ReserveKeepsBooks DEF BalanceInv
  <2> QED BY <2>1, <2>2, <2>3, <2>4 DEF BalanceNext
<1>3. BalanceInv => NoOverdraft /\ Reconciles
  BY DEF BalanceInv
<1> QED BY <1>1, <1>2, <1>3, PTL DEF BalanceSpec

---------------------------------------------------------------------------
(***************************************************************************)
(* The engine.                                                             *)
(***************************************************************************)
(* What a handler's locals hold at each of its steps.                       *)
JobOK(t) ==
    /\ ~At(t, "idle") => job[t].ref \in 1..nextId
    /\ job[t].pc \in {"rate", "reserve", "add_reserved", "add_granted", "cdr"}
          => job[t].left > 0
    /\ At(t, "reserve") => job[t].supi \in Buckets
    /\ job[t].pc \in {"reserve", "add_reserved"} => job[t].rating.cost \in Nat
    /\ job[t].pc \in {"unreserve", "debit"} => job[t].supi \in Buckets

EngineInv ==
    /\ EngineTypeOK
    /\ active \subseteq 1..nextId
    /\ \A t \in Threads : JobOK(t)

Content == [supi : Supis, reserved : Nat, granted : Quantity]

(* proportional_debit lies between nothing and the total.                   *)
LEMMA DebitBound ==
    ASSUME NEW total \in Nat, NEW g \in Quantity, NEW u \in Quantity
    PROVE  proportional_debit(total, g, u) \in 0..total
<1> DEFINE q == (total * consumed_weight(g, u)) \div granted_weight(g)
<1>1. granted_weight(g) \in Nat /\ consumed_weight(g, u) \in Nat
  BY DEF granted_weight, consumed_weight, Lesser, Quantity
<1>2. ASSUME granted_weight(g) > 0 PROVE q \in Int
  BY <1>1, <1>2
<1>3. ASSUME NEW x \in Int PROVE Clamp(x, total) \in 0..total
  BY DEF Clamp, Lesser
<1> QED BY <1>1, <1>2, <1>3 DEF proportional_debit

(* Quantities are closed under addition.                                    *)
LEMMA QuantityTypes ==
    /\ NoQuantity \in Quantity
    /\ \A p, q \in Quantity : Plus(p, q) \in Quantity
BY DEF NoQuantity, Quantity, Plus

(* The locals of a thread without a request are well typed.                 *)
LEMMA IdleType == Idle \in Job
BY QuantityTypes DEF Idle, Job, Steps, NoRating, NoCost, Supis

(* The locals a charging handler starts with are well typed.                *)
LEMMA ChargingType ==
    ASSUME NEW r \in Refs, NEW s \in Supis, NEW n \in Nat
    PROVE  Charging(r, s, n) \in Job
BY IdleType DEF Charging, NextUsage, Job, Steps, Idle

(* The locals a settling handler starts with are well typed.                *)
LEMMA SettlingType ==
    ASSUME EngineTypeOK, NEW r \in Refs, NEW u \in Quantity
    PROVE  Settling(r, u) \in Job
BY IdleType DEF Settling, Job, Steps, Idle, EngineTypeOK

(* The first step of a handler.                                             *)
LEMMA FirstSteps ==
    /\ Idle.pc = "idle"
    /\ \A r \in Refs, s \in Supis, n \in Nat :
          /\ Charging(r, s, n).ref = r /\ Charging(r, s, n).left = n
          /\ Charging(r, s, n).pc = "answer" \/ (Charging(r, s, n).pc = "rate" /\ n > 0)
    /\ \A r \in Refs, u \in Quantity :
          Settling(r, u).ref = r /\ Settling(r, u).pc = "read_granted"
BY DEF Idle, Charging, Settling, NextUsage

(* Replacing the locals of one handler.                                     *)
LEMMA JobUpdate ==
    ASSUME EngineTypeOK, NEW t \in Threads, NEW j \in Job,
           job' = [job EXCEPT ![t] = j]
    PROVE  job' \in [Threads -> Job]
BY DEF EngineTypeOK

(* A step of one handler that creates no resource: the others keep theirs.  *)
LEMMA OtherJobs ==
    ASSUME EngineInv, NEW t \in Threads, NEW j, job' = [job EXCEPT ![t] = j],
           nextId' = nextId, JobOK(t)'
    PROVE  \A u \in Threads : JobOK(u)'
<1> SUFFICES ASSUME NEW u \in Threads, u # t PROVE JobOK(u)'
  OBVIOUS
<1>1. job'[u] = job[u]
  BY DEF EngineInv, EngineTypeOK
<1> QED BY <1>1 DEF EngineInv, JobOK, At

---------------------------------------------------------------------------
(* build_rating_grant keeps the invariant.                                  *)
LEMMA RateStep ==
    ASSUME EngineInv, NEW t \in Threads, build_rating_grant(t)
    PROVE  EngineInv'
<1>1. PICK rating \in Ratings \cup {NoRating} :
         job' = [job EXCEPT ![t].rating = rating, ![t].ok = TRUE,
                    ![t].pc = IF rating.cost = NoCost \/ job[t].supi = NoSupi
                              THEN "cdr"
                              ELSE IF rating.cost = 0 THEN "add_reserved"
                              ELSE "reserve"]
  BY DEF build_rating_grant
<1> DEFINE j == [job[t] EXCEPT !.rating = rating, !.ok = TRUE,
                    !.pc = IF rating.cost = NoCost \/ job[t].supi = NoSupi
                              THEN "cdr"
                              ELSE IF rating.cost = 0 THEN "add_reserved"
                              ELSE "reserve"]
<1>2. rating \in [cost : Nat \cup {NoCost}, grant : Quantity]
  BY QuantityTypes, EngineAssumption DEF NoRating
<1>3. job' = [job EXCEPT ![t] = j]
  BY <1>1
<1>4. job[t] \in Job /\ job[t].pc = "rate"
  BY DEF EngineInv, EngineTypeOK, build_rating_grant, At
<1>5. j \in Job
  BY <1>2, <1>4 DEF Job, Steps
<1>6. job'[t] = j
  BY <1>3 DEF EngineInv, EngineTypeOK
<1>7. JobOK(t)'
  BY <1>2, <1>4, <1>6 DEF EngineInv, JobOK, At, Job, Supis, build_rating_grant, storeVars
<1>8. job' \in [Threads -> Job]
  BY <1>3, <1>5, JobUpdate DEF EngineInv
<1>9. \A u \in Threads : JobOK(u)'
  BY <1>3, <1>7, OtherJobs DEF build_rating_grant, storeVars
<1> QED
  BY <1>8, <1>9 DEF EngineInv, EngineTypeOK, BalanceTypeOK, build_rating_grant,
                    balanceVars, storeVars, envVars

(* An id given out names a resource and a description of its own.           *)
LEMMA RefFacts ==
    ASSUME EngineInv, NEW r \in 1..nextId
    PROVE  r \in Refs /\ r \in Memos /\ r # Care
BY EngineAssumption DEF EngineInv, EngineTypeOK, Refs, Care

(* The count of faults is a number.                                         *)
LEMMA FaultType == ASSUME EngineInv, Fault \/ NoFault PROVE faults' \in Nat
BY DEF EngineInv, EngineTypeOK, Fault, NoFault

(* The call to /reserveBalance keeps it, whatever comes of the call.        *)
LEMMA ReserveCallStep ==
    ASSUME EngineInv, NEW t \in Threads, reserve_subscriber_balance(t)
    PROVE  EngineInv'
<1> DEFINE s == job[t].supi
           c == job[t].rating.cost
<1>1. /\ job[t] \in Job /\ job[t].pc = "reserve"
      /\ s \in Buckets /\ c \in Nat /\ job[t].ref \in 1..nextId
  BY DEF EngineInv, EngineTypeOK, JobOK, reserve_subscriber_balance, At
<1>2. PICK ok \in BOOLEAN, pc \in {"add_reserved", "cdr"} :
         job' = [job EXCEPT ![t].ok = ok, ![t].pc = pc]
  <2>1. ReserveCompletes(s, c) \in BOOLEAN
    BY <1>1 DEF ReserveCompletes, EngineInv, EngineTypeOK, BalanceTypeOK
  <2> QED BY <2>1 DEF reserve_subscriber_balance
<1> DEFINE j == [job[t] EXCEPT !.ok = ok, !.pc = pc]
<1>3. job' = [job EXCEPT ![t] = j]
  BY <1>2
<1>4. j \in Job
  BY <1>1 DEF Job, Steps
<1>5. job'[t] = j
  BY <1>3 DEF EngineInv, EngineTypeOK
<1>6. JobOK(t)'
  BY <1>1, <1>5 DEF EngineInv, JobOK, At, Job, reserve_subscriber_balance, storeVars
<1>7. job' \in [Threads -> Job]
  BY <1>3, <1>4, JobUpdate DEF EngineInv
<1>8. \A u \in Threads : JobOK(u)'
  BY <1>3, <1>6, OtherJobs DEF reserve_subscriber_balance, storeVars
<1>9. BalanceTypeOK'
  <2>1. CASE reserve(s, c, job[t].ref)
    BY <1>1, <2>1, RefFacts, ReserveTypes DEF EngineInv, EngineTypeOK
  <2>2. CASE UNCHANGED balanceVars
    BY <2>2 DEF EngineInv, EngineTypeOK, BalanceTypeOK, balanceVars
  <2> QED BY <2>1, <2>2 DEF reserve_subscriber_balance
<1>10. faults' \in Nat
  BY FaultType DEF reserve_subscriber_balance
<1> QED
  BY <1>7, <1>8, <1>9, <1>10 DEF EngineInv, EngineTypeOK,
     reserve_subscriber_balance, storeVars

(* add_reserved keeps it: the price added is a number.                      *)
LEMMA AddReservedStep ==
    ASSUME EngineInv, NEW t \in Threads, add_reserved(t)
    PROVE  EngineInv'
<1>1. /\ job[t] \in Job /\ job[t].pc = "add_reserved"
      /\ job[t].rating.cost \in Nat /\ job[t].ref \in 1..nextId
  BY DEF EngineInv, EngineTypeOK, JobOK, add_reserved, At
<1>2. job[t].ref \in Refs
  BY <1>1, RefFacts
<1>3. content' \in [Refs -> Content]
  BY <1>1, <1>2 DEF add_reserved, EngineInv, EngineTypeOK, Content
<1> DEFINE j == [job[t] EXCEPT !.pc = "add_granted"]
<1>4. job' = [job EXCEPT ![t] = j]
  BY DEF add_reserved, Goto
<1>5. j \in Job
  BY <1>1 DEF Job, Steps
<1>6. job'[t] = j
  BY <1>4 DEF EngineInv, EngineTypeOK
<1>7. JobOK(t)'
  BY <1>1, <1>6 DEF EngineInv, JobOK, At, Job, add_reserved
<1>8. job' \in [Threads -> Job]
  BY <1>4, <1>5, JobUpdate DEF EngineInv
<1>9. \A u \in Threads : JobOK(u)'
  BY <1>4, <1>7, OtherJobs DEF add_reserved
<1> QED
  BY <1>3, <1>8, <1>9 DEF EngineInv, EngineTypeOK, BalanceTypeOK, Content,
     add_reserved, balanceVars, envVars

(* add_granted keeps it.                                                    *)
LEMMA AddGrantedStep ==
    ASSUME EngineInv, NEW t \in Threads, add_granted(t)
    PROVE  EngineInv'
<1>1. /\ job[t] \in Job /\ job[t].pc = "add_granted" /\ job[t].ref \in 1..nextId
  BY DEF EngineInv, EngineTypeOK, JobOK, add_granted, At
<1>2. job[t].ref \in Refs
  BY <1>1, RefFacts
<1>3. Plus(content[job[t].ref].granted, job[t].rating.grant) \in Quantity
  BY <1>1, <1>2, QuantityTypes DEF EngineInv, EngineTypeOK, Job
<1>4. content' \in [Refs -> Content]
  BY <1>2, <1>3 DEF add_granted, EngineInv, EngineTypeOK, Content
<1> DEFINE j == [job[t] EXCEPT !.pc = "cdr"]
<1>5. job' = [job EXCEPT ![t] = j]
  BY DEF add_granted, Goto
<1>6. j \in Job
  BY <1>1 DEF Job, Steps
<1>7. job'[t] = j
  BY <1>5 DEF EngineInv, EngineTypeOK
<1>8. JobOK(t)'
  BY <1>1, <1>7 DEF EngineInv, JobOK, At, Job, add_granted
<1>9. job' \in [Threads -> Job]
  BY <1>5, <1>6, JobUpdate DEF EngineInv
<1>10. \A u \in Threads : JobOK(u)'
  BY <1>5, <1>8, OtherJobs DEF add_granted
<1> QED
  BY <1>4, <1>9, <1>10 DEF EngineInv, EngineTypeOK, BalanceTypeOK, Content,
     add_granted, balanceVars, envVars

(* The reserved_cost of a row is never negative.                            *)
LEMMA RowCostType == ASSUME NEW j \in Job PROVE RowCost(j) \in Nat
BY DEF RowCost, Job, NoCost

(* write_converged_charging_cdr keeps it: the usage written was one left.   *)
LEMMA WriteCdrStep ==
    ASSUME EngineInv, NEW t \in Threads, write_converged_charging_cdr(t)
    PROVE  EngineInv'
<1>1. /\ job[t] \in Job /\ job[t].pc = "cdr" /\ job[t].ref \in 1..nextId
      /\ job[t].left > 0 /\ job[t].left \in Nat
  BY DEF EngineInv, EngineTypeOK, JobOK, write_converged_charging_cdr, At, Job
<1>2. job[t].ref \in Refs /\ RowCost(job[t]) \in Nat
  BY <1>1, RefFacts, RowCostType
<1>3. cdr' \in [Refs -> [reserved : Nat, final : SUBSET Nat]]
  BY <1>2 DEF write_converged_charging_cdr, EngineInv, EngineTypeOK
<1> DEFINE n == job[t].left - 1
           given == job[t].given + RowCost(job[t])
           j == [job[t] EXCEPT !.left = n, !.given = given, !.pc = NextUsage(n)]
<1>4. job' = [job EXCEPT ![t] = j]
  BY DEF write_converged_charging_cdr
<1>5. j \in Job
  <2>1. n \in Nat /\ given \in Nat
    BY <1>1, <1>2 DEF Job
  <2>2. NextUsage(n) \in Steps
    BY DEF NextUsage, Steps
  <2> HIDE DEF n, given
  <2> QED BY <1>1, <2>1, <2>2 DEF Job
<1>6. job'[t] = j
  BY <1>4 DEF EngineInv, EngineTypeOK
<1>7. JobOK(t)'
  <2>1. NextUsage(n) = "rate" => n > 0
    BY DEF NextUsage
  <2>2. NextUsage(n) \in {"rate", "answer"}
    BY DEF NextUsage
  <2>3. job'[t].pc = NextUsage(n) /\ job'[t].left = n /\ job'[t].ref = job[t].ref
    BY <1>1, <1>6 DEF Job
  <2>4. nextId' = nextId
    BY DEF write_converged_charging_cdr, storeVars
  <2> HIDE DEF n, j
  <2> QED BY <1>1, <2>1, <2>2, <2>3, <2>4 DEF JobOK, At
<1>8. job' \in [Threads -> Job]
  BY <1>4, <1>5, JobUpdate DEF EngineInv
<1>9. \A u \in Threads : JobOK(u)'
  BY <1>4, <1>7, OtherJobs DEF write_converged_charging_cdr, storeVars
<1>10. faults' \in Nat
  BY FaultType DEF write_converged_charging_cdr
<1> QED
  BY <1>3, <1>8, <1>9, <1>10 DEF EngineInv, EngineTypeOK, BalanceTypeOK,
     write_converged_charging_cdr, balanceVars, storeVars

---------------------------------------------------------------------------
(* get_granted keeps it: the debit computed is a number.                    *)
LEMMA GetGrantedStep ==
    ASSUME EngineInv, NEW t \in Threads, NEW g \in Quantity, get_granted(t, g)
    PROVE  EngineInv'
<1>1. /\ job[t] \in Job /\ job[t].pc = "read_granted" /\ job[t].ref \in 1..nextId
  BY DEF EngineInv, EngineTypeOK, JobOK, get_granted, At
<1> DEFINE d == proportional_debit(job[t].total, g, job[t].used)
           j == [job[t] EXCEPT !.debit = d, !.pc = "release"]
<1>2. d \in Nat
  BY <1>1, DebitBound DEF Job
<1>3. job' = [job EXCEPT ![t] = j]
  BY DEF get_granted
<1> HIDE DEF d
<1>4. j \in Job
  BY <1>1, <1>2 DEF Job, Steps
<1>5. job'[t] = j
  BY <1>3 DEF EngineInv, EngineTypeOK
<1>6. JobOK(t)'
  <2>1. job'[t].pc = "release" /\ job'[t].ref = job[t].ref
    BY <1>1, <1>5 DEF Job
  <2>2. nextId' = nextId
    BY DEF get_granted, storeVars
  <2> QED BY <1>1, <2>1, <2>2 DEF JobOK, At
<1>7. job' \in [Threads -> Job]
  BY <1>3, <1>4, JobUpdate DEF EngineInv
<1>8. \A u \in Threads : JobOK(u)'
  BY <1>3, <1>6, OtherJobs DEF get_granted, storeVars
<1> QED
  BY <1>7, <1>8 DEF EngineInv, EngineTypeOK, BalanceTypeOK, get_granted,
                    balanceVars, storeVars, envVars

(* The refund keeps it.                                                     *)
LEMMA UnreserveStep ==
    ASSUME EngineInv, NEW t \in Threads, unreserve(t)
    PROVE  EngineInv'
<1>1. /\ job[t] \in Job /\ job[t].pc = "unreserve" /\ job[t].ref \in 1..nextId
      /\ job[t].supi \in Buckets /\ -job[t].total \in Int
  BY DEF EngineInv, EngineTypeOK, JobOK, unreserve, At, Job
<1>2. PICK pc \in {"debit", "release_cdr"} : job' = [job EXCEPT ![t].pc = pc]
  BY DEF unreserve, Goto
<1> DEFINE j == [job[t] EXCEPT !.pc = pc]
<1>3. job' = [job EXCEPT ![t] = j]
  BY <1>2
<1>4. j \in Job
  BY <1>1 DEF Job, Steps
<1>5. job'[t] = j
  BY <1>3 DEF EngineInv, EngineTypeOK
<1>6. JobOK(t)'
  BY <1>1, <1>5 DEF EngineInv, JobOK, At, Job, unreserve, storeVars
<1>7. job' \in [Threads -> Job]
  BY <1>3, <1>4, JobUpdate DEF EngineInv
<1>8. \A u \in Threads : JobOK(u)'
  BY <1>3, <1>6, OtherJobs DEF unreserve, storeVars
<1>9. BalanceTypeOK'
  <2>1. CASE reserve(job[t].supi, -job[t].total, job[t].ref)
    BY <1>1, <2>1, RefFacts, ReserveTypes DEF EngineInv, EngineTypeOK
  <2>2. CASE UNCHANGED balanceVars
    BY <2>2 DEF EngineInv, EngineTypeOK, BalanceTypeOK, balanceVars
  <2> QED BY <2>1, <2>2 DEF unreserve
<1>10. faults' \in Nat
  BY FaultType DEF unreserve
<1> QED
  BY <1>7, <1>8, <1>9, <1>10 DEF EngineInv, EngineTypeOK, unreserve, storeVars

(* The debit keeps it.                                                      *)
LEMMA DebitStep ==
    ASSUME EngineInv, NEW t \in Threads, debit(t)
    PROVE  EngineInv'
<1>1. /\ job[t] \in Job /\ job[t].pc = "debit" /\ job[t].ref \in 1..nextId
      /\ job[t].supi \in Buckets /\ -job[t].debit \in Int
  BY DEF EngineInv, EngineTypeOK, JobOK, debit, At, Job
<1> DEFINE j == [job[t] EXCEPT !.pc = "release_cdr"]
<1>3. job' = [job EXCEPT ![t] = j]
  BY DEF debit, Goto
<1>4. j \in Job
  BY <1>1 DEF Job, Steps
<1>5. job'[t] = j
  BY <1>3 DEF EngineInv, EngineTypeOK
<1>6. JobOK(t)'
  BY <1>1, <1>5 DEF EngineInv, JobOK, At, Job, debit, storeVars
<1>7. job' \in [Threads -> Job]
  BY <1>3, <1>4, JobUpdate DEF EngineInv
<1>8. \A u \in Threads : JobOK(u)'
  BY <1>3, <1>6, OtherJobs DEF debit, storeVars
<1>9. BalanceTypeOK'
  <2>1. CASE adjust(job[t].supi, -job[t].debit, job[t].ref)
    BY <1>1, <2>1, RefFacts, AdjustTypes DEF EngineInv, EngineTypeOK
  <2>2. CASE UNCHANGED balanceVars
    BY <2>2 DEF EngineInv, EngineTypeOK, BalanceTypeOK, balanceVars
  <2> QED BY <2>1, <2>2 DEF debit
<1>10. faults' \in Nat
  BY FaultType DEF debit
<1> QED
  BY <1>7, <1>8, <1>9, <1>10 DEF EngineInv, EngineTypeOK, debit, storeVars

(* A handler that returns.                                                  *)
LEMMA ReturnJob ==
    ASSUME EngineInv, NEW t \in Threads, job' = [job EXCEPT ![t] = Idle],
           nextId' = nextId
    PROVE  job' \in [Threads -> Job] /\ \A u \in Threads : JobOK(u)'
<1>1. job'[t] = Idle
  BY DEF EngineInv, EngineTypeOK
<1>2. JobOK(t)'
  BY <1>1 DEF JobOK, At, Idle
<1> QED BY <1>2, OtherJobs, IdleType, JobUpdate DEF EngineInv

(* The Release row keeps it.                                                *)
LEMMA ReleaseCdrStep ==
    ASSUME EngineInv, NEW t \in Threads, write_release_cdr(t)
    PROVE  EngineInv'
<1>1. job[t] \in Job /\ job[t].ref \in 1..nextId /\ job[t].total \in Nat
  BY DEF EngineInv, EngineTypeOK, JobOK, write_release_cdr, At, Job
<1>2. job[t].ref \in Refs
  BY <1>1, RefFacts
<1>3. cdr' \in [Refs -> [reserved : Nat, final : SUBSET Nat]]
  BY <1>1, <1>2 DEF write_release_cdr, EngineInv, EngineTypeOK
<1>4. job' \in [Threads -> Job] /\ \A u \in Threads : JobOK(u)'
  BY ReturnJob DEF write_release_cdr, storeVars
<1>5. faults' \in Nat
  BY FaultType DEF write_release_cdr
<1> QED
  BY <1>3, <1>4, <1>5 DEF EngineInv, EngineTypeOK, BalanceTypeOK,
     write_release_cdr, balanceVars, storeVars

(* A restart keeps it: no handler is left.                                  *)
LEMMA CrashStep == ASSUME EngineInv, Crash PROVE EngineInv'
<1>1. job' \in [Threads -> Job] /\ \A t \in Threads : job'[t] = Idle
  BY IdleType DEF Crash
<1>2. \A t \in Threads : JobOK(t)'
  BY <1>1 DEF JobOK, At, Idle
<1>3. faults' \in Nat
  BY FaultType DEF Crash
<1> QED
  BY <1>1, <1>2, <1>3 DEF EngineInv, EngineTypeOK, BalanceTypeOK, Crash,
     balanceVars, storeVars

(* Payments and customer-care debits keep it.                               *)
LEMMA EnvironmentStep ==
    ASSUME EngineInv, NEW s \in Buckets, TopUp(s) \/ CareDebit(s)
    PROVE  EngineInv'
<1>1. BalanceTypeOK'
  <2>1. CASE TopUp(s)
    BY <2>1, TopupTypes, EngineAssumption DEF TopUp, EngineInv, EngineTypeOK
  <2>2. CASE CareDebit(s)
    <3>1. PICK a \in CareAmounts : adjust(s, -a, Care)
      BY <2>2 DEF CareDebit
    <3>2. -a \in Int /\ Care \in Memos
      BY EngineAssumption
    <3> QED BY <3>1, <3>2, AdjustTypes DEF EngineInv, EngineTypeOK
  <2> QED BY <2>1, <2>2
<1>2. \A t \in Threads : JobOK(t)'
  BY DEF EngineInv, JobOK, At, TopUp, CareDebit, storeVars
<1>3. bssOps' \in Nat /\ UNCHANGED <<storeVars, cdr, job, authorized, requests, faults>>
  BY DEF EngineInv, EngineTypeOK, TopUp, CareDebit
<1> QED
  BY <1>1, <1>2, <1>3 DEF EngineInv, EngineTypeOK, storeVars

(* A request that names a resource known to the store.                      *)
LEMMA ReceiveStep ==
    ASSUME EngineInv, NEW t \in Threads, NEW j \in Job, Receive(t, j),
           UNCHANGED storeVars,
           \/ j = Idle
           \/ \E r \in 1..nextId, s \in Supis, n \in Nat : j = Charging(r, s, n)
           \/ \E r \in 1..nextId, u \in Quantity : j = Settling(r, u)
    PROVE  EngineInv'
<1>1. job' = [job EXCEPT ![t] = j] /\ job'[t] = j
  BY DEF Receive, EngineInv, EngineTypeOK
<1>2. JobOK(t)'
  <2>1. nextId' = nextId
    BY DEF storeVars
  <2>2. CASE j = Idle
    BY <1>1, <2>2, FirstSteps DEF JobOK, At
  <2>3. ASSUME NEW r \in 1..nextId, NEW s \in Supis, NEW n \in Nat,
               j = Charging(r, s, n)
        PROVE  JobOK(t)'
    BY <1>1, <2>1, <2>3, FirstSteps, RefFacts DEF JobOK, At
  <2>4. ASSUME NEW r \in 1..nextId, NEW u \in Quantity, j = Settling(r, u)
        PROVE  JobOK(t)'
    BY <1>1, <2>1, <2>4, FirstSteps, RefFacts DEF JobOK, At
  <2> QED BY <2>2, <2>3, <2>4
<1>3. job' \in [Threads -> Job] /\ \A u \in Threads : JobOK(u)'
  BY <1>1, <1>2, JobUpdate, OtherJobs DEF storeVars, EngineInv
<1> QED
  BY <1>3 DEF EngineInv, EngineTypeOK, BalanceTypeOK, Receive, balanceVars, storeVars

(* A request that creates its resource.                                     *)
LEMMA CreateStep ==
    ASSUME EngineInv, NEW t \in Threads, NEW s \in Supis, NEW n \in Nat,
           create(s), Receive(t, Charging(nextId + 1, s, n))
    PROVE  EngineInv'
<1> DEFINE j == Charging(nextId + 1, s, n)
<1>1. nextId' = nextId + 1 /\ nextId' \in 0..MaxRefs /\ nextId + 1 \in Refs
  BY EngineAssumption DEF create, EngineInv, EngineTypeOK, Refs
<1>2. job' = [job EXCEPT ![t] = j] /\ job'[t] = j
  BY DEF Receive, EngineInv, EngineTypeOK
<1>3. job' \in [Threads -> Job]
  BY <1>1, <1>2, ChargingType, JobUpdate DEF EngineInv
<1>4. JobOK(t)'
  <2>1. nextId + 1 \in 1..nextId'
    BY <1>1 DEF EngineInv, EngineTypeOK
  <2> QED BY <1>1, <1>2, <2>1, FirstSteps DEF JobOK, At
<1>5. ASSUME NEW u \in Threads, u # t PROVE JobOK(u)'
  <2>1. job'[u] = job[u]
    BY <1>2, <1>5 DEF EngineInv, EngineTypeOK
  <2>2. \A r \in 1..nextId : r \in 1..nextId'
    BY <1>1 DEF EngineInv, EngineTypeOK
  <2> QED BY <2>1, <2>2 DEF EngineInv, JobOK, At
<1>6. content' \in [Refs -> Content]
  BY <1>1, QuantityTypes DEF create, EngineInv, EngineTypeOK, Content
<1>7. active' \subseteq Refs /\ active' \subseteq 1..nextId'
  <2>1. active' = active \cup {nextId + 1}
    BY DEF create
  <2>2. active \subseteq Refs /\ active \subseteq 1..nextId /\ nextId \in Nat
    BY DEF EngineInv, EngineTypeOK
  <2>3. \A r \in 1..nextId : r \in 1..nextId'
    BY <1>1, <2>2
  <2>4. nextId + 1 \in 1..nextId'
    BY <1>1, <2>2
  <2> QED BY <1>1, <2>1, <2>2, <2>3, <2>4
<1> QED
  BY <1>1, <1>3, <1>4, <1>5, <1>6, <1>7 DEF EngineInv, EngineTypeOK,
     BalanceTypeOK, Receive, Content, balanceVars

(* Initially no handler runs and nothing is stored.                         *)
LEMMA EngineInitial == EngineInit => EngineInv
BY IdleType, QuantityTypes, EngineAssumption
   DEF EngineInit, EngineInv, EngineTypeOK, BalanceInit, BalanceTypeOK, JobOK,
       At, Idle, Supis, Refs
---------------------------------------------------------------------------
(* What a front end may do to the engine.  Both front ends are shown to do  *)
(* nothing else, so what the steps below preserve holds of either.          *)

(* A request for an existing resource, or one that is refused at once.      *)
Starts(t) ==
    \E j \in Job :
       /\ Receive(t, j) /\ UNCHANGED storeVars
       /\ \/ j = Idle
          \/ \E r \in 1..nextId, n \in Nat : j = Charging(r, content[r].supi, n)
          \/ \E r \in 1..nextId, u \in Quantity : j = Settling(r, u)

(* A request that opens a session.                                          *)
Creates(t) ==
    \E s \in Supis, n \in Nat :
       create(s) /\ Receive(t, Charging(nextId + 1, s, n))

Answers(t) == Authorize(t) /\ UNCHANGED <<balanceVars, storeVars, cdr, envVars>>

Proportions(t) == \E g \in Quantity : get_granted(t, g)

(* The SREM, by a handler that goes on only if it found the resource.       *)
Leaves(t) ==
    /\ At(t, "release")
    /\ \/ /\ job[t].ref \in active
          /\ active' = active \ {job[t].ref}
          /\ Goto(t, FirstSettlingCall(t))
       \/ /\ job[t].ref \notin active
          /\ job' = [job EXCEPT ![t] = Idle]
          /\ UNCHANGED active
    /\ UNCHANGED <<balanceVars, nextId, content, cdr, authorized, envVars>>

(* The end of a settlement, with or without a Release row.                  *)
Ends(t) ==
    \/ write_release_cdr(t)
    \/ /\ At(t, "release_cdr")
       /\ job' = [job EXCEPT ![t] = Idle]
       /\ UNCHANGED <<balanceVars, storeVars, cdr, authorized, envVars>>

(* The peer is gone between two requests, or when it is answered.           *)
Drops(t) ==
    /\ job[t].pc \in {"idle", "answer"}
    /\ Fault
    /\ job' = [job EXCEPT ![t] = Idle]
    /\ UNCHANGED <<balanceVars, storeVars, cdr, authorized, requests, bssOps>>

EngineNext ==
    \/ \E t \in Threads :
          \/ Starts(t) \/ Creates(t) \/ Answers(t) \/ Proportions(t) \/ Leaves(t)
          \/ Ends(t) \/ Drops(t) \/ ChargeStep(t) \/ SettleStep(t)
    \/ Crash
    \/ \E s \in Buckets : TopUp(s) \/ CareDebit(s)

(* A handler that answers returns, and its grants are noted.                *)
LEMMA AnswerStep ==
    ASSUME EngineInv, NEW t \in Threads, Answers(t)
    PROVE  EngineInv'
<1>1. job[t] \in Job /\ job[t].ref \in 1..nextId /\ job[t].given \in Nat
  BY DEF EngineInv, EngineTypeOK, JobOK, Answers, Authorize, At, Job
<1>2. job[t].ref \in Refs
  BY <1>1, RefFacts
<1>3. authorized' \in [Refs -> Nat]
  BY <1>1, <1>2 DEF Answers, Authorize, EngineInv, EngineTypeOK
<1>4. job' \in [Threads -> Job] /\ \A u \in Threads : JobOK(u)'
  BY ReturnJob DEF Answers, Authorize, storeVars
<1> QED
  BY <1>3, <1>4 DEF EngineInv, EngineTypeOK, BalanceTypeOK, Answers,
     balanceVars, storeVars, envVars

(* A Release leaves the active set to settle, or returns.                   *)
LEMMA LeaveStep ==
    ASSUME EngineInv, NEW t \in Threads, Leaves(t)
    PROVE  EngineInv'
<1>1. job[t] \in Job /\ job[t].pc = "release" /\ job[t].ref \in 1..nextId
  BY DEF EngineInv, EngineTypeOK, JobOK, Leaves, At
<1>2. active' \subseteq Refs /\ active' \subseteq 1..nextId' /\ nextId' = nextId
  BY DEF Leaves, EngineInv, EngineTypeOK
<1>3. job' \in [Threads -> Job] /\ \A u \in Threads : JobOK(u)'
  <2>1. CASE job' = [job EXCEPT ![t] = Idle]
    BY <1>2, <2>1, ReturnJob
  <2>2. CASE Goto(t, FirstSettlingCall(t))
    <3> DEFINE j == [job[t] EXCEPT !.pc = FirstSettlingCall(t)]
    <3>1. job' = [job EXCEPT ![t] = j] /\ job'[t] = j
      BY <2>2 DEF Goto, EngineInv, EngineTypeOK
    <3>2. FirstSettlingCall(t) \in {"release_cdr", "unreserve"}
      BY DEF FirstSettlingCall
    <3>3. FirstSettlingCall(t) = "unreserve" => job[t].supi \in Buckets
      BY <1>1 DEF FirstSettlingCall, Job, Supis
    <3>4. j \in Job
      BY <1>1, <3>2 DEF Job, Steps
    <3>5. job'[t].pc = FirstSettlingCall(t) /\ job'[t].ref = job[t].ref
          /\ job'[t].supi = job[t].supi
      BY <1>1, <3>1 DEF Job
    <3> HIDE DEF j
    <3>6. JobOK(t)'
      BY <1>1, <1>2, <3>2, <3>3, <3>5 DEF JobOK, At
    <3> QED BY <1>2, <3>1, <3>4, <3>6, JobUpdate, OtherJobs DEF EngineInv
  <2> QED BY <2>1, <2>2 DEF Leaves
<1> QED
  BY <1>2, <1>3 DEF EngineInv, EngineTypeOK, BalanceTypeOK, Leaves,
     balanceVars, envVars

(* Handlers that return without a further effect on the stores.             *)
LEMMA ReturnStep ==
    ASSUME EngineInv, NEW t \in Threads, Drops(t) \/ Ends(t)
    PROVE  EngineInv'
<1>1. CASE write_release_cdr(t)
  BY <1>1, ReleaseCdrStep
<1>2. CASE ~write_release_cdr(t)
  <2>1. UNCHANGED <<balanceVars, storeVars, cdr, authorized, requests, bssOps>>
        /\ job' = [job EXCEPT ![t] = Idle] /\ (Fault \/ NoFault)
    BY <1>2 DEF Drops, Ends, envVars, NoFault
  <2>2. job' \in [Threads -> Job] /\ \A u \in Threads : JobOK(u)'
    BY <2>1, ReturnJob DEF storeVars
  <2>3. faults' \in Nat
    BY <2>1, FaultType
  <2> QED
    BY <2>1, <2>2, <2>3 DEF EngineInv, EngineTypeOK, BalanceTypeOK, balanceVars, storeVars
<1> QED BY <1>1, <1>2

(* The types hold whatever a front end does.                                *)
LEMMA EngineInvStep == EngineInv /\ [EngineNext]_engineVars => EngineInv'
<1> SUFFICES ASSUME EngineInv, [EngineNext]_engineVars PROVE EngineInv'
  OBVIOUS
<1>1. ASSUME NEW t \in Threads, Starts(t) PROVE EngineInv'
  <2>1. PICK j \in Job :
           /\ Receive(t, j) /\ UNCHANGED storeVars
           /\ \/ j = Idle
              \/ \E r \in 1..nextId, n \in Nat : j = Charging(r, content[r].supi, n)
              \/ \E r \in 1..nextId, u \in Quantity : j = Settling(r, u)
    BY <1>1 DEF Starts
  <2>2. \A r \in 1..nextId : content[r].supi \in Supis
    BY RefFacts DEF EngineInv, EngineTypeOK
  <2>3. \/ j = Idle
        \/ \E r \in 1..nextId, s \in Supis, n \in Nat : j = Charging(r, s, n)
        \/ \E r \in 1..nextId, u \in Quantity : j = Settling(r, u)
    BY <2>1, <2>2
  <2> QED BY <2>1, <2>3, ReceiveStep
<1>2. ASSUME NEW t \in Threads, Creates(t) PROVE EngineInv'
  BY <1>2, CreateStep DEF Creates
<1>3. ASSUME NEW t \in Threads, Proportions(t) PROVE EngineInv'
  BY <1>3, GetGrantedStep DEF Proportions
<1>4. ASSUME NEW t \in Threads, Answers(t) \/ Leaves(t) \/ Ends(t) \/ Drops(t)
      PROVE  EngineInv'
  BY <1>4, AnswerStep, LeaveStep, ReturnStep
<1>5. ASSUME NEW t \in Threads, ChargeStep(t) \/ SettleStep(t) PROVE EngineInv'
  BY <1>5, RateStep, ReserveCallStep, AddReservedStep, AddGrantedStep,
     WriteCdrStep, UnreserveStep, DebitStep DEF ChargeStep, SettleStep
<1>6. CASE Crash \/ \E s \in Buckets : TopUp(s) \/ CareDebit(s)
  BY <1>6, CrashStep, EnvironmentStep
<1>7. CASE UNCHANGED engineVars
  <2>1. \A t \in Threads : JobOK(t)'
    BY <1>7 DEF engineVars, EngineInv, JobOK, At
  <2>2. EngineTypeOK' /\ active' \subseteq 1..nextId'
    BY <1>7 DEF engineVars, EngineInv, EngineTypeOK, BalanceTypeOK
  <2> QED BY <2>1, <2>2 DEF EngineInv
<1> QED BY <1>1, <1>2, <1>3, <1>4, <1>5, <1>6, <1>7 DEF EngineNext

(* Every step moves money by an operation of balance-management, or not at  *)
(* all.                                                                     *)
LEMMA BalanceStep ==
    EngineInv /\ [EngineNext]_engineVars => [BalanceNext]_balanceVars
<1> SUFFICES ASSUME EngineInv, [EngineNext]_engineVars, ~UNCHANGED balanceVars
             PROVE  BalanceNext
  OBVIOUS
<1>1. ASSUME NEW t \in Threads, reserve_subscriber_balance(t) PROVE BalanceNext
  <2>1. /\ job[t].supi \in Buckets /\ job[t].rating.cost \in Int
        /\ job[t].ref \in Memos
    BY <1>1, RefFacts DEF EngineInv, JobOK, reserve_subscriber_balance, At
  <2>2. reserve(job[t].supi, job[t].rating.cost, job[t].ref)
    BY <1>1 DEF reserve_subscriber_balance
  <2> QED BY <2>1, <2>2 DEF BalanceNext
<1>2. ASSUME NEW t \in Threads, unreserve(t) PROVE BalanceNext
  <2>1. /\ job[t].supi \in Buckets /\ -job[t].total \in Int
        /\ job[t].ref \in Memos
    BY <1>2, RefFacts DEF EngineInv, EngineTypeOK, Job, JobOK, unreserve, At
  <2>2. reserve(job[t].supi, -job[t].total, job[t].ref)
    BY <1>2 DEF unreserve
  <2> QED BY <2>1, <2>2 DEF BalanceNext
<1>3. ASSUME NEW t \in Threads, debit(t) PROVE BalanceNext
  <2>1. /\ job[t].supi \in Buckets /\ -job[t].debit \in Int
        /\ job[t].ref \in Memos
    BY <1>3, RefFacts DEF EngineInv, EngineTypeOK, Job, JobOK, debit, At
  <2>2. adjust(job[t].supi, -job[t].debit, job[t].ref)
    BY <1>3 DEF debit
  <2> QED BY <2>1, <2>2 DEF BalanceNext
<1>4. ASSUME NEW s \in Buckets, TopUp(s) PROVE BalanceNext
  BY <1>4, EngineAssumption DEF TopUp, BalanceNext
<1>5. ASSUME NEW s \in Buckets, CareDebit(s) PROVE BalanceNext
  <2>1. PICK a \in CareAmounts : adjust(s, -a, Care)
    BY <1>5 DEF CareDebit
  <2>2. -a \in Int /\ Care \in Memos
    BY EngineAssumption
  <2> QED BY <2>1, <2>2 DEF BalanceNext
<1>6. ASSUME NEW t \in Threads, Starts(t) \/ Creates(t) \/ Answers(t) PROVE FALSE
  BY <1>6 DEF Starts, Creates, Answers, Receive
<1>7. ASSUME NEW t \in Threads, Proportions(t) \/ Leaves(t) \/ Ends(t) \/ Drops(t)
      PROVE  FALSE
  BY <1>7 DEF Proportions, get_granted, Leaves, Ends, Drops, write_release_cdr
<1>8. ASSUME NEW t \in Threads,
             \/ build_rating_grant(t) \/ add_reserved(t) \/ add_granted(t)
             \/ write_converged_charging_cdr(t)
      PROVE  FALSE
  BY <1>8 DEF build_rating_grant, add_reserved, add_granted,
     write_converged_charging_cdr
<1>9. ASSUME Crash \/ UNCHANGED engineVars PROVE FALSE
  BY <1>9 DEF Crash, engineVars, balanceVars
<1> QED
  BY <1>1, <1>2, <1>3, <1>4, <1>5, <1>6, <1>7, <1>8, <1>9
     DEF EngineNext, ChargeStep, SettleStep

---------------------------------------------------------------------------
(* Nothing of resource r was returned, debited or reported as final.        *)
Unsettled(r) == memo[r].freed = 0 /\ memo[r].paid = 0 /\ cdr[r].final = {}

(* SettledOnce is not inductive: it lacks that a handler past the SREM has  *)
(* its resource out of the active set and no final row, and that the ids    *)
(* not given out yet are untouched.                                         *)
SettleInv ==
    /\ SettledOnce
    /\ \A t \in Threads :
          Settles(t) => job[t].ref \notin active /\ cdr[job[t].ref].final = {}
    /\ \A r \in Refs : r > nextId => Unsettled(r)

(* A step by which no handler starts to settle and which leaves what        *)
(* settling writes alone.                                                   *)
LEMMA QuietStep ==
    ASSUME SettleInv, active' = active, nextId' = nextId,
           \A t \in Threads : job'[t] = job[t] \/ ~Settles(t)'
                             \/ (Settles(t) /\ job'[t].ref = job[t].ref),
           \A r \in Refs : /\ cdr'[r].final = cdr[r].final
                           /\ r \in active \/ r > nextId =>
                                 /\ memo'[r].freed = memo[r].freed
                                 /\ memo'[r].paid = memo[r].paid,
           \A t \in Threads : Settles(t) => job[t].ref \in Refs,
           active \subseteq Refs
    PROVE  SettleInv'
<1>1. \A t \in Threads : Settles(t)' => Settles(t) /\ job'[t].ref = job[t].ref
  BY DEF Settles
<1>2. SettledOnce'
  <2>1. \A t, u \in Threads :
           Settles(t)' /\ Settles(u)' /\ job'[t].ref = job'[u].ref => t = u
    BY <1>1 DEF SettleInv, SettledOnce
  <2>2. \A r \in active' :
           memo'[r].freed = 0 /\ memo'[r].paid = 0 /\ cdr'[r].final = {}
    BY DEF SettleInv, SettledOnce
  <2>3. \A r \in Refs : \A a, b \in cdr'[r].final : a = b
    BY DEF SettleInv, SettledOnce
  <2> QED BY <2>1, <2>2, <2>3 DEF SettledOnce
<1>3. \A t \in Threads :
         Settles(t)' => job'[t].ref \notin active' /\ cdr'[job'[t].ref].final = {}
  BY <1>1 DEF SettleInv
<1>4. \A r \in Refs : r > nextId' => Unsettled(r)'
  BY DEF SettleInv, Unsettled
<1> QED BY <1>2, <1>3, <1>4 DEF SettleInv

(* What the operations of balance-management write under a description.     *)
LEMMA MemoFrame ==
    ASSUME BalanceTypeOK, NEW b \in Buckets, NEW a \in Int, NEW m \in Memos
    PROVE  /\ reserve(b, a, m) \/ adjust(b, a, m) =>
                 \A x \in Memos \ {m} : memo'[x] = memo[x]
           /\ reserve(b, a, m) /\ a >= 0 =>
                 \A x \in Memos : /\ memo'[x].freed = memo[x].freed
                                  /\ memo'[x].paid = memo[x].paid
<1>1. ASSUME reserve(b, a, m) \/ adjust(b, a, m), NEW x \in Memos \ {m}
      PROVE  memo'[x] = memo[x]
  <2>1. CASE reserve(b, a, m)
    BY <1>1, <2>1 DEF BalanceTypeOK, reserve
  <2>2. CASE adjust(b, a, m)
    BY <1>1, <2>2 DEF BalanceTypeOK, adjust
  <2> QED BY <1>1, <2>1, <2>2
<1>2. ASSUME reserve(b, a, m), a >= 0, NEW x \in Memos
      PROVE  memo'[x].freed = memo[x].freed /\ memo'[x].paid = memo[x].paid
  <2>1. CASE ReserveCompletes(b, a)
    <3>1. memo' = [memo EXCEPT ![m].held = memo[m].held + a]
      BY <1>2, <2>1 DEF reserve
    <3> QED BY <3>1 DEF BalanceTypeOK
  <2>2. CASE ~ReserveCompletes(b, a)
    <3>1. memo' = [memo EXCEPT ![m].failed = memo[m].failed \cup {"reserve"}]
      BY <1>2, <2>2 DEF reserve
    <3> QED BY <3>1 DEF BalanceTypeOK
  <2> QED BY <2>1, <2>2
<1> QED BY <1>1, <1>2

(* The facts about a handler at work that settling needs.                   *)
LEMMA HandlerFacts ==
    ASSUME EngineInv, NEW t \in Threads, ~At(t, "idle")
    PROVE  /\ job[t] \in Job /\ job[t].ref \in 1..nextId /\ job[t].ref \in Refs
           /\ ~(job[t].ref > nextId) /\ job[t].ref \in Memos
           /\ job[t].ref # Care
<1>1. job[t].ref \in 1..nextId /\ job[t] \in Job /\ nextId \in Nat
  BY DEF EngineInv, EngineTypeOK, JobOK
<1> QED BY <1>1, RefFacts

(* The steps of a handler that neither takes its resource out of the active *)
(* set nor writes a final row.                                              *)
LEMMA QuietHandlerStep ==
    ASSUME EngineInv, SettleInv, NEW t \in Threads,
           \/ Starts(t) \/ Answers(t) \/ Proportions(t) \/ Drops(t) \/ ChargeStep(t)
           \/ SettleStep(t)
    PROVE  SettleInv'
<1> DEFINE Frame == /\ active' = active /\ nextId' = nextId /\ UNCHANGED cdr
                    /\ \A u \in Threads \ {t} : job'[u] = job[u]
           Money == \A r \in Refs :
                       /\ memo'[r].freed = memo[r].freed
                       /\ memo'[r].paid = memo[r].paid
<1>1. /\ BalanceTypeOK /\ active \subseteq Refs /\ Refs \subseteq Memos
      /\ job \in [Threads -> Job] /\ \A u \in Threads : Settles(u) => job[u].ref \in Refs
  BY HandlerFacts, EngineAssumption DEF EngineInv, EngineTypeOK, Settles, At
<1>2. \A r \in active : r \in 1..nextId
  BY DEF EngineInv
<1>3. CASE Starts(t) \/ Answers(t) \/ Proportions(t) \/ Drops(t)
  <2>1. Frame /\ Money
    BY <1>1, <1>3 DEF Starts, Answers, Proportions, Drops, Receive, Authorize,
       get_granted, balanceVars, storeVars
  <2>2. ~Settles(t)'
    <3>1. CASE Starts(t)
      <4>1. PICK j \in Job :
               /\ Receive(t, j)
               /\ \/ j = Idle
                  \/ \E r \in 1..nextId, n \in Nat : j = Charging(r, content[r].supi, n)
                  \/ \E r \in 1..nextId, u \in Quantity : j = Settling(r, u)
        BY <3>1 DEF Starts
      <4>2. job'[t] = j
        BY <1>1, <4>1 DEF Receive
      <4>3. j.pc \in {"idle", "rate", "answer", "read_granted"}
        <5>1. \A r, s, n : Charging(r, s, n).pc \in {"rate", "answer"}
          BY DEF Charging, NextUsage, Idle
        <5>2. \A r, u : Settling(r, u).pc = "read_granted"
          BY DEF Settling, Idle
        <5> QED BY <4>1, <5>1, <5>2 DEF Idle
      <4> QED BY <4>2, <4>3 DEF Settles
    <3>2. CASE Answers(t) \/ Drops(t)
      <4>1. job'[t] = Idle
        BY <1>1, <3>2 DEF Answers, Drops, Authorize
      <4> QED BY <4>1 DEF Settles, Idle
    <3>3. CASE Proportions(t)
      <4>1. PICK g \in Quantity : get_granted(t, g)
        BY <3>3 DEF Proportions
      <4>2. job'[t].pc = "release"
        BY <1>1, <4>1 DEF get_granted, Job
      <4> QED BY <4>2 DEF Settles
    <3> QED BY <1>3, <3>1, <3>2, <3>3
  <2> QED BY <1>1, <2>1, <2>2, QuietStep
<1>4. CASE build_rating_grant(t) \/ add_reserved(t) \/ add_granted(t)
  <2>1. Frame /\ Money
    BY <1>1, <1>4 DEF build_rating_grant, add_reserved, add_granted, Goto,
       balanceVars, storeVars
  <2>2. ~Settles(t)'
    <3>1. CASE build_rating_grant(t)
      <4>1. PICK rating \in Ratings \cup {NoRating} :
               job' = [job EXCEPT ![t].rating = rating, ![t].ok = TRUE,
                    ![t].pc = IF rating.cost = NoCost \/ job[t].supi = NoSupi
                              THEN "cdr"
                              ELSE IF rating.cost = 0 THEN "add_reserved"
                              ELSE "reserve"]
        BY <3>1 DEF build_rating_grant
      <4>2. job'[t].pc \in {"cdr", "add_reserved", "reserve"}
        BY <1>1, <4>1 DEF Job
      <4> QED BY <4>2 DEF Settles
    <3>2. CASE add_reserved(t) \/ add_granted(t)
      BY <1>1, <3>2 DEF add_reserved, add_granted, Goto, Settles, Job
    <3> QED BY <1>4, <3>1, <3>2
  <2> QED BY <1>1, <2>1, <2>2, QuietStep
<1>5. CASE write_converged_charging_cdr(t)
  <2>1. /\ active' = active /\ nextId' = nextId
        /\ \A u \in Threads \ {t} : job'[u] = job[u]
    BY <1>1, <1>5 DEF write_converged_charging_cdr, storeVars
  <2>2. Money /\ \A r \in Refs : cdr'[r].final = cdr[r].final
    BY <1>1, <1>5 DEF write_converged_charging_cdr, balanceVars,
       EngineInv, EngineTypeOK
  <2>3. ~Settles(t)'
    BY <1>1, <1>5 DEF write_converged_charging_cdr, Settles, NextUsage, Job
  <2> QED BY <1>1, <2>1, <2>2, <2>3, QuietStep
<1>6. CASE reserve_subscriber_balance(t)
  <2>1. Frame
    BY <1>1, <1>6 DEF reserve_subscriber_balance, storeVars
  <2>2. Money
    <3>1. /\ job[t].supi \in Buckets /\ job[t].rating.cost \in Int
          /\ job[t].rating.cost >= 0 /\ job[t].ref \in Memos
      BY <1>6, HandlerFacts DEF reserve_subscriber_balance, At, EngineInv, JobOK
    <3>2. CASE reserve(job[t].supi, job[t].rating.cost, job[t].ref)
      BY <1>1, <3>1, <3>2, MemoFrame
    <3>3. CASE UNCHANGED balanceVars
      BY <3>3 DEF balanceVars
    <3> QED BY <1>6, <3>2, <3>3 DEF reserve_subscriber_balance
  <2>3. ~Settles(t)'
    BY <1>1, <1>6 DEF reserve_subscriber_balance, Settles, Job
  <2> QED BY <1>1, <2>1, <2>2, <2>3, QuietStep
<1>7. CASE unreserve(t) \/ debit(t)
  <2>1. Frame
    BY <1>1, <1>7 DEF unreserve, debit, Goto, storeVars
  <2>2. /\ Settles(t) /\ ~At(t, "idle") /\ job[t].supi \in Buckets
    BY <1>7 DEF unreserve, debit, Settles, At, EngineInv, JobOK
  <2>3. job'[t].ref = job[t].ref
    BY <1>1, <1>7 DEF unreserve, debit, Goto, Job
  <2>4. /\ job[t].ref \in Memos /\ -job[t].total \in Int /\ -job[t].debit \in Int
        /\ job[t].ref \notin active /\ ~(job[t].ref > nextId)
    BY <1>1, <2>2, HandlerFacts DEF SettleInv, Job
  <2>5. \A r \in Refs \ {job[t].ref} :
           memo'[r].freed = memo[r].freed /\ memo'[r].paid = memo[r].paid
    <3>1. CASE reserve(job[t].supi, -job[t].total, job[t].ref)
      BY <1>1, <2>2, <2>4, <3>1, MemoFrame
    <3>2. CASE adjust(job[t].supi, -job[t].debit, job[t].ref)
      BY <1>1, <2>2, <2>4, <3>2, MemoFrame
    <3>3. CASE UNCHANGED balanceVars
      BY <3>3 DEF balanceVars
    <3> QED BY <1>7, <3>1, <3>2, <3>3 DEF unreserve, debit
  <2> QED BY <1>1, <2>1, <2>2, <2>3, <2>4, <2>5, QuietStep
<1> QED BY <1>3, <1>4, <1>5, <1>6, <1>7 DEF ChargeStep, SettleStep

(* A restart, and what others do to the balance.                            *)
LEMMA QuietOutsideStep ==
    ASSUME EngineInv, SettleInv,
           \/ Crash \/ UNCHANGED engineVars
           \/ \E s \in Buckets : TopUp(s) \/ CareDebit(s)
    PROVE  SettleInv'
<1>1. /\ BalanceTypeOK /\ active \subseteq Refs /\ Refs \subseteq Memos
      /\ \A u \in Threads : Settles(u) => job[u].ref \in Refs
  BY HandlerFacts, EngineAssumption DEF EngineInv, EngineTypeOK, Settles, At
<1>2. CASE Crash
  <2>1. /\ active' = active /\ nextId' = nextId /\ UNCHANGED <<cdr, memo>>
        /\ \A u \in Threads : ~Settles(u)'
    BY <1>2 DEF Crash, storeVars, balanceVars, Settles, Idle
  <2> QED BY <1>1, <2>1, QuietStep
<1>3. CASE \E s \in Buckets : TopUp(s) \/ CareDebit(s)
  <2>1. /\ active' = active /\ nextId' = nextId /\ UNCHANGED <<cdr, job>>
    BY <1>3 DEF TopUp, CareDebit, storeVars
  <2>2. \A r \in Refs : memo'[r] = memo[r]
    <3>1. PICK s \in Buckets : TopUp(s) \/ CareDebit(s)
      BY <1>3
    <3>2. CASE TopUp(s)
      BY <3>2 DEF TopUp, topup
    <3>3. CASE CareDebit(s)
      <4>1. PICK a \in CareAmounts : adjust(s, -a, Care)
        BY <3>3 DEF CareDebit
      <4>2. -a \in Int /\ Care \in Memos /\ Care \notin Refs
        BY EngineAssumption DEF Care, Refs
      <4> QED BY <1>1, <4>1, <4>2, MemoFrame
    <3> QED BY <3>1, <3>2, <3>3
  <2> QED BY <1>1, <2>1, <2>2, QuietStep
<1>4. CASE UNCHANGED engineVars
  <2>1. active' = active /\ nextId' = nextId /\ UNCHANGED <<cdr, memo, job>>
    BY <1>4 DEF engineVars
  <2> QED BY <1>1, <2>1, QuietStep
<1> QED BY <1>2, <1>3, <1>4

(* Create gives out an id nobody settled.                                   *)
LEMMA FreshStep ==
    ASSUME EngineInv, SettleInv, NEW t \in Threads, Creates(t)
    PROVE  SettleInv'
<1>1. PICK s \in Supis, n \in Nat :
         create(s) /\ Receive(t, Charging(nextId + 1, s, n))
  BY DEF Creates
<1>2. /\ nextId' = nextId + 1 /\ active' = active \cup {nextId + 1}
      /\ UNCHANGED <<memo, cdr>> /\ nextId \in Nat /\ nextId + 1 \in Refs
  BY <1>1, EngineAssumption DEF create, Receive, balanceVars, EngineInv,
     EngineTypeOK, Refs
<1>3. \A u \in Threads : Settles(u)' => Settles(u) /\ job'[u] = job[u]
  BY <1>1 DEF Receive, Settles, Charging, NextUsage, Idle, EngineInv, EngineTypeOK
<1>4. \A u \in Threads : Settles(u) => job[u].ref # nextId + 1
  BY <1>2, HandlerFacts DEF Settles, At
<1>5. Unsettled(nextId + 1)
  BY <1>2 DEF SettleInv
<1>6. SettledOnce'
  BY <1>2, <1>3, <1>5 DEF SettleInv, SettledOnce, Unsettled
<1>7. \A u \in Threads :
         Settles(u)' => job'[u].ref \notin active' /\ cdr'[job'[u].ref].final = {}
  BY <1>2, <1>3, <1>4 DEF SettleInv
<1>8. \A r \in Refs : r > nextId' => Unsettled(r)'
  BY <1>2 DEF SettleInv, Unsettled, Refs
<1> QED BY <1>6, <1>7, <1>8 DEF SettleInv

(* The SREM: of several Releases one finds the resource in the set.         *)
LEMMA SremStep ==
    ASSUME EngineInv, SettleInv, NEW t \in Threads, Leaves(t)
    PROVE  SettleInv'
<1>1. /\ job \in [Threads -> Job] /\ active \subseteq Refs
      /\ \A u \in Threads : Settles(u) => job[u].ref \in Refs
  BY HandlerFacts DEF EngineInv, EngineTypeOK, Settles, At
<1>2. UNCHANGED <<memo, cdr, nextId>> /\ \A u \in Threads \ {t} : job'[u] = job[u]
  BY <1>1 DEF Leaves, balanceVars, Goto
<1>3. CASE job[t].ref \notin active
  <2>1. active' = active /\ ~Settles(t)'
    BY <1>1, <1>3 DEF Leaves, Settles, Idle
  <2> QED BY <1>1, <1>2, <2>1, QuietStep
<1>4. CASE job[t].ref \in active
  <2>1. active' = active \ {job[t].ref} /\ job'[t].ref = job[t].ref
    BY <1>1, <1>4 DEF Leaves, Goto, Job
  <2>2. \A u \in Threads : Settles(u) => job[u].ref # job[t].ref
    BY <1>4 DEF SettleInv
  <2>3. cdr[job[t].ref].final = {}
    BY <1>4 DEF SettleInv, SettledOnce
  <2>4. \A u \in Threads \ {t} : Settles(u)' <=> Settles(u)
    BY <1>2 DEF Settles
  <2>5. \A u, v \in Threads :
           Settles(u)' /\ Settles(v)' /\ job'[u].ref = job'[v].ref => u = v
    BY <1>2, <2>1, <2>2, <2>4 DEF SettleInv, SettledOnce
  <2>6. SettledOnce'
    BY <1>2, <2>1, <2>5 DEF SettleInv, SettledOnce
  <2>7. \A u \in Threads :
           Settles(u)' => job'[u].ref \notin active' /\ cdr'[job'[u].ref].final = {}
    BY <1>2, <2>1, <2>3, <2>4 DEF SettleInv
  <2>8. \A r \in Refs : r > nextId' => Unsettled(r)'
    BY <1>2 DEF SettleInv, Unsettled
  <2> QED BY <2>6, <2>7, <2>8 DEF SettleInv
<1> QED BY <1>3, <1>4

(* The final row: no other handler settles this resource any more.          *)
LEMMA FinalRowStep ==
    ASSUME EngineInv, SettleInv, NEW t \in Threads, Ends(t)
    PROVE  SettleInv'
<1> DEFINE r == job[t].ref
<1>1. /\ Settles(t) /\ r \in Refs /\ ~(r > nextId) /\ r \notin active
      /\ cdr[r].final = {} /\ job \in [Threads -> Job]
      /\ \A u \in Threads : Settles(u) => job[u].ref \in Refs
  <2>1. Settles(t) /\ ~At(t, "idle")
    BY DEF Ends, write_release_cdr, At, Settles
  <2> QED BY <2>1, HandlerFacts DEF SettleInv, Settles, At, EngineInv, EngineTypeOK
<1>2. /\ UNCHANGED <<memo, nextId, active>> /\ ~Settles(t)'
      /\ \A u \in Threads \ {t} : job'[u] = job[u]
  BY <1>1 DEF Ends, write_release_cdr, balanceVars, storeVars, Settles, Idle
<1>3. /\ \A x \in Refs \ {r} : cdr'[x].final = cdr[x].final
      /\ cdr'[r].final \subseteq {job[t].total}
  <2>1. CASE UNCHANGED cdr
    BY <1>1, <2>1
  <2>2. CASE cdr' = [cdr EXCEPT ![r].final = cdr[r].final \cup {job[t].total}]
    BY <1>1, <2>2 DEF EngineInv, EngineTypeOK
  <2> QED BY <2>1, <2>2 DEF Ends, write_release_cdr
<1>4. \A u \in Threads : Settles(u)' =>
         Settles(u) /\ job'[u] = job[u] /\ job[u].ref # r /\ job[u].ref \in Refs
  <2>1. \A u \in Threads : Settles(u)' => u # t /\ job'[u] = job[u]
    BY <1>2
  <2>2. \A u \in Threads : Settles(u)' => Settles(u)
    BY <2>1 DEF Settles
  <2> QED BY <1>1, <2>1, <2>2 DEF SettleInv, SettledOnce
<1>5. SettledOnce'
  <2>1. \A u, v \in Threads :
           Settles(u)' /\ Settles(v)' /\ job'[u].ref = job'[v].ref => u = v
    BY <1>4 DEF SettleInv, SettledOnce
  <2>2. \A x \in active' :
           memo'[x].freed = 0 /\ memo'[x].paid = 0 /\ cdr'[x].final = {}
    BY <1>1, <1>2, <1>3 DEF SettleInv, SettledOnce, EngineInv, EngineTypeOK
  <2>3. \A x \in Refs : \A a, b \in cdr'[x].final : a = b
    BY <1>3 DEF SettleInv, SettledOnce
  <2> QED BY <2>1, <2>2, <2>3 DEF SettledOnce
<1>6. \A u \in Threads :
         Settles(u)' => job'[u].ref \notin active' /\ cdr'[job'[u].ref].final = {}
  BY <1>2, <1>3, <1>4 DEF SettleInv
<1>7. \A x \in Refs : x > nextId' => Unsettled(x)'
  BY <1>1, <1>2, <1>3 DEF SettleInv, Unsettled
<1> QED BY <1>5, <1>6, <1>7 DEF SettleInv

(* The inductive invariant of the settlement.                               *)
LEMMA SettleInvStep == EngineInv /\ SettleInv /\ [EngineNext]_engineVars => SettleInv'
BY QuietHandlerStep, QuietOutsideStep, FreshStep, SremStep, FinalRowStep DEF EngineNext

(* Initially nothing is settled.                                            *)
LEMMA SettleInitial == EngineInit => SettleInv
<1> SUFFICES ASSUME EngineInit PROVE SettleInv
  OBVIOUS
<1>1. \A t \in Threads : ~Settles(t)
  BY DEF EngineInit, Settles, Idle
<1>2. active = {} /\ \A r \in Refs : Unsettled(r)
  BY EngineAssumption DEF EngineInit, BalanceInit, Unsettled
<1> QED BY <1>1, <1>2 DEF SettleInv, SettledOnce, Unsettled

---------------------------------------------------------------------------
(* Sums.  That the weights w of the elements of D sum to at most b is said  *)
(* by a function that adds them up, set by set: proving it for a step that  *)
(* changes one weight needs no induction, and D may be any set.             *)
AddsUp(D, w, m) ==
    /\ m \in [SUBSET D -> Nat]
    /\ \A S \in SUBSET D : \A d \in D \ S : m[S \cup {d}] = m[S] + w[d]

Covered(D, w, b) == \E m : AddsUp(D, w, m) /\ m[D] <= b

(* One weight changes, and the bound by at least as much.                   *)
LEMMA CoveredStep ==
    ASSUME NEW D, NEW w \in [D -> Nat], NEW v \in [D -> Nat], NEW d \in D,
           \A e \in D \ {d} : v[e] = w[e],
           NEW b \in Int, NEW c \in Int, c - b >= v[d] - w[d], Covered(D, w, b)
    PROVE  Covered(D, v, c)
<1>1. PICK m : AddsUp(D, w, m) /\ m[D] <= b
  BY DEF Covered
<1> DEFINE k == [S \in SUBSET D |-> IF d \in S THEN m[S \ {d}] + v[d] ELSE m[S]]
<1>2. m \in [SUBSET D -> Nat] /\ v[d] \in Nat /\ w[d] \in Nat
  BY <1>1 DEF AddsUp
<1>3. k \in [SUBSET D -> Nat]
  BY <1>2
<1>4. ASSUME NEW S \in SUBSET D, NEW e \in D \ S
      PROVE  k[S \cup {e}] = k[S] + v[e]
  <2>1. S \cup {e} \in SUBSET D /\ S \ {d} \in SUBSET D
    OBVIOUS
  <2>2. CASE e = d
    <3>1. (S \cup {e}) \ {d} = S
      BY <1>4, <2>2
    <3> QED BY <2>1, <2>2, <3>1
  <2>3. CASE e # d /\ d \in S
    <3>1. (S \cup {e}) \ {d} = (S \ {d}) \cup {e} /\ e \in D \ (S \ {d})
      BY <2>3
    <3>2. m[(S \ {d}) \cup {e}] = m[S \ {d}] + w[e]
      BY <1>1, <2>1, <3>1 DEF AddsUp
    <3>3. m[S \ {d}] \in Nat /\ v[e] = w[e] /\ v[e] \in Nat
      BY <1>2, <2>1, <2>3
    <3>4. k[S \cup {e}] = m[(S \ {d}) \cup {e}] + v[d] /\ k[S] = m[S \ {d}] + v[d]
      BY <2>1, <2>3, <3>1
    <3> HIDE DEF k
    <3> QED BY <1>2, <3>2, <3>3, <3>4
  <2>4. CASE e # d /\ d \notin S
    <3>1. k[S \cup {e}] = m[S \cup {e}] /\ k[S] = m[S] /\ v[e] = w[e]
      BY <2>1, <2>4
    <3>2. m[S \cup {e}] = m[S] + w[e]
      BY <1>1 DEF AddsUp
    <3> QED BY <3>1, <3>2
  <2> QED BY <2>2, <2>3, <2>4
<1>5. k[D] <= c
  <2>1. D \ {d} \in SUBSET D /\ d \in D \ (D \ {d}) /\ (D \ {d}) \cup {d} = D
    OBVIOUS
  <2>2. m[D] = m[D \ {d}] + w[d] /\ m[D \ {d}] \in Nat /\ m[D] \in Nat
    <3>1. m[(D \ {d}) \cup {d}] = m[D \ {d}] + w[d]
      BY <1>1, <2>1 DEF AddsUp
    <3> QED BY <1>2, <2>1, <3>1
  <2>3. k[D] = m[D \ {d}] + v[d]
    OBVIOUS
  <2> HIDE DEF k
  <2> QED BY <1>1, <1>2, <2>2, <2>3
<1>6. AddsUp(D, v, k)
  BY <1>3, <1>4 DEF AddsUp
<1> HIDE DEF k
<1> QED BY <1>5, <1>6 DEF Covered

(* A larger bound, and the same weights written differently.                *)
LEMMA CoveredSame ==
    ASSUME NEW D, NEW w \in [D -> Nat], NEW v, \A e \in D : v[e] = w[e],
           NEW b \in Int, NEW c \in Int, b <= c, Covered(D, w, b)
    PROVE  Covered(D, v, c)
<1>1. PICK m : AddsUp(D, w, m) /\ m[D] <= b
  BY DEF Covered
<1>2. m[D] \in Nat /\ AddsUp(D, v, m)
  BY <1>1 DEF AddsUp
<1> QED BY <1>1, <1>2 DEF Covered

(* Nothing to add up.                                                       *)
LEMMA CoveredZero ==
    ASSUME NEW D, NEW w, \A e \in D : w[e] = 0, NEW b \in Int, b >= 0
    PROVE  Covered(D, w, b)
<1> DEFINE m == [S \in SUBSET D |-> 0]
<1>1. AddsUp(D, w, m) /\ m[D] <= b
  <2>1. m \in [SUBSET D -> Nat] /\ m[D] = 0
    OBVIOUS
  <2>2. ASSUME NEW S \in SUBSET D, NEW d \in D \ S PROVE m[S \cup {d}] = m[S] + w[d]
    <3>1. S \cup {d} \in SUBSET D
      OBVIOUS
    <3> QED BY <3>1
  <2> QED BY <2>1, <2>2 DEF AddsUp
<1> HIDE DEF m
<1> QED BY <1>1 DEF Covered

(* No weight, and nothing, exceeds the bound.                               *)
LEMMA CoveredBound ==
    ASSUME NEW D, NEW w \in [D -> Nat], NEW b \in Int, Covered(D, w, b)
    PROVE  b >= 0 /\ \A d \in D : w[d] <= b
<1>1. PICK m : AddsUp(D, w, m) /\ m[D] <= b
  BY DEF Covered
<1>2. m[D] \in Nat
  BY <1>1 DEF AddsUp
<1>3. ASSUME NEW d \in D PROVE w[d] <= b
  <2>1. D \ {d} \in SUBSET D /\ d \in D \ (D \ {d}) /\ (D \ {d}) \cup {d} = D
    OBVIOUS
  <2>2. m[(D \ {d}) \cup {d}] = m[D \ {d}] + w[d] /\ m[D \ {d}] \in Nat
    BY <1>1, <2>1 DEF AddsUp
  <2> QED BY <1>1, <1>2, <2>1, <2>2
<1> QED BY <1>1, <1>2, <1>3

---------------------------------------------------------------------------
(* Money.  What a session costs is decided by several threads and stores:   *)
(* the hold in balance-management, the total in Redis, the CDR rows and the *)
(* answer follow each other, a call apart, in every handler.                *)
Charges == {"rate", "reserve", "add_reserved", "add_granted", "cdr", "answer"}
Finals  == {"read_granted", "release", "unreserve", "debit", "release_cdr"}

(* Held for resource r by a handler that has yet to add it to the total.    *)
HoldOf(j, r) ==
    IF j.ref = r /\ j.pc = "add_reserved" THEN j.rating.cost ELSE 0

(* The price of what a handler will answer for r.                           *)
GivenOf(j, r) == IF j.ref = r /\ j.pc \in Charges THEN j.given ELSE 0

(* The same, with the usage in progress once it is part of the total.       *)
BackOf(j, r) ==
    IF j.ref = r /\ j.pc \in {"add_granted", "cdr"} THEN j.given + RowCost(j)
    ELSE GivenOf(j, r)

(* What bucket s still holds for r.                                         *)
BucketOf(r, s) == IF content[r].supi = s THEN memo[r].held - memo[r].freed ELSE 0

(* The locals of a handler agree with the stores: the subscriber is the     *)
(* session's, the total read is one the session reached, and between the    *)
(* refund and the debit exactly that total has been returned.               *)
JobMoney(t) ==
    LET r == job[t].ref
    IN  /\ ~At(t, "idle") => job[t].supi = content[r].supi
        /\ At(t, "reserve") => job[t].rating.cost > 0
        /\ job[t].pc \in Finals => job[t].total <= content[r].reserved
        /\ job[t].pc \in {"release", "unreserve", "debit"} => job[t].debit <= job[t].total
        /\ At(t, "unreserve") =>
              job[t].total > 0 /\ memo[r].freed = 0 /\ memo[r].paid = 0
        /\ At(t, "debit") =>
              job[t].debit > 0 /\ memo[r].freed = job[t].total /\ memo[r].paid = 0

Untouched(r) ==
    memo[r].held = 0 /\ memo[r].freed = 0 /\ memo[r].paid = 0 /\ authorized[r] = 0

Ordered(r) == memo[r].paid <= memo[r].freed /\ memo[r].freed <= content[r].reserved

HoldCovers(r) ==
    Covered(Threads, [t \in Threads |-> HoldOf(job[t], r)],
            memo[r].held - content[r].reserved)

TotalCovers(r) ==
    content[r].supi # NoSupi =>
       Covered(Threads, [t \in Threads |-> BackOf(job[t], r)],
               content[r].reserved - authorized[r])

RowsCover(r) ==
    faults = 0 =>
       Covered(Threads, [t \in Threads |-> GivenOf(job[t], r)],
               cdr[r].reserved - authorized[r])

BucketCovers(s) ==
    /\ Covered(Refs, [r \in Refs |-> BucketOf(r, s)], bucket[s].reserved)
    /\ bucket[s].reserved # 0 => bucket[s].open

(* The inductive invariant of the money.                                    *)
MoneyInv ==
    /\ \A t \in Threads : JobMoney(t)
    /\ \A r \in Refs : /\ r > nextId => Untouched(r)
                       /\ Ordered(r) /\ HoldCovers(r) /\ TotalCovers(r) /\ RowsCover(r)
    /\ \A s \in Buckets : BucketCovers(s)
    /\ RefundNeverRefused

(* The weights are numbers.                                                 *)
LEMMA WeightType ==
    ASSUME NEW j \in Job, j.pc = "add_reserved" => j.rating.cost \in Nat, NEW r
    PROVE  HoldOf(j, r) \in Nat /\ GivenOf(j, r) \in Nat /\ BackOf(j, r) \in Nat
<1>1. j.given \in Nat /\ RowCost(j) \in Nat
  BY RowCostType DEF Job
<1> QED BY <1>1 DEF HoldOf, GivenOf, BackOf

LEMMA WeightTypes ==
    ASSUME EngineInv, NEW r
    PROVE  /\ [t \in Threads |-> HoldOf(job[t], r)] \in [Threads -> Nat]
           /\ [t \in Threads |-> GivenOf(job[t], r)] \in [Threads -> Nat]
           /\ [t \in Threads |-> BackOf(job[t], r)] \in [Threads -> Nat]
<1>1. \A t \in Threads : job[t] \in Job /\
                          (job[t].pc = "add_reserved" => job[t].rating.cost \in Nat)
  BY DEF EngineInv, EngineTypeOK, JobOK
<1> QED BY <1>1, WeightType

(* The types of the amounts.                                                *)
LEMMA MoneyTypes ==
    ASSUME EngineInv, NEW r \in Refs
    PROVE  /\ r \in Memos /\ memo[r].held \in Int /\ memo[r].freed \in Int
           /\ memo[r].paid \in Int /\ content[r].reserved \in Nat
           /\ content[r].supi \in Supis /\ cdr[r].reserved \in Nat
           /\ authorized[r] \in Nat
<1>1. r \in Memos
  BY EngineAssumption
<1> QED BY <1>1 DEF EngineInv, EngineTypeOK, BalanceTypeOK

(* No more is returned than is held.                                        *)
LEMMA HeldFacts ==
    ASSUME EngineInv, NEW r \in Refs, Ordered(r), HoldCovers(r)
    PROVE  /\ content[r].reserved <= memo[r].held
           /\ \A s : BucketOf(r, s) \in Nat
<1>1. memo[r].held - content[r].reserved >= 0
  <2>1. memo[r].held - content[r].reserved \in Int
    BY MoneyTypes
  <2> QED BY <2>1, WeightTypes, CoveredBound DEF HoldCovers
<1> QED BY <1>1, MoneyTypes DEF BucketOf, Ordered

(* In a step of thread t each bound moves at least as much as the weight of *)
(* t.                                                                       *)
BoundsFollow(t, r) ==
    /\ content'[r].supi = content[r].supi
    /\ (memo'[r].held - content'[r].reserved) - (memo[r].held - content[r].reserved)
          >= HoldOf(job'[t], r) - HoldOf(job[t], r)
    /\ content[r].supi # NoSupi =>
          (content'[r].reserved - authorized'[r]) - (content[r].reserved - authorized[r])
             >= BackOf(job'[t], r) - BackOf(job[t], r)
    /\ faults' = 0 =>
          /\ faults = 0
          /\ (cdr'[r].reserved - authorized'[r]) - (cdr[r].reserved - authorized[r])
                >= GivenOf(job'[t], r) - GivenOf(job[t], r)

(* Then the sums stay covered.                                              *)
LEMMA SumsStep ==
    ASSUME EngineInv, EngineInv', MoneyInv, NEW t \in Threads,
           \A u \in Threads \ {t} : job'[u] = job[u],
           NEW r \in Refs, BoundsFollow(t, r)
    PROVE  HoldCovers(r)' /\ TotalCovers(r)' /\ RowsCover(r)'
<1> USE DEF BoundsFollow
<1>1. /\ [u \in Threads |-> HoldOf(job[u], r)] \in [Threads -> Nat]
      /\ [u \in Threads |-> GivenOf(job[u], r)] \in [Threads -> Nat]
      /\ [u \in Threads |-> BackOf(job[u], r)] \in [Threads -> Nat]
  BY WeightTypes
<1>2. /\ [u \in Threads |-> HoldOf(job'[u], r)] \in [Threads -> Nat]
      /\ [u \in Threads |-> GivenOf(job'[u], r)] \in [Threads -> Nat]
      /\ [u \in Threads |-> BackOf(job'[u], r)] \in [Threads -> Nat]
  <2>1. \A u \in Threads : job'[u] \in Job /\
                            (job'[u].pc = "add_reserved" => job'[u].rating.cost \in Nat)
    BY DEF EngineInv, EngineTypeOK, JobOK
  <2> QED BY <2>1, WeightType
<1>3. /\ memo[r].held - content[r].reserved \in Int
      /\ content[r].reserved - authorized[r] \in Int
      /\ cdr[r].reserved - authorized[r] \in Int
  BY MoneyTypes
<1>4. /\ memo'[r].held - content'[r].reserved \in Int
      /\ content'[r].reserved - authorized'[r] \in Int
      /\ cdr'[r].reserved - authorized'[r] \in Int
  BY EngineAssumption DEF EngineInv, EngineTypeOK, BalanceTypeOK
<1>5. HoldCovers(r)'
  <2> DEFINE w == [u \in Threads |-> HoldOf(job[u], r)]
             v == [u \in Threads |-> HoldOf(job'[u], r)]
             b == memo[r].held - content[r].reserved
             c == memo'[r].held - content'[r].reserved
  <2>1. \A u \in Threads \ {t} : v[u] = w[u]
    OBVIOUS
  <2>2. c - b >= v[t] - w[t] /\ w \in [Threads -> Nat] /\ v \in [Threads -> Nat]
        /\ b \in Int /\ c \in Int /\ Covered(Threads, w, b)
    BY <1>1, <1>2, <1>3, <1>4 DEF MoneyInv, HoldCovers
  <2>3. Covered(Threads, v, c)
    <3> HIDE DEF v, w, b, c
    <3> QED BY <2>1, <2>2, CoveredStep
  <2> QED BY <2>3 DEF HoldCovers
<1>6. TotalCovers(r)'
  <2> SUFFICES ASSUME content[r].supi # NoSupi
               PROVE  Covered(Threads, [u \in Threads |-> BackOf(job'[u], r)],
                              content'[r].reserved - authorized'[r])
    BY DEF TotalCovers
  <2> DEFINE w == [u \in Threads |-> BackOf(job[u], r)]
             v == [u \in Threads |-> BackOf(job'[u], r)]
             b == content[r].reserved - authorized[r]
             c == content'[r].reserved - authorized'[r]
  <2>1. \A u \in Threads \ {t} : v[u] = w[u]
    OBVIOUS
  <2>2. c - b >= v[t] - w[t] /\ w \in [Threads -> Nat] /\ v \in [Threads -> Nat]
        /\ b \in Int /\ c \in Int /\ Covered(Threads, w, b)
    BY <1>1, <1>2, <1>3, <1>4 DEF MoneyInv, TotalCovers
  <2>3. Covered(Threads, v, c)
    <3> HIDE DEF v, w, b, c
    <3> QED BY <2>1, <2>2, CoveredStep
  <2> QED BY <2>3
<1>7. RowsCover(r)'
  <2> SUFFICES ASSUME faults' = 0
               PROVE  Covered(Threads, [u \in Threads |-> GivenOf(job'[u], r)],
                              cdr'[r].reserved - authorized'[r])
    BY DEF RowsCover
  <2> DEFINE w == [u \in Threads |-> GivenOf(job[u], r)]
             v == [u \in Threads |-> GivenOf(job'[u], r)]
             b == cdr[r].reserved - authorized[r]
             c == cdr'[r].reserved - authorized'[r]
  <2>1. \A u \in Threads \ {t} : v[u] = w[u]
    OBVIOUS
  <2>2. c - b >= v[t] - w[t] /\ w \in [Threads -> Nat] /\ v \in [Threads -> Nat]
        /\ b \in Int /\ c \in Int /\ Covered(Threads, w, b)
    BY <1>1, <1>2, <1>3, <1>4 DEF MoneyInv, RowsCover
  <2>3. Covered(Threads, v, c)
    <3> HIDE DEF v, w, b, c
    <3> QED BY <2>1, <2>2, CoveredStep
  <2> QED BY <2>3
<1> QED BY <1>5, <1>6, <1>7

(* A step of thread t that creates no resource keeps the invariant if the   *)
(* bounds follow, its own locals agree with the stores, and it leaves alone *)
(* what other handlers are settling.                                        *)
LEMMA HandlerMoney ==
    ASSUME EngineInv, EngineInv', MoneyInv, NEW t \in Threads,
           nextId' = nextId, \A u \in Threads \ {t} : job'[u] = job[u],
           \A r \in Refs : /\ BoundsFollow(t, r) /\ Ordered(r)'
                           /\ content'[r].reserved >= content[r].reserved
                           /\ r > nextId => Untouched(r)'
                           /\ "unreserve" \notin memo'[r].failed,
           \A u \in Threads \ {t} : job[u].pc \in {"unreserve", "debit"} =>
              /\ memo'[job[u].ref].freed = memo[job[u].ref].freed
              /\ memo'[job[u].ref].paid = memo[job[u].ref].paid,
           JobMoney(t)', \A s \in Buckets : BucketCovers(s)'
    PROVE  MoneyInv'
<1>1. ASSUME NEW u \in Threads, u # t PROVE JobMoney(u)'
  <2> DEFINE r == job[u].ref
  <2>1. job'[u] = job[u] /\ JobMoney(u) /\ job[u] \in Job
    BY <1>1 DEF MoneyInv, EngineInv, EngineTypeOK
  <2>2. CASE job[u].pc = "idle"
    BY <2>1, <2>2 DEF JobMoney, At, Finals
  <2>3. CASE job[u].pc # "idle"
    <3>1. r \in Refs
      BY <2>3, RefFacts DEF EngineInv, JobOK, At
    <3>2. content'[r].supi = content[r].supi /\ content'[r].reserved >= content[r].reserved
      BY <3>1 DEF BoundsFollow
    <3>3. content[r].reserved \in Nat /\ content'[r].reserved \in Nat /\ job[u].total \in Nat
      BY <2>1, <3>1 DEF EngineInv, EngineTypeOK, Job
    <3>4. job[u].pc \in {"unreserve", "debit"} =>
             memo'[r].freed = memo[r].freed /\ memo'[r].paid = memo[r].paid
      BY <1>1
    <3> QED BY <2>1, <2>3, <3>2, <3>3, <3>4 DEF JobMoney, At
  <2> QED BY <2>2, <2>3
<1>2. \A r \in Refs : HoldCovers(r)' /\ TotalCovers(r)' /\ RowsCover(r)'
  BY SumsStep
<1>3. RefundNeverRefused'
  BY DEF RefundNeverRefused
<1> QED BY <1>1, <1>2, <1>3 DEF MoneyInv

(* The buckets after a step that moves nothing into or out of reservedValue.*)
LEMMA BucketQuiet ==
    ASSUME EngineInv, MoneyInv,
           \A s \in Buckets : /\ bucket'[s].reserved = bucket[s].reserved
                              /\ bucket[s].open => bucket'[s].open,
           \A r \in Refs : /\ memo'[r].held = memo[r].held
                           /\ memo'[r].freed = memo[r].freed
                           /\ \/ content'[r].supi = content[r].supi
                              \/ memo[r].held = 0 /\ memo[r].freed = 0
    PROVE  \A s \in Buckets : BucketCovers(s)'
<1> SUFFICES ASSUME NEW s \in Buckets PROVE BucketCovers(s)'
  OBVIOUS
<1> DEFINE w == [r \in Refs |-> BucketOf(r, s)]
           v == [r \in Refs |-> BucketOf(r, s)']
<1>1. w \in [Refs -> Nat]
  BY HeldFacts DEF MoneyInv
<1>2. \A r \in Refs : v[r] = w[r]
  BY DEF BucketOf
<1>3. bucket[s].reserved \in Int /\ Covered(Refs, w, bucket[s].reserved)
  BY DEF MoneyInv, BucketCovers, EngineInv, EngineTypeOK, BalanceTypeOK
<1>4. Covered(Refs, v, bucket'[s].reserved)
  <2> HIDE DEF v, w
  <2> QED BY <1>1, <1>2, <1>3, CoveredSame
<1> QED BY <1>4 DEF MoneyInv, BucketCovers

(* The buckets after a moves into the reservedValue of the subscriber of q, *)
(* for q.                                                                   *)
LEMMA BucketMoves ==
    ASSUME EngineInv, MoneyInv, NEW q \in Refs, NEW b \in Buckets,
           content[q].supi = b, NEW a \in Int,
           bucket'[b].reserved = bucket[b].reserved + a, bucket'[b].open,
           \A s \in Buckets \ {b} : bucket'[s] = bucket[s],
           \A r \in Refs : content'[r].supi = content[r].supi,
           \A r \in Refs \ {q} : memo'[r] = memo[r],
           memo'[q].held - memo'[q].freed = (memo[q].held - memo[q].freed) + a,
           memo'[q].held - memo'[q].freed \in Nat
    PROVE  \A s \in Buckets : BucketCovers(s)'
<1> SUFFICES ASSUME NEW s \in Buckets PROVE BucketCovers(s)'
  OBVIOUS
<1> DEFINE w == [r \in Refs |-> BucketOf(r, s)]
           v == [r \in Refs |-> BucketOf(r, s)']
<1>1. w \in [Refs -> Nat]
  BY HeldFacts DEF MoneyInv
<1>2. \A r \in Refs \ {q} : v[r] = w[r]
  BY DEF BucketOf
<1>3. v \in [Refs -> Nat]
  <2>1. v[q] \in Nat
    BY DEF BucketOf
  <2> QED BY <1>1, <1>2, <2>1
<1>4. /\ bucket[s].reserved \in Int /\ Covered(Refs, w, bucket[s].reserved)
      /\ bucket[s].reserved # 0 => bucket[s].open
  BY DEF MoneyInv, BucketCovers, EngineInv, EngineTypeOK, BalanceTypeOK
<1>5. /\ bucket'[s].reserved \in Int
      /\ bucket'[s].reserved - bucket[s].reserved >= v[q] - w[q]
      /\ bucket'[s].reserved # 0 => bucket'[s].open
  <2>1. memo[q].held \in Int /\ memo[q].freed \in Int
    BY MoneyTypes
  <2>2. CASE s = b
    <3>1. v[q] - w[q] = a
      BY <2>1, <2>2 DEF BucketOf
    <3> QED BY <1>4, <2>2, <3>1
  <2>3. CASE s # b
    BY <1>4, <2>3 DEF BucketOf
  <2> QED BY <2>2, <2>3
<1>6. Covered(Refs, v, bucket'[s].reserved)
  <2> DEFINE x == bucket[s].reserved
             y == bucket'[s].reserved
  <2>1. x \in Int /\ y \in Int /\ y - x >= v[q] - w[q] /\ Covered(Refs, w, x)
    BY <1>4, <1>5
  <2> HIDE DEF v, w, x, y
  <2>2. Covered(Refs, v, y)
    BY <1>1, <1>2, <1>3, <2>1, CoveredStep
  <2> QED BY <2>2 DEF y
<1> QED BY <1>5, <1>6 DEF BucketCovers

(* A handler that does not charge has no weight.                            *)
LEMMA NoWeight ==
    ASSUME NEW j, j.pc \notin Charges, NEW r
    PROVE  HoldOf(j, r) = 0 /\ GivenOf(j, r) = 0 /\ BackOf(j, r) = 0
BY DEF HoldOf, GivenOf, BackOf, Charges

(* Steps that move no money and raise no weight.                            *)
LEMMA QuietMoney ==
    ASSUME EngineInv, EngineInv', MoneyInv, NEW t \in Threads,
           nextId' = nextId, \A u \in Threads \ {t} : job'[u] = job[u],
           UNCHANGED <<bucket, memo, authorized>>, faults' = 0 => faults = 0,
           \A r \in Refs : /\ content'[r].supi = content[r].supi
                           /\ content'[r].reserved = content[r].reserved
                           /\ cdr'[r].reserved = cdr[r].reserved
                           /\ HoldOf(job'[t], r) <= HoldOf(job[t], r)
                           /\ content[r].supi # NoSupi =>
                                 BackOf(job'[t], r) <= BackOf(job[t], r)
                           /\ GivenOf(job'[t], r) <= GivenOf(job[t], r),
           JobMoney(t)'
    PROVE  MoneyInv'
<1>1. ASSUME NEW r \in Refs
      PROVE  /\ BoundsFollow(t, r) /\ Ordered(r)'
             /\ content'[r].reserved >= content[r].reserved
             /\ r > nextId => Untouched(r)'
             /\ "unreserve" \notin memo'[r].failed
  <2>1. /\ memo[r].held \in Int /\ content[r].reserved \in Nat
        /\ cdr[r].reserved \in Nat /\ authorized[r] \in Nat
    BY MoneyTypes
  <2>2. /\ HoldOf(job[t], r) \in Nat /\ GivenOf(job[t], r) \in Nat /\ BackOf(job[t], r) \in Nat
        /\ HoldOf(job'[t], r) \in Nat /\ GivenOf(job'[t], r) \in Nat /\ BackOf(job'[t], r) \in Nat
    <3>1. /\ job[t] \in Job /\ (job[t].pc = "add_reserved" => job[t].rating.cost \in Nat)
          /\ job'[t] \in Job /\ (job'[t].pc = "add_reserved" => job'[t].rating.cost \in Nat)
      BY DEF EngineInv, EngineTypeOK, JobOK
    <3> QED BY <3>1, WeightType
  <2>3. BoundsFollow(t, r)
    BY <2>1, <2>2 DEF BoundsFollow
  <2> QED BY <2>1, <2>3 DEF Ordered, Untouched, MoneyInv, RefundNeverRefused
<1>2. \A s \in Buckets : BucketCovers(s)'
  BY BucketQuiet
<1> QED BY <1>1, <1>2, HandlerMoney

(* Requests for existing resources: the subscriber and the total are read   *)
(* from the store.                                                          *)
LEMMA StartMoney ==
    ASSUME EngineInv, EngineInv', MoneyInv, NEW t \in Threads, Starts(t)
    PROVE  MoneyInv'
<1>1. PICK j \in Job :
         /\ Receive(t, j) /\ UNCHANGED storeVars
         /\ \/ j = Idle
            \/ \E r \in 1..nextId, n \in Nat : j = Charging(r, content[r].supi, n)
            \/ \E r \in 1..nextId, u \in Quantity : j = Settling(r, u)
  BY DEF Starts
<1>2. /\ job'[t] = j /\ \A u \in Threads \ {t} : job'[u] = job[u]
      /\ UNCHANGED <<bucket, memo, authorized, content, cdr, nextId, faults>>
  BY <1>1 DEF Receive, EngineInv, EngineTypeOK, balanceVars, storeVars
<1>3. /\ j.given = 0 /\ j.pc \in {"idle", "rate", "answer", "read_granted"}
      /\ j.pc # "idle" => j.supi = content[j.ref].supi
      /\ j.pc = "read_granted" => j.total = content[j.ref].reserved /\ j.ref \in Refs
  <2>1. CASE j = Idle
    BY <2>1 DEF Idle
  <2>2. ASSUME NEW r \in 1..nextId, NEW n \in Nat, j = Charging(r, content[r].supi, n)
        PROVE  /\ j.given = 0 /\ j.pc \in {"rate", "answer"}
               /\ j.ref = r /\ j.supi = content[r].supi
    BY <2>2 DEF Charging, NextUsage, Idle
  <2>3. ASSUME NEW r \in 1..nextId, NEW u \in Quantity, j = Settling(r, u)
        PROVE  /\ j.given = 0 /\ j.pc = "read_granted" /\ j.ref = r /\ r \in Refs
               /\ j.supi = content[r].supi /\ j.total = content[r].reserved
    BY <2>3, RefFacts DEF Settling, Idle
  <2> QED BY <1>1, <2>1, <2>2, <2>3
<1>4. ASSUME NEW r \in Refs
      PROVE  HoldOf(j, r) = 0 /\ GivenOf(j, r) = 0 /\ BackOf(j, r) = 0
  BY <1>3 DEF HoldOf, GivenOf, BackOf
<1>5. \A r \in Refs : HoldOf(job[t], r) = 0 /\ GivenOf(job[t], r) = 0
                      /\ BackOf(job[t], r) = 0
  BY <1>1, NoWeight DEF Receive, At, Charges
<1>6. JobMoney(t)'
  <2>1. \A r \in Refs : content[r].reserved \in Nat
    BY MoneyTypes
  <2> QED BY <1>2, <1>3, <2>1 DEF JobMoney, At, Finals
<1> QED BY <1>2, <1>4, <1>5, <1>6, QuietMoney

(* Handlers that return, or give up.                                        *)
LEMMA ReturnMoney ==
    ASSUME EngineInv, EngineInv', MoneyInv, NEW t \in Threads, Ends(t) \/ Drops(t)
    PROVE  MoneyInv'
<1>1. /\ job' = [job EXCEPT ![t] = Idle]
      /\ UNCHANGED <<bucket, memo, authorized, content, nextId>>
      /\ faults' = 0 => faults = 0
  BY DEF Ends, Drops, write_release_cdr, Fault, NoFault, balanceVars, storeVars,
     envVars, EngineInv, EngineTypeOK
<1>2. \A r \in Refs : cdr'[r].reserved = cdr[r].reserved
  <2>1. CASE UNCHANGED cdr
    BY <2>1
  <2>2. CASE cdr' = [cdr EXCEPT ![job[t].ref].final =
                       cdr[job[t].ref].final \cup {job[t].total}]
    BY <2>2 DEF EngineInv, EngineTypeOK
  <2> QED BY <2>1, <2>2 DEF Ends, Drops, write_release_cdr
<1>3. job'[t] = Idle /\ \A u \in Threads \ {t} : job'[u] = job[u]
  BY <1>1 DEF EngineInv, EngineTypeOK
<1>4. \A r \in Refs : /\ HoldOf(job'[t], r) = 0 /\ GivenOf(job'[t], r) = 0
                      /\ BackOf(job'[t], r) = 0
                      /\ HoldOf(job[t], r) \in Nat /\ GivenOf(job[t], r) \in Nat
                      /\ BackOf(job[t], r) \in Nat
  <2>1. Idle.pc \notin Charges
    BY DEF Idle, Charges
  <2>2. job[t] \in Job /\ (job[t].pc = "add_reserved" => job[t].rating.cost \in Nat)
    BY DEF EngineInv, EngineTypeOK, JobOK
  <2> QED BY <1>3, <2>1, <2>2, NoWeight, WeightType
<1>5. JobMoney(t)'
  BY <1>3 DEF JobMoney, At, Idle, Finals
<1> QED BY <1>1, <1>2, <1>3, <1>4, <1>5, QuietMoney

(* Rating: what was found has no price, a price of zero, or a price to      *)
(* reserve.                                                                 *)
LEMMA RateMoney ==
    ASSUME EngineInv, EngineInv', MoneyInv, NEW t \in Threads, build_rating_grant(t)
    PROVE  MoneyInv'
<1>1. PICK rating \in Ratings \cup {NoRating} :
         job' = [job EXCEPT ![t].rating = rating, ![t].ok = TRUE,
                    ![t].pc = IF rating.cost = NoCost \/ job[t].supi = NoSupi
                              THEN "cdr"
                              ELSE IF rating.cost = 0 THEN "add_reserved"
                              ELSE "reserve"]
  BY DEF build_rating_grant
<1>2. rating.cost \in Nat \cup {NoCost}
  BY EngineAssumption DEF NoRating
<1>3. /\ job[t] \in Job /\ job[t].pc = "rate" /\ job[t].given \in Nat
      /\ job[t].ref \in Refs /\ job[t].supi = content[job[t].ref].supi
  BY RefFacts DEF EngineInv, EngineTypeOK, JobOK, build_rating_grant, At, Job,
     MoneyInv, JobMoney
<1>4. /\ job'[t].rating = rating /\ job'[t].ref = job[t].ref
      /\ job'[t].supi = job[t].supi /\ job'[t].given = job[t].given
      /\ job'[t].pc = IF rating.cost = NoCost \/ job[t].supi = NoSupi THEN "cdr"
                      ELSE IF rating.cost = 0 THEN "add_reserved" ELSE "reserve"
      /\ \A u \in Threads \ {t} : job'[u] = job[u]
  BY <1>1, <1>3 DEF EngineInv, EngineTypeOK, Job
<1>5. UNCHANGED <<bucket, memo, authorized, content, cdr, nextId, faults>>
  BY DEF build_rating_grant, balanceVars, storeVars, envVars
<1>6. ASSUME NEW r \in Refs
      PROVE  /\ HoldOf(job'[t], r) <= HoldOf(job[t], r)
             /\ content[r].supi # NoSupi => BackOf(job'[t], r) <= BackOf(job[t], r)
             /\ GivenOf(job'[t], r) <= GivenOf(job[t], r)
  <2>1. GivenOf(job'[t], r) = GivenOf(job[t], r) /\ GivenOf(job[t], r) \in Nat
    BY <1>3, <1>4 DEF GivenOf, Charges
  <2>2. HoldOf(job'[t], r) = 0 /\ HoldOf(job[t], r) = 0
    BY <1>3, <1>4 DEF HoldOf
  <2>3. ASSUME content[r].supi # NoSupi PROVE BackOf(job'[t], r) <= BackOf(job[t], r)
    <3>1. r = job[t].ref /\ job'[t].pc = "cdr" => RowCost(job'[t]) = 0
      BY <1>3, <1>4, <2>3 DEF RowCost, NoCost
    <3>2. BackOf(job'[t], r) = GivenOf(job[t], r)
      BY <1>3, <1>4, <2>1, <3>1 DEF BackOf, GivenOf, Charges
    <3>3. BackOf(job[t], r) = GivenOf(job[t], r)
      BY <1>3 DEF BackOf
    <3> QED BY <2>1, <3>2, <3>3
  <2> QED BY <2>1, <2>2, <2>3
<1>7. JobMoney(t)'
  BY <1>2, <1>3, <1>4, <1>5 DEF JobMoney, At, Finals, NoCost
<1> QED BY <1>4, <1>5, <1>6, <1>7, QuietMoney

(* add_granted and the reading of the grants touch no amount.               *)
LEMMA GrantMoney ==
    ASSUME EngineInv, EngineInv', MoneyInv, NEW t \in Threads,
           add_granted(t) \/ Proportions(t)
    PROVE  MoneyInv'
<1>1. /\ job[t] \in Job /\ job[t].ref \in Refs /\ JobMoney(t)
      /\ UNCHANGED <<bucket, memo, authorized, cdr, nextId, faults>>
      /\ \A u \in Threads \ {t} : job'[u] = job[u]
      /\ \A r \in Refs : /\ content'[r].supi = content[r].supi
                         /\ content'[r].reserved = content[r].reserved
  <2>1. job[t] \in Job /\ ~At(t, "idle") /\ JobMoney(t)
    BY DEF EngineInv, EngineTypeOK, add_granted, Proportions, get_granted, At, MoneyInv
  <2>2. job[t].ref \in Refs
    BY <2>1, RefFacts DEF EngineInv, JobOK
  <2>3. CASE add_granted(t)
    BY <2>1, <2>2, <2>3 DEF add_granted, Goto, EngineInv, EngineTypeOK, balanceVars, envVars
  <2>4. CASE Proportions(t)
    BY <2>1, <2>2, <2>4 DEF Proportions, get_granted, EngineInv, EngineTypeOK,
       balanceVars, storeVars, envVars
  <2> QED BY <2>3, <2>4
<1>2. CASE add_granted(t)
  <2>1. job[t].pc = "add_granted" /\ job'[t] = [job[t] EXCEPT !.pc = "cdr"]
    BY <1>2 DEF add_granted, Goto, At, EngineInv, EngineTypeOK
  <2>2. /\ job'[t].pc = "cdr" /\ job'[t].ref = job[t].ref /\ job'[t].supi = job[t].supi
        /\ job'[t].given = job[t].given /\ RowCost(job'[t]) = RowCost(job[t])
    BY <1>1, <2>1 DEF Job, RowCost
  <2>3. job[t].given \in Nat /\ RowCost(job[t]) \in Nat
    BY <1>1, RowCostType DEF Job
  <2>4. \A r \in Refs : /\ HoldOf(job'[t], r) <= HoldOf(job[t], r)
                        /\ BackOf(job'[t], r) <= BackOf(job[t], r)
                        /\ GivenOf(job'[t], r) <= GivenOf(job[t], r)
    BY <2>1, <2>2, <2>3 DEF HoldOf, BackOf, GivenOf, Charges
  <2>5. JobMoney(t)'
    BY <1>1, <2>1, <2>2 DEF JobMoney, At, Finals
  <2> QED BY <1>1, <2>4, <2>5, QuietMoney
<1>3. CASE Proportions(t)
  <2>1. PICK g \in Quantity : get_granted(t, g)
    BY <1>3 DEF Proportions
  <2> DEFINE d == proportional_debit(job[t].total, g, job[t].used)
  <2>2. d \in 0..job[t].total
    BY <1>1, DebitBound DEF Job
  <2>3. job[t].pc = "read_granted" /\ job'[t] = [job[t] EXCEPT !.debit = d, !.pc = "release"]
    BY <2>1 DEF get_granted, At, EngineInv, EngineTypeOK
  <2> HIDE DEF d
  <2>4. /\ job'[t].pc = "release" /\ job'[t].ref = job[t].ref /\ job'[t].supi = job[t].supi
        /\ job'[t].total = job[t].total /\ job'[t].debit = d /\ job[t].total \in Nat
    BY <1>1, <2>3 DEF Job
  <2>5. \A r \in Refs : /\ HoldOf(job'[t], r) = 0 /\ HoldOf(job[t], r) = 0
                        /\ BackOf(job'[t], r) = 0 /\ BackOf(job[t], r) = 0
                        /\ GivenOf(job'[t], r) = 0 /\ GivenOf(job[t], r) = 0
    <3>1. job[t].pc \notin Charges /\ job'[t].pc \notin Charges
      BY <2>3, <2>4 DEF Charges
    <3> QED BY <3>1, NoWeight
  <2>6. JobMoney(t)'
    BY <1>1, <2>2, <2>3, <2>4 DEF JobMoney, At, Finals
  <2> QED BY <1>1, <2>5, <2>6, QuietMoney
<1> QED BY <1>2, <1>3

(* The SREM: while the resource was active nothing of it was returned.      *)
LEMMA LeaveMoney ==
    ASSUME EngineInv, EngineInv', SettleInv, MoneyInv, NEW t \in Threads, Leaves(t)
    PROVE  MoneyInv'
<1>1. /\ job[t] \in Job /\ job[t].pc = "release" /\ JobMoney(t)
      /\ UNCHANGED <<bucket, memo, authorized, cdr, content, nextId, faults>>
      /\ \A u \in Threads \ {t} : job'[u] = job[u]
  BY DEF Leaves, At, Goto, MoneyInv, EngineInv, EngineTypeOK, balanceVars, envVars
<1>2. job'[t].pc \notin Charges /\ JobMoney(t)'
  <2>1. CASE job' = [job EXCEPT ![t] = Idle]
    <3>1. job'[t] = Idle
      BY <2>1 DEF EngineInv, EngineTypeOK
    <3> QED BY <3>1 DEF JobMoney, At, Idle, Finals, Charges
  <2>2. CASE job[t].ref \in active /\ Goto(t, FirstSettlingCall(t))
    <3>1. job'[t] = [job[t] EXCEPT !.pc = FirstSettlingCall(t)]
      BY <2>2 DEF Goto, EngineInv, EngineTypeOK
    <3>2. memo[job[t].ref].freed = 0 /\ memo[job[t].ref].paid = 0
      BY <2>2 DEF SettleInv, SettledOnce
    <3>3. /\ FirstSettlingCall(t) \in {"release_cdr", "unreserve"}
          /\ FirstSettlingCall(t) = "unreserve" => job[t].total > 0
      BY <1>1 DEF FirstSettlingCall, Job
    <3>4. /\ job'[t].pc = FirstSettlingCall(t) /\ job'[t].ref = job[t].ref
          /\ job'[t].supi = job[t].supi /\ job'[t].total = job[t].total
          /\ job'[t].debit = job[t].debit
      BY <1>1, <3>1 DEF Job
    <3> QED BY <1>1, <3>2, <3>3, <3>4 DEF JobMoney, At, Finals, Charges
  <2> QED BY <2>1, <2>2 DEF Leaves
<1>3. \A r \in Refs : /\ HoldOf(job'[t], r) = 0 /\ HoldOf(job[t], r) = 0
                      /\ BackOf(job'[t], r) = 0 /\ BackOf(job[t], r) = 0
                      /\ GivenOf(job'[t], r) = 0 /\ GivenOf(job[t], r) = 0
  <2>1. job[t].pc \notin Charges
    BY <1>1 DEF Charges
  <2> QED BY <1>2, <2>1, NoWeight
<1> QED BY <1>1, <1>2, <1>3, QuietMoney

(* add_reserved: the hold becomes part of the total.                        *)
LEMMA AddReservedMoney ==
    ASSUME EngineInv, EngineInv', MoneyInv, NEW t \in Threads, add_reserved(t)
    PROVE  MoneyInv'
<1> DEFINE q == job[t].ref
           c == job[t].rating.cost
<1>1. /\ job[t] \in Job /\ job[t].pc = "add_reserved" /\ JobMoney(t) /\ c \in Nat
      /\ q \in Refs /\ ~(q > nextId)
  BY HandlerFacts DEF add_reserved, At, MoneyInv, EngineInv, EngineTypeOK, JobOK
<1>2. /\ UNCHANGED <<bucket, memo, authorized, cdr, nextId, faults>>
      /\ \A u \in Threads \ {t} : job'[u] = job[u]
      /\ \A r \in Refs : /\ content'[r].supi = content[r].supi
                         /\ content'[r].reserved = IF r = q THEN content[r].reserved + c
                                                   ELSE content[r].reserved
  BY <1>1 DEF add_reserved, Goto, EngineInv, EngineTypeOK, balanceVars, envVars
<1>3. job'[t] = [job[t] EXCEPT !.pc = "add_granted"]
  BY DEF add_reserved, Goto, EngineInv, EngineTypeOK
<1>4. /\ job'[t].pc = "add_granted" /\ job'[t].ref = q /\ job'[t].supi = job[t].supi
      /\ job'[t].given = job[t].given /\ RowCost(job'[t]) = RowCost(job[t])
      /\ job[t].given \in Nat /\ RowCost(job[t]) \in 0..c
  BY <1>1, <1>3 DEF Job, RowCost
<1>5. ASSUME NEW r \in Refs
      PROVE  /\ BoundsFollow(t, r) /\ Ordered(r)'
             /\ content'[r].reserved >= content[r].reserved
             /\ r > nextId => Untouched(r)'
             /\ "unreserve" \notin memo'[r].failed
  <2>1. /\ memo[r].held \in Int /\ content[r].reserved \in Nat /\ memo[r].freed \in Int
        /\ cdr[r].reserved \in Nat /\ authorized[r] \in Nat /\ Ordered(r)
    BY MoneyTypes DEF MoneyInv
  <2>2. HoldOf(job'[t], r) = 0 /\ HoldOf(job[t], r) = IF r = q THEN c ELSE 0
    BY <1>1, <1>4 DEF HoldOf
  <2>3. /\ GivenOf(job'[t], r) = GivenOf(job[t], r) /\ GivenOf(job[t], r) \in Nat
        /\ BackOf(job[t], r) = GivenOf(job[t], r)
        /\ BackOf(job'[t], r) = IF r = q THEN GivenOf(job[t], r) + RowCost(job[t])
                                ELSE GivenOf(job[t], r)
    BY <1>1, <1>4 DEF GivenOf, BackOf, Charges
  <2> HIDE DEF c
  <2>4. BoundsFollow(t, r)
    BY <1>1, <1>2, <1>4, <2>1, <2>2, <2>3 DEF BoundsFollow
  <2>5. content'[r].reserved >= content[r].reserved /\ Ordered(r)'
    BY <1>1, <1>2, <2>1 DEF Ordered
  <2> QED BY <1>2, <2>4, <2>5 DEF Untouched, MoneyInv, RefundNeverRefused
<1>6. \A s \in Buckets : BucketCovers(s)'
  BY <1>2, BucketQuiet
<1>7. JobMoney(t)'
  BY <1>1, <1>2, <1>4 DEF JobMoney, At, Finals
<1> QED BY <1>2, <1>5, <1>6, <1>7, HandlerMoney

(* What reserve does to the bucket and to the sums of a description.        *)
LEMMA ReserveEffect ==
    ASSUME BalanceTypeOK, NEW b \in Buckets, NEW a \in Int, NEW m \in Memos,
           reserve(b, a, m)
    PROVE  /\ \A x \in Memos \ {m} : memo'[x] = memo[x]
           /\ \A x \in Buckets \ {b} : bucket'[x] = bucket[x]
           /\ memo'[m].paid = memo[m].paid
           /\ ReserveCompletes(b, a) =>
                 /\ bucket'[b].reserved = bucket[b].reserved + a
                 /\ bucket'[b].open /\ memo'[m].failed = memo[m].failed
                 /\ memo'[m].held = memo[m].held + (IF a >= 0 THEN a ELSE 0)
                 /\ memo'[m].freed = memo[m].freed + (IF a >= 0 THEN 0 ELSE -a)
           /\ ~ReserveCompletes(b, a) =>
                 /\ bucket' = bucket
                 /\ memo'[m].held = memo[m].held /\ memo'[m].freed = memo[m].freed
                 /\ memo'[m].failed = memo[m].failed
                       \cup {IF a >= 0 THEN "reserve" ELSE "unreserve"}
<1>1. CASE ReserveCompletes(b, a) /\ a >= 0
  BY <1>1 DEF BalanceTypeOK, reserve, ReserveCompletes
<1>2. CASE ReserveCompletes(b, a) /\ ~(a >= 0)
  <2>1. memo' = [memo EXCEPT ![m].freed = memo[m].freed - a]
    BY <1>2 DEF reserve
  <2>2. /\ \A x \in Memos \ {m} : memo'[x] = memo[x]
        /\ memo'[m].paid = memo[m].paid /\ memo'[m].failed = memo[m].failed
        /\ memo'[m].held = memo[m].held /\ memo'[m].freed = memo[m].freed - a
        /\ memo[m].held \in Int /\ memo[m].freed \in Int
    BY <2>1 DEF BalanceTypeOK
  <2>3. /\ \A x \in Buckets \ {b} : bucket'[x] = bucket[x]
        /\ bucket'[b].reserved = bucket[b].reserved + a /\ bucket'[b].open
    BY <1>2 DEF BalanceTypeOK, reserve, ReserveCompletes
  <2>4. /\ memo'[m].held = memo[m].held + (IF a >= 0 THEN a ELSE 0)
        /\ memo'[m].freed = memo[m].freed + (IF a >= 0 THEN 0 ELSE -a)
    BY <1>2, <2>2
  <2> QED BY <1>2, <2>2, <2>3, <2>4
<1>3. CASE ~ReserveCompletes(b, a)
  BY <1>3 DEF BalanceTypeOK, reserve
<1> QED BY <1>1, <1>2, <1>3

(* The call to /reserveBalance: completed and answered, completed with the  *)
(* answer lost, refused, or never executed.                                 *)
LEMMA ReserveMoney ==
    ASSUME EngineInv, EngineInv', MoneyInv, NEW t \in Threads,
           reserve_subscriber_balance(t)
    PROVE  MoneyInv'
<1> DEFINE q == job[t].ref
           b == job[t].supi
           c == job[t].rating.cost
<1>1. /\ job[t] \in Job /\ job[t].pc = "reserve" /\ JobMoney(t) /\ c \in Nat /\ c > 0
      /\ q \in Refs /\ ~(q > nextId) /\ b \in Buckets /\ content[q].supi = b
      /\ q \in Memos /\ BalanceTypeOK
  <2>1. job[t].pc = "reserve" /\ JobMoney(t) /\ JobOK(t)
    BY DEF reserve_subscriber_balance, At, MoneyInv, EngineInv
  <2>2. /\ job[t] \in Job /\ q \in Refs /\ ~(q > nextId) /\ q \in Memos
    BY <2>1, HandlerFacts DEF At
  <2> QED BY <2>1, <2>2 DEF At, JobMoney, JobOK, EngineInv, EngineTypeOK
<1>2. /\ UNCHANGED <<content, authorized, cdr, nextId>>
      /\ \A u \in Threads \ {t} : job'[u] = job[u]
      /\ faults' = 0 => faults = 0
  BY <1>1 DEF reserve_subscriber_balance, storeVars, EngineInv, EngineTypeOK, Fault, NoFault
<1>3. PICK ok \in BOOLEAN, pc \in {"add_reserved", "cdr"} :
         /\ job'[t] = [job[t] EXCEPT !.ok = ok, !.pc = pc]
         /\ pc = "add_reserved" => reserve(b, c, q) /\ ReserveCompletes(b, c)
         /\ pc = "cdr" => ~ok
  <2>1. CASE reserve(b, c, q) /\ ReserveCompletes(b, c) /\
             job' = [job EXCEPT ![t].ok = TRUE, ![t].pc = "add_reserved"]
    BY <2>1 DEF EngineInv, EngineTypeOK
  <2>2. CASE job' = [job EXCEPT ![t].ok = FALSE, ![t].pc = "cdr"]
    BY <2>2 DEF EngineInv, EngineTypeOK
  <2>3. ReserveCompletes(b, c) \in BOOLEAN
    BY <1>1 DEF ReserveCompletes, BalanceTypeOK
  <2> QED BY <2>1, <2>2, <2>3 DEF reserve_subscriber_balance
<1>4. /\ job'[t].pc = pc /\ job'[t].ref = q /\ job'[t].supi = b /\ job'[t].ok = ok
      /\ job'[t].given = job[t].given /\ job'[t].rating = job[t].rating
      /\ job[t].given \in Nat
  BY <1>1, <1>3 DEF Job
<1>5. \/ /\ reserve(b, c, q) /\ ReserveCompletes(b, c)
      \/ /\ pc = "cdr" /\ UNCHANGED bucket
         /\ \A r \in Refs : /\ memo'[r].held = memo[r].held /\ memo'[r].freed = memo[r].freed
                            /\ memo'[r].paid = memo[r].paid
                            /\ "unreserve" \in memo'[r].failed => "unreserve" \in memo[r].failed
  <2>1. CASE UNCHANGED balanceVars
    <3>1. pc = "cdr" \/ (reserve(b, c, q) /\ ReserveCompletes(b, c))
      BY <1>3
    <3> QED BY <2>1, <3>1 DEF balanceVars
  <2>2. CASE reserve(b, c, q) /\ ~ReserveCompletes(b, c)
    <3>1. pc = "cdr"
      BY <1>3, <2>2
    <3> QED BY <1>1, <2>2, <3>1, ReserveEffect, EngineAssumption
  <2>3. CASE reserve(b, c, q) /\ ReserveCompletes(b, c)
    BY <2>3
  <2> QED BY <2>1, <2>2, <2>3 DEF reserve_subscriber_balance
<1>6. \A r \in Refs :
         /\ memo'[r].held >= memo[r].held + (IF r = q /\ pc = "add_reserved" THEN c ELSE 0)
         /\ memo'[r].held \in Int
         /\ memo'[r].freed = memo[r].freed /\ memo'[r].paid = memo[r].paid
         /\ "unreserve" \in memo'[r].failed => "unreserve" \in memo[r].failed
         /\ r # q => memo'[r].held = memo[r].held
  <2>1. \A r \in Refs : r \in Memos /\ memo[r].held \in Int /\ memo[r].freed \in Int
    BY MoneyTypes
  <2>2. CASE reserve(b, c, q) /\ ReserveCompletes(b, c)
    <3>1. /\ \A x \in Memos \ {q} : memo'[x] = memo[x]
          /\ memo'[q].paid = memo[q].paid /\ memo'[q].failed = memo[q].failed
          /\ memo'[q].held = memo[q].held + (IF c >= 0 THEN c ELSE 0)
          /\ memo'[q].freed = memo[q].freed + (IF c >= 0 THEN 0 ELSE -c)
      BY <1>1, <2>2, ReserveEffect
    <3> HIDE DEF q, c, b
    <3> QED BY <1>1, <2>1, <3>1
  <2>3. CASE ~(reserve(b, c, q) /\ ReserveCompletes(b, c))
    BY <1>5, <2>1, <2>3
  <2> QED BY <2>2, <2>3
<1>7. ASSUME NEW r \in Refs
      PROVE  /\ BoundsFollow(t, r) /\ Ordered(r)'
             /\ content'[r].reserved >= content[r].reserved
             /\ r > nextId => Untouched(r)'
             /\ "unreserve" \notin memo'[r].failed
  <2>1. /\ memo[r].held \in Int /\ content[r].reserved \in Nat
        /\ cdr[r].reserved \in Nat /\ authorized[r] \in Nat
    BY MoneyTypes
  <2>2. HoldOf(job[t], r) = 0 /\
        HoldOf(job'[t], r) = IF r = q /\ pc = "add_reserved" THEN c ELSE 0
    BY <1>1, <1>4 DEF HoldOf
  <2>3. /\ GivenOf(job'[t], r) = GivenOf(job[t], r) /\ GivenOf(job[t], r) \in Nat
        /\ BackOf(job[t], r) = GivenOf(job[t], r)
    BY <1>1, <1>4 DEF GivenOf, BackOf, Charges
  <2>4. BackOf(job'[t], r) = GivenOf(job[t], r)
    <3>1. pc = "cdr" => RowCost(job'[t]) = 0
      BY <1>3, <1>4 DEF RowCost
    <3> QED BY <1>1, <1>4, <2>3, <3>1 DEF BackOf, GivenOf, Charges
  <2>5. BoundsFollow(t, r)
    <3> HIDE DEF q, c, b
    <3> QED BY <1>1, <1>2, <1>6, <2>1, <2>2, <2>3, <2>4 DEF BoundsFollow
  <2> QED BY <1>1, <1>2, <1>6, <2>1, <2>5
          DEF Ordered, Untouched, MoneyInv, RefundNeverRefused
<1>8. \A s \in Buckets : BucketCovers(s)'
  <2>1. CASE reserve(b, c, q) /\ ReserveCompletes(b, c)
    <3>1. /\ \A x \in Memos \ {q} : memo'[x] = memo[x]
          /\ \A x \in Buckets \ {b} : bucket'[x] = bucket[x]
          /\ bucket'[b].reserved = bucket[b].reserved + c /\ bucket'[b].open
          /\ memo'[q].held = memo[q].held + c /\ memo'[q].freed = memo[q].freed
      <4>1. c >= 0 /\ c \in Int /\ memo[q].freed \in Int
        BY <1>1, MoneyTypes
      <4> QED BY <1>1, <2>1, <4>1, ReserveEffect
    <3>2. memo[q].held - memo[q].freed \in Nat /\ memo[q].held \in Int /\ memo[q].freed \in Int
      <4>1. BucketOf(q, b) \in Nat
        BY <1>1, HeldFacts DEF MoneyInv
      <4> QED BY <1>1, <4>1, MoneyTypes DEF BucketOf
    <3>3. /\ memo'[q].held - memo'[q].freed = (memo[q].held - memo[q].freed) + c
          /\ memo'[q].held - memo'[q].freed \in Nat
      BY <1>1, <3>1, <3>2
    <3>4. \A x \in Refs \ {q} : memo'[x] = memo[x]
      BY <3>1, EngineAssumption
    <3>5. c \in Int
      BY <1>1
    <3> HIDE DEF q, b, c
    <3> QED BY <1>1, <1>2, <3>1, <3>3, <3>4, <3>5, BucketMoves
  <2>2. CASE ~(reserve(b, c, q) /\ ReserveCompletes(b, c))
    <3>1. /\ UNCHANGED bucket
          /\ \A r \in Refs : memo'[r].held = memo[r].held /\ memo'[r].freed = memo[r].freed
      BY <1>5, <2>2
    <3> QED BY <1>2, <3>1, BucketQuiet
  <2> QED BY <2>1, <2>2
<1>9. JobMoney(t)'
  BY <1>1, <1>2, <1>4 DEF JobMoney, At, Finals
<1>10. \A u \in Threads \ {t} : job[u].pc \in {"unreserve", "debit"} =>
          /\ memo'[job[u].ref].freed = memo[job[u].ref].freed
          /\ memo'[job[u].ref].paid = memo[job[u].ref].paid
  BY <1>6, HandlerFacts DEF At
<1> QED BY <1>2, <1>7, <1>8, <1>9, <1>10, HandlerMoney

(* The CDR row and the answer: what was given is backed.                    *)
LEMMA RowMoney ==
    ASSUME EngineInv, EngineInv', MoneyInv, NEW t \in Threads,
           write_converged_charging_cdr(t)
    PROVE  MoneyInv'
<1> DEFINE q == job[t].ref
           c == RowCost(job[t])
           n == job[t].left - 1
<1>1. /\ job[t] \in Job /\ job[t].pc = "cdr" /\ JobMoney(t) /\ c \in Nat
      /\ q \in Refs /\ job[t].given \in Nat
  <2>1. job[t].pc = "cdr" /\ JobMoney(t)
    BY DEF write_converged_charging_cdr, At, MoneyInv
  <2>2. job[t] \in Job /\ q \in Refs
    BY <2>1, HandlerFacts DEF At
  <2> QED BY <2>1, <2>2, RowCostType DEF Job
<1>2. /\ UNCHANGED <<bucket, memo, content, authorized, nextId>>
      /\ \A u \in Threads \ {t} : job'[u] = job[u]
      /\ faults' = 0 => faults = 0 /\ cdr' = [cdr EXCEPT ![q].reserved = cdr[q].reserved + c]
  BY DEF write_converged_charging_cdr, storeVars, balanceVars, EngineInv,
     EngineTypeOK, Fault, NoFault
<1>3. job'[t] = [job[t] EXCEPT !.left = n, !.given = job[t].given + c, !.pc = NextUsage(n)]
  BY DEF write_converged_charging_cdr, EngineInv, EngineTypeOK
<1>4. /\ job'[t].pc \in {"rate", "answer"} /\ job'[t].ref = q
      /\ job'[t].supi = job[t].supi /\ job'[t].given = job[t].given + c
  BY <1>1, <1>3 DEF Job, NextUsage
<1>5. ASSUME NEW r \in Refs
      PROVE  /\ BoundsFollow(t, r) /\ Ordered(r)'
             /\ content'[r].reserved >= content[r].reserved
             /\ r > nextId => Untouched(r)'
             /\ "unreserve" \notin memo'[r].failed
  <2>1. /\ memo[r].held \in Int /\ content[r].reserved \in Nat
        /\ cdr[r].reserved \in Nat /\ authorized[r] \in Nat
    BY MoneyTypes
  <2>2. HoldOf(job[t], r) = 0 /\ HoldOf(job'[t], r) = 0
    BY <1>1, <1>4 DEF HoldOf
  <2>3. /\ GivenOf(job'[t], r) = IF r = q THEN job[t].given + c ELSE 0
        /\ GivenOf(job[t], r) = IF r = q THEN job[t].given ELSE 0
        /\ BackOf(job'[t], r) = IF r = q THEN job[t].given + c ELSE 0
        /\ BackOf(job[t], r) = IF r = q THEN job[t].given + c ELSE 0
    BY <1>1, <1>4 DEF GivenOf, BackOf, Charges
  <2>4. faults' = 0 => cdr'[r].reserved = cdr[r].reserved + (IF r = q THEN c ELSE 0)
    BY <1>1, <1>2, <2>1 DEF EngineInv, EngineTypeOK
  <2>5. BoundsFollow(t, r)
    <3> HIDE DEF c, q
    <3> QED BY <1>1, <1>2, <2>1, <2>2, <2>3, <2>4 DEF BoundsFollow
  <2> QED BY <1>2, <2>1, <2>5 DEF Ordered, Untouched, MoneyInv, RefundNeverRefused
<1>6. \A s \in Buckets : BucketCovers(s)'
  BY <1>2, BucketQuiet
<1>7. JobMoney(t)'
  BY <1>1, <1>2, <1>4 DEF JobMoney, At, Finals
<1> QED BY <1>2, <1>5, <1>6, <1>7, HandlerMoney

(* The answer moves what was given from the handler to the consumer.        *)
LEMMA AnswerMoney ==
    ASSUME EngineInv, EngineInv', MoneyInv, NEW t \in Threads, Answers(t)
    PROVE  MoneyInv'
<1> DEFINE q == job[t].ref
<1>1. /\ job[t] \in Job /\ job[t].pc = "answer"
      /\ q \in Refs /\ ~(q > nextId) /\ job[t].given \in Nat
  <2>1. job[t].pc = "answer"
    BY DEF Answers, Authorize, At
  <2> QED BY <2>1, HandlerFacts DEF At, Job
<1>2. /\ UNCHANGED <<bucket, memo, content, cdr, nextId, faults>>
      /\ \A u \in Threads \ {t} : job'[u] = job[u]
      /\ job'[t] = Idle
      /\ \A r \in Refs : authorized'[r] = authorized[r] + (IF r = q THEN job[t].given ELSE 0)
  BY <1>1 DEF Answers, Authorize, storeVars, balanceVars, envVars, EngineInv, EngineTypeOK
<1>3. ASSUME NEW r \in Refs
      PROVE  /\ BoundsFollow(t, r) /\ Ordered(r)'
             /\ content'[r].reserved >= content[r].reserved
             /\ r > nextId => Untouched(r)'
             /\ "unreserve" \notin memo'[r].failed
  <2>1. /\ memo[r].held \in Int /\ content[r].reserved \in Nat
        /\ cdr[r].reserved \in Nat /\ authorized[r] \in Nat
    BY MoneyTypes
  <2>2. HoldOf(job'[t], r) = 0 /\ GivenOf(job'[t], r) = 0 /\ BackOf(job'[t], r) = 0
    <3>1. Idle.pc \notin Charges
      BY DEF Idle, Charges
    <3> QED BY <1>2, <3>1, NoWeight
  <2>3. /\ GivenOf(job[t], r) = IF r = q THEN job[t].given ELSE 0
        /\ BackOf(job[t], r) = IF r = q THEN job[t].given ELSE 0
        /\ HoldOf(job[t], r) = 0
    BY <1>1 DEF GivenOf, BackOf, HoldOf, Charges
  <2>4. BoundsFollow(t, r)
    <3> HIDE DEF q
    <3> QED BY <1>1, <1>2, <2>1, <2>2, <2>3 DEF BoundsFollow
  <2>5. r > nextId => r # q
    BY <1>1
  <2> QED BY <1>2, <2>1, <2>4, <2>5 DEF Ordered, Untouched, MoneyInv, RefundNeverRefused
<1>4. \A s \in Buckets : BucketCovers(s)'
  BY <1>2, BucketQuiet
<1>5. JobMoney(t)'
  BY <1>2 DEF JobMoney, At, Idle, Finals
<1> QED BY <1>2, <1>3, <1>4, <1>5, HandlerMoney

(* No other handler is settling the resource of a handler that is.          *)
LEMMA OnlySettler ==
    ASSUME EngineInv, SettleInv, NEW t \in Threads, Settles(t)
    PROVE  \A u \in Threads \ {t} : job[u].pc \in {"unreserve", "debit"} =>
              job[u].ref # job[t].ref /\ job[u].ref \in Refs
<1> SUFFICES ASSUME NEW u \in Threads \ {t}, job[u].pc \in {"unreserve", "debit"}
             PROVE  job[u].ref # job[t].ref /\ job[u].ref \in Refs
  OBVIOUS
<1>1. Settles(u) /\ ~At(u, "idle")
  BY DEF Settles, At
<1> QED BY <1>1, HandlerFacts DEF SettleInv, SettledOnce

(* The refund: the bucket holds at least the total for this session, so it  *)
(* is never refused, and it is the only one.                                *)
LEMMA UnreserveMoney ==
    ASSUME EngineInv, EngineInv', SettleInv, MoneyInv, NEW t \in Threads, unreserve(t)
    PROVE  MoneyInv'
<1> DEFINE q == job[t].ref
           b == job[t].supi
           n == job[t].total
<1>1. /\ job[t] \in Job /\ job[t].pc = "unreserve" /\ JobMoney(t) /\ n \in Nat /\ n > 0
      /\ q \in Refs /\ ~(q > nextId) /\ b \in Buckets /\ content[q].supi = b
      /\ q \in Memos /\ BalanceTypeOK /\ n <= content[q].reserved
      /\ memo[q].freed = 0 /\ memo[q].paid = 0 /\ Settles(t)
  <2>1. job[t].pc = "unreserve" /\ JobMoney(t) /\ JobOK(t)
    BY DEF unreserve, At, MoneyInv, EngineInv
  <2>2. /\ job[t] \in Job /\ q \in Refs /\ ~(q > nextId) /\ q \in Memos
    BY <2>1, HandlerFacts DEF At
  <2> QED BY <2>1, <2>2 DEF At, JobMoney, JobOK, EngineInv, EngineTypeOK, Finals, Job, Settles
<1>2. /\ UNCHANGED <<content, authorized, cdr, nextId>>
      /\ \A u \in Threads \ {t} : job'[u] = job[u]
      /\ faults' = 0 => faults = 0
  BY <1>1 DEF unreserve, Goto, storeVars, EngineInv, EngineTypeOK, Fault, NoFault
<1>3. content[q].reserved <= memo[q].held /\ memo[q].held \in Int /\ content[q].reserved \in Nat
  BY <1>1, HeldFacts, MoneyTypes DEF MoneyInv
<1>4. ReserveCompletes(b, -n)
  <2> DEFINE w == [r \in Refs |-> BucketOf(r, b)]
  <2>1. w \in [Refs -> Nat]
    BY HeldFacts DEF MoneyInv
  <2>2. /\ bucket[b].reserved \in Int /\ Covered(Refs, w, bucket[b].reserved)
        /\ bucket[b].reserved # 0 => bucket[b].open
    BY <1>1 DEF MoneyInv, BucketCovers, BalanceTypeOK
  <2>3. w[q] = memo[q].held
    BY <1>1, <1>3 DEF BucketOf
  <2>4. w[q] <= bucket[b].reserved
    <3> DEFINE x == bucket[b].reserved
    <3>1. x \in Int /\ Covered(Refs, w, x)
      BY <2>2
    <3> HIDE DEF w, x, q
    <3>2. w[q] <= x
      BY <1>1, <2>1, <3>1, CoveredBound
    <3> QED BY <3>2 DEF x
  <2>5. n <= bucket[b].reserved
    <3> HIDE DEF w, q, b, n
    <3> QED BY <1>1, <1>3, <2>2, <2>3, <2>4
  <2>6. bucket[b].open /\ ~(-n >= 0) /\ bucket[b].reserved >= -(-n)
    <3> HIDE DEF n
    <3> QED BY <1>1, <2>2, <2>5
  <2> QED BY <2>6 DEF ReserveCompletes
<1>5. \/ /\ UNCHANGED balanceVars /\ job'[t] = [job[t] EXCEPT !.pc = "release_cdr"]
      \/ /\ reserve(b, -n, q)
         /\ \E pc \in {"debit", "release_cdr"} :
               /\ job'[t] = [job[t] EXCEPT !.pc = pc]
               /\ pc = "debit" => job[t].debit > 0
  BY DEF unreserve, Goto, EngineInv, EngineTypeOK
<1>6. PICK pc \in {"debit", "release_cdr"} :
         /\ job'[t] = [job[t] EXCEPT !.pc = pc] /\ (pc = "debit" => job[t].debit > 0)
         /\ UNCHANGED balanceVars => pc = "release_cdr" \/ reserve(b, -n, q)
  BY <1>5
<1>7. /\ job'[t].pc = pc /\ job'[t].ref = q /\ job'[t].supi = b /\ job'[t].total = n
      /\ job'[t].debit = job[t].debit
  BY <1>1, <1>6 DEF Job
<1>8. CASE UNCHANGED balanceVars /\ pc = "release_cdr"
  <2>1. \A r \in Refs : /\ HoldOf(job'[t], r) = 0 /\ HoldOf(job[t], r) = 0
                        /\ BackOf(job'[t], r) = 0 /\ BackOf(job[t], r) = 0
                        /\ GivenOf(job'[t], r) = 0 /\ GivenOf(job[t], r) = 0
    <3>1. job[t].pc \notin Charges /\ job'[t].pc \notin Charges
      BY <1>1, <1>7 DEF Charges
    <3> QED BY <3>1, NoWeight
  <2>2. JobMoney(t)'
    BY <1>1, <1>2, <1>7, <1>8 DEF JobMoney, At, Finals
  <2> QED BY <1>2, <1>8, <2>1, <2>2, QuietMoney DEF balanceVars
<1>9. CASE reserve(b, -n, q)
  <2>1. /\ \A x \in Memos \ {q} : memo'[x] = memo[x]
        /\ \A x \in Buckets \ {b} : bucket'[x] = bucket[x]
        /\ memo'[q].paid = 0 /\ memo'[q].freed = n /\ memo'[q].held = memo[q].held
        /\ memo'[q].failed = memo[q].failed
        /\ bucket'[b].reserved = bucket[b].reserved + (-n) /\ bucket'[b].open
    <3>1. -n \in Int /\ ~(-n >= 0) /\ 0 + (-(-n)) = n /\ memo[q].held + 0 = memo[q].held
      BY <1>1, <1>3
    <3>2. /\ memo'[q].held = memo[q].held + 0
          /\ memo'[q].freed = memo[q].freed + (-(-n))
      BY <1>1, <1>4, <1>9, <3>1, ReserveEffect
    <3>3. /\ \A x \in Memos \ {q} : memo'[x] = memo[x]
          /\ \A x \in Buckets \ {b} : bucket'[x] = bucket[x]
          /\ memo'[q].paid = memo[q].paid /\ memo'[q].failed = memo[q].failed
          /\ bucket'[b].reserved = bucket[b].reserved + (-n) /\ bucket'[b].open
      BY <1>1, <1>4, <1>9, <3>1, ReserveEffect
    <3> QED BY <1>1, <3>1, <3>2, <3>3
  <2>2. \A x \in Refs \ {q} : memo'[x] = memo[x]
    BY <2>1, EngineAssumption
  <2>3. ASSUME NEW r \in Refs
        PROVE  /\ BoundsFollow(t, r) /\ Ordered(r)'
               /\ content'[r].reserved >= content[r].reserved
               /\ r > nextId => Untouched(r)'
               /\ "unreserve" \notin memo'[r].failed
    <3>1. /\ memo[r].held \in Int /\ content[r].reserved \in Nat
          /\ cdr[r].reserved \in Nat /\ authorized[r] \in Nat
      BY MoneyTypes
    <3>2. /\ HoldOf(job'[t], r) = 0 /\ HoldOf(job[t], r) = 0
          /\ BackOf(job'[t], r) = 0 /\ BackOf(job[t], r) = 0
          /\ GivenOf(job'[t], r) = 0 /\ GivenOf(job[t], r) = 0
      <4>1. job[t].pc \notin Charges /\ job'[t].pc \notin Charges
        BY <1>1, <1>7 DEF Charges
      <4> QED BY <4>1, NoWeight
    <3>3. memo'[r].held = memo[r].held /\ memo'[r].failed = memo[r].failed
      BY <2>1, <2>2
    <3>4. BoundsFollow(t, r)
      BY <1>2, <3>1, <3>2, <3>3 DEF BoundsFollow
    <3>5. Ordered(r)'
      BY <1>1, <1>2, <2>1, <2>2 DEF Ordered, MoneyInv
    <3>6. r > nextId => Untouched(r)'
      BY <1>1, <1>2, <2>2 DEF Untouched, MoneyInv
    <3> QED BY <1>2, <3>1, <3>3, <3>4, <3>5, <3>6 DEF MoneyInv, RefundNeverRefused
  <2>4. \A s \in Buckets : BucketCovers(s)'
    <3>1. /\ memo'[q].held - memo'[q].freed = (memo[q].held - memo[q].freed) + (-n)
          /\ memo'[q].held - memo'[q].freed \in Nat /\ -n \in Int
      BY <1>1, <1>3, <2>1
    <3> DEFINE a == -n
    <3>2. /\ memo'[q].held - memo'[q].freed = (memo[q].held - memo[q].freed) + a
          /\ a \in Int /\ bucket'[b].reserved = bucket[b].reserved + a
      BY <2>1, <3>1
    <3> HIDE DEF q, b, a
    <3> QED BY <1>1, <1>2, <2>1, <2>2, <3>1, <3>2, BucketMoves
  <2>5. JobMoney(t)'
    BY <1>1, <1>2, <1>6, <1>7, <2>1 DEF JobMoney, At, Finals
  <2>6. \A u \in Threads \ {t} : job[u].pc \in {"unreserve", "debit"} =>
          /\ memo'[job[u].ref].freed = memo[job[u].ref].freed
          /\ memo'[job[u].ref].paid = memo[job[u].ref].paid
    BY <1>1, <2>2, OnlySettler
  <2> QED BY <1>2, <2>3, <2>4, <2>5, <2>6, HandlerMoney
<1> QED BY <1>5, <1>6, <1>8, <1>9

(* What adjust does to the bucket and to the sums of a description.         *)
LEMMA AdjustEffect ==
    ASSUME BalanceTypeOK, NEW b \in Buckets, NEW a \in Int, NEW m \in Memos,
           adjust(b, a, m)
    PROVE  /\ \A x \in Memos \ {m} : memo'[x] = memo[x]
           /\ \A x \in Buckets : /\ bucket'[x].reserved = bucket[x].reserved
                                 /\ bucket'[x].open = bucket[x].open
           /\ memo'[m].held = memo[m].held /\ memo'[m].freed = memo[m].freed
           /\ \/ memo'[m].paid = memo[m].paid - a /\ memo'[m].failed = memo[m].failed
              \/ /\ memo'[m].paid = memo[m].paid
                 /\ memo'[m].failed = memo[m].failed
                       \cup {IF a < 0 THEN "debit" ELSE "credit"}
<1>1. CASE AdjustCompletes(b, a)
  BY <1>1 DEF BalanceTypeOK, adjust
<1>2. CASE ~AdjustCompletes(b, a)
  BY <1>2 DEF BalanceTypeOK, adjust
<1> QED BY <1>1, <1>2

(* The debit: at most what was returned just before, and only once.         *)
LEMMA DebitMoney ==
    ASSUME EngineInv, EngineInv', SettleInv, MoneyInv, NEW t \in Threads, debit(t)
    PROVE  MoneyInv'
<1> DEFINE q == job[t].ref
           b == job[t].supi
           n == job[t].debit
<1>1. /\ job[t] \in Job /\ job[t].pc = "debit" /\ JobMoney(t) /\ n \in Nat /\ n > 0
      /\ q \in Refs /\ ~(q > nextId) /\ b \in Buckets /\ content[q].supi = b
      /\ q \in Memos /\ BalanceTypeOK /\ job[t].total <= content[q].reserved
      /\ n <= job[t].total /\ job[t].total \in Nat
      /\ memo[q].freed = job[t].total /\ memo[q].paid = 0 /\ Settles(t)
  <2>1. job[t].pc = "debit" /\ JobMoney(t) /\ JobOK(t)
    BY DEF debit, At, MoneyInv, EngineInv
  <2>2. /\ job[t] \in Job /\ q \in Refs /\ ~(q > nextId) /\ q \in Memos
    BY <2>1, HandlerFacts DEF At
  <2> QED BY <2>1, <2>2 DEF At, JobMoney, JobOK, EngineInv, EngineTypeOK, Finals, Job, Settles
<1>2. /\ UNCHANGED <<content, authorized, cdr, nextId>>
      /\ \A u \in Threads \ {t} : job'[u] = job[u]
      /\ faults' = 0 => faults = 0
      /\ job'[t] = [job[t] EXCEPT !.pc = "release_cdr"]
  BY <1>1 DEF debit, Goto, storeVars, EngineInv, EngineTypeOK, Fault, NoFault
<1>3. /\ job'[t].pc = "release_cdr" /\ job'[t].ref = q /\ job'[t].supi = b
      /\ job'[t].total = job[t].total
  BY <1>1, <1>2 DEF Job
<1>4. /\ \A x \in Refs \ {q} : memo'[x] = memo[x]
      /\ \A x \in Buckets : /\ bucket'[x].reserved = bucket[x].reserved
                            /\ bucket'[x].open = bucket[x].open
      /\ memo'[q].held = memo[q].held /\ memo'[q].freed = memo[q].freed
      /\ memo'[q].paid \in {0, n}
      /\ "unreserve" \in memo'[q].failed => "unreserve" \in memo[q].failed
  <2>1. CASE UNCHANGED balanceVars
    BY <1>1, <2>1 DEF balanceVars
  <2>2. CASE adjust(b, -n, q)
    <3> DEFINE a == -n
    <3>1. a \in Int /\ a < 0 /\ 0 - a = n
      BY <1>1
    <3>2. adjust(b, a, q)
      BY <2>2
    <3>3. /\ \A x \in Memos \ {q} : memo'[x] = memo[x]
          /\ \A x \in Buckets : /\ bucket'[x].reserved = bucket[x].reserved
                                /\ bucket'[x].open = bucket[x].open
          /\ memo'[q].held = memo[q].held /\ memo'[q].freed = memo[q].freed
          /\ \/ memo'[q].paid = memo[q].paid - a /\ memo'[q].failed = memo[q].failed
             \/ /\ memo'[q].paid = memo[q].paid
                /\ memo'[q].failed = memo[q].failed
                      \cup {IF a < 0 THEN "debit" ELSE "credit"}
      <4> HIDE DEF a, q, b
      <4> QED BY <1>1, <3>1, <3>2, AdjustEffect
    <3> HIDE DEF a
    <3> QED BY <1>1, <3>1, <3>3, EngineAssumption
  <2> QED BY <2>1, <2>2 DEF debit
<1>5. ASSUME NEW r \in Refs
      PROVE  /\ BoundsFollow(t, r) /\ Ordered(r)'
             /\ content'[r].reserved >= content[r].reserved
             /\ r > nextId => Untouched(r)'
             /\ "unreserve" \notin memo'[r].failed
  <2>1. /\ memo[r].held \in Int /\ content[r].reserved \in Nat
        /\ cdr[r].reserved \in Nat /\ authorized[r] \in Nat
    BY MoneyTypes
  <2>2. /\ HoldOf(job'[t], r) = 0 /\ HoldOf(job[t], r) = 0
        /\ BackOf(job'[t], r) = 0 /\ BackOf(job[t], r) = 0
        /\ GivenOf(job'[t], r) = 0 /\ GivenOf(job[t], r) = 0
    <3>1. job[t].pc \notin Charges /\ job'[t].pc \notin Charges
      BY <1>1, <1>3 DEF Charges
    <3> QED BY <3>1, NoWeight
  <2>3. memo'[r].held = memo[r].held /\ "unreserve" \notin memo'[r].failed
    BY <1>4 DEF MoneyInv, RefundNeverRefused
  <2>4. BoundsFollow(t, r)
    BY <1>2, <2>1, <2>2, <2>3 DEF BoundsFollow
  <2>5. Ordered(r)'
    BY <1>1, <1>2, <1>4 DEF Ordered, MoneyInv
  <2>6. r > nextId => Untouched(r)'
    BY <1>1, <1>2, <1>4 DEF Untouched, MoneyInv
  <2> QED BY <1>2, <2>1, <2>3, <2>4, <2>5, <2>6
<1>6. \A s \in Buckets : BucketCovers(s)'
  <2>1. \A r \in Refs : memo'[r].held = memo[r].held /\ memo'[r].freed = memo[r].freed
    BY <1>4
  <2> QED BY <1>2, <1>4, <2>1, BucketQuiet
<1>7. JobMoney(t)'
  BY <1>1, <1>2, <1>3 DEF JobMoney, At, Finals
<1>8. \A u \in Threads \ {t} : job[u].pc \in {"unreserve", "debit"} =>
        /\ memo'[job[u].ref].freed = memo[job[u].ref].freed
        /\ memo'[job[u].ref].paid = memo[job[u].ref].paid
  BY <1>1, <1>4, OnlySettler
<1> QED BY <1>2, <1>5, <1>6, <1>7, <1>8, HandlerMoney

(* The first request of a session: nothing was ever written under the new   *)
(* id, by any thread.                                                       *)
LEMMA CreateMoney ==
    ASSUME EngineInv, EngineInv', MoneyInv, NEW t \in Threads, Creates(t)
    PROVE  MoneyInv'
<1>0. PICK q \in Nat : q = nextId + 1
  BY DEF EngineInv, EngineTypeOK
<1>1. PICK s \in Supis, n \in Nat : create(s) /\ Receive(t, Charging(q, s, n))
  BY <1>0 DEF Creates
<1>2. /\ q \in Refs /\ q > nextId /\ nextId' = q /\ nextId \in Nat
      /\ \A r \in Refs \ {q} : content'[r] = content[r]
      /\ content'[q].supi = s /\ content'[q].reserved = 0
      /\ UNCHANGED <<bucket, memo, cdr, authorized, faults>>
  BY <1>0, <1>1 DEF create, Receive, EngineInv, EngineTypeOK, Refs, balanceVars
<1>3. /\ job'[t] = Charging(q, s, n) /\ job[t].pc = "idle"
      /\ \A u \in Threads \ {t} : job'[u] = job[u]
  BY <1>1 DEF Receive, At, EngineInv, EngineTypeOK
<1>4. /\ job'[t].ref = q /\ job'[t].supi = s /\ job'[t].given = 0
      /\ job'[t].pc \in {"rate", "answer"}
  BY <1>3 DEF Charging, NextUsage, Idle
<1>5. Untouched(q) /\ \A r \in Refs : r > q => r > nextId
  BY <1>2 DEF MoneyInv, Refs
<1>6. \A r : /\ HoldOf(job'[t], r) = 0 /\ GivenOf(job'[t], r) = 0 /\ BackOf(job'[t], r) = 0
             /\ HoldOf(job[t], r) = 0 /\ GivenOf(job[t], r) = 0 /\ BackOf(job[t], r) = 0
  BY <1>3, <1>4, NoWeight DEF HoldOf, GivenOf, BackOf, Charges
<1>7. ASSUME NEW u \in Threads, u # t
      PROVE  /\ HoldOf(job'[u], q) = 0 /\ GivenOf(job'[u], q) = 0 /\ BackOf(job'[u], q) = 0
             /\ JobMoney(u)'
  <2>1. job'[u] = job[u] /\ JobMoney(u)
    BY <1>3, <1>7 DEF MoneyInv
  <2>2. CASE job[u].pc = "idle"
    BY <2>1, <2>2, NoWeight DEF JobMoney, At, Finals, Charges
  <2>3. CASE job[u].pc # "idle"
    <3>1. job[u].ref # q /\ job[u].ref \in Refs
      BY <1>2, <2>3, HandlerFacts DEF At
    <3> QED BY <1>2, <2>1, <3>1 DEF JobMoney, At, HoldOf, GivenOf, BackOf
  <2> QED BY <2>2, <2>3
<1>8. JobMoney(t)'
  BY <1>2, <1>4 DEF JobMoney, At, Finals
<1>9. ASSUME NEW r \in Refs, r # q
      PROVE  /\ Ordered(r)' /\ HoldCovers(r)' /\ TotalCovers(r)' /\ RowsCover(r)'
             /\ r > nextId' => Untouched(r)'
  <2>1. /\ memo[r].held \in Int /\ content[r].reserved \in Nat
        /\ cdr[r].reserved \in Nat /\ authorized[r] \in Nat
    BY MoneyTypes
  <2>2. content'[r] = content[r]
    BY <1>2, <1>9
  <2>3. BoundsFollow(t, r)
    BY <1>2, <1>6, <2>1, <2>2 DEF BoundsFollow
  <2>4. HoldCovers(r)' /\ TotalCovers(r)' /\ RowsCover(r)'
    BY <1>3, <2>3, SumsStep
  <2>5. Ordered(r)' /\ (r > nextId' => Untouched(r)')
    BY <1>2, <1>5, <2>2 DEF Ordered, Untouched, MoneyInv
  <2> QED BY <2>4, <2>5
<1>10. /\ Ordered(q)' /\ HoldCovers(q)' /\ TotalCovers(q)' /\ RowsCover(q)'
       /\ ~(q > nextId')
  <2>1. /\ memo'[q].held = 0 /\ memo'[q].freed = 0 /\ memo'[q].paid = 0
        /\ authorized'[q] = 0 /\ content'[q].reserved = 0 /\ cdr'[q].reserved \in Nat
    BY <1>2, <1>5, MoneyTypes DEF Untouched
  <2>2. \A u \in Threads : /\ HoldOf(job'[u], q) = 0 /\ GivenOf(job'[u], q) = 0
                           /\ BackOf(job'[u], q) = 0
    BY <1>6, <1>7
  <2>3. Ordered(q)' /\ ~(q > nextId')
    BY <1>2, <2>1 DEF Ordered
  <2>4. HoldCovers(q)'
    <3> DEFINE w == [u \in Threads |-> HoldOf(job'[u], q)]
               c == memo'[q].held - content'[q].reserved
    <3>1. (\A u \in Threads : w[u] = 0) /\ c \in Int /\ c >= 0
      BY <2>1, <2>2
    <3>2. Covered(Threads, w, c)
      <4> HIDE DEF w, c
      <4> QED BY <3>1, CoveredZero
    <3> QED BY <3>2 DEF HoldCovers
  <2>5. TotalCovers(q)'
    <3> DEFINE w == [u \in Threads |-> BackOf(job'[u], q)]
               c == content'[q].reserved - authorized'[q]
    <3>1. (\A u \in Threads : w[u] = 0) /\ c \in Int /\ c >= 0
      BY <2>1, <2>2
    <3>2. Covered(Threads, w, c)
      <4> HIDE DEF w, c
      <4> QED BY <3>1, CoveredZero
    <3> QED BY <3>2 DEF TotalCovers
  <2>6. RowsCover(q)'
    <3> DEFINE w == [u \in Threads |-> GivenOf(job'[u], q)]
               c == cdr'[q].reserved - authorized'[q]
    <3>1. (\A u \in Threads : w[u] = 0) /\ c \in Int /\ c >= 0
      BY <2>1, <2>2
    <3>2. Covered(Threads, w, c)
      <4> HIDE DEF w, c
      <4> QED BY <3>1, CoveredZero
    <3> QED BY <3>2 DEF RowsCover
  <2> QED BY <2>3, <2>4, <2>5, <2>6
<1>11. \A s1 \in Buckets : BucketCovers(s1)'
  <2>1. \A r \in Refs : \/ content'[r].supi = content[r].supi
                        \/ memo[r].held = 0 /\ memo[r].freed = 0
    BY <1>2, <1>5 DEF Untouched
  <2> QED BY <1>2, <2>1, BucketQuiet
<1>12. \A r \in Refs : /\ r > nextId' => Untouched(r)'
                       /\ Ordered(r)' /\ HoldCovers(r)' /\ TotalCovers(r)' /\ RowsCover(r)'
  <2> SUFFICES ASSUME NEW r \in Refs
               PROVE  /\ r > nextId' => Untouched(r)'
                      /\ Ordered(r)' /\ HoldCovers(r)' /\ TotalCovers(r)' /\ RowsCover(r)'
    OBVIOUS
  <2>1. CASE r = q
    BY <1>10, <2>1
  <2>2. CASE r # q
    BY <1>9, <2>2
  <2> QED BY <2>1, <2>2
<1>13. RefundNeverRefused'
  BY <1>2 DEF RefundNeverRefused, MoneyInv
<1>14. \A u \in Threads : JobMoney(u)'
  BY <1>7, <1>8
<1> QED BY <1>11, <1>12, <1>13, <1>14 DEF MoneyInv

(* A crash forgets what the handlers had in hand; the stores keep covering  *)
(* what they had answered.                                                  *)
LEMMA CrashMoney ==
    ASSUME EngineInv, EngineInv', MoneyInv, Crash
    PROVE  MoneyInv'
<1>1. /\ UNCHANGED <<bucket, memo, content, cdr, authorized, nextId>>
      /\ faults' # 0 /\ \A t \in Threads : job'[t] = Idle
  BY DEF Crash, Fault, balanceVars, storeVars, EngineInv, EngineTypeOK
<1>2. \A t \in Threads : JobMoney(t)'
  BY <1>1 DEF JobMoney, At, Idle, Finals
<1>3. ASSUME NEW r \in Refs
      PROVE  /\ r > nextId' => Untouched(r)'
             /\ Ordered(r)' /\ HoldCovers(r)' /\ TotalCovers(r)' /\ RowsCover(r)'
  <2>1. \A t \in Threads : HoldOf(job'[t], r) = 0 /\ BackOf(job'[t], r) = 0
    <3>1. Idle.pc \notin Charges
      BY DEF Idle, Charges
    <3> QED BY <1>1, <3>1, NoWeight
  <2>2. HoldCovers(r)'
    <3> DEFINE w == [t \in Threads |-> HoldOf(job[t], r)]
               v == [t \in Threads |-> HoldOf(job'[t], r)]
               c == memo[r].held - content[r].reserved
    <3>1. /\ (\A t \in Threads : v[t] = 0) /\ c \in Int /\ w \in [Threads -> Nat]
          /\ Covered(Threads, w, c)
      BY <2>1, WeightTypes, MoneyTypes DEF MoneyInv, HoldCovers
    <3>2. Covered(Threads, v, c)
      <4> HIDE DEF w, v, c
      <4> QED BY <3>1, CoveredZero, CoveredBound
    <3> QED BY <1>1, <3>2 DEF HoldCovers
  <2>3. TotalCovers(r)'
    <3> SUFFICES ASSUME content[r].supi # NoSupi
                 PROVE  Covered(Threads, [t \in Threads |-> BackOf(job'[t], r)],
                                content[r].reserved - authorized[r])
      BY <1>1 DEF TotalCovers
    <3> DEFINE w == [t \in Threads |-> BackOf(job[t], r)]
               v == [t \in Threads |-> BackOf(job'[t], r)]
               c == content[r].reserved - authorized[r]
    <3>1. /\ (\A t \in Threads : v[t] = 0) /\ c \in Int /\ w \in [Threads -> Nat]
          /\ Covered(Threads, w, c)
      <4>1. TotalCovers(r)
        BY DEF MoneyInv
      <4>2. c \in Int
        BY MoneyTypes
      <4>5. w \in [Threads -> Nat]
        BY WeightTypes
      <4>3. \A t \in Threads : v[t] = 0
        BY <2>1
      <4>4. Covered(Threads, w, c)
        BY <4>1 DEF TotalCovers
      <4> QED BY <4>2, <4>3, <4>4, <4>5
    <3>2. Covered(Threads, v, c)
      <4> HIDE DEF w, v, c
      <4> QED BY <3>1, CoveredZero, CoveredBound
    <3> QED BY <3>2
  <2>4. RowsCover(r)'
    BY <1>1 DEF RowsCover
  <2>5. Ordered(r)' /\ (r > nextId' => Untouched(r)')
    BY <1>1 DEF MoneyInv, Ordered, Untouched
  <2> QED BY <2>2, <2>3, <2>4, <2>5
<1>4. \A s \in Buckets : BucketCovers(s)'
  BY <1>1, BucketQuiet
<1>5. RefundNeverRefused'
  BY <1>1 DEF RefundNeverRefused, MoneyInv
<1> QED BY <1>2, <1>3, <1>4, <1>5 DEF MoneyInv

(* Top-ups and customer care neither reserve nor act for a session.         *)
LEMMA OthersMoney ==
    ASSUME EngineInv, MoneyInv, NEW s \in Buckets, TopUp(s) \/ CareDebit(s)
    PROVE  MoneyInv'
<1>1. UNCHANGED <<content, cdr, job, authorized, nextId, faults>>
  BY DEF TopUp, CareDebit, storeVars
<1>2. /\ \A r \in Refs : memo'[r] = memo[r]
      /\ \A x \in Buckets : /\ bucket'[x].reserved = bucket[x].reserved
                            /\ bucket[x].open => bucket'[x].open
  <2>1. CASE TopUp(s)
    BY <2>1 DEF TopUp, topup, EngineInv, EngineTypeOK, BalanceTypeOK
  <2>2. CASE CareDebit(s)
    <3>1. PICK a \in CareAmounts : adjust(s, -a, Care)
      BY <2>2 DEF CareDebit
    <3>2. -a \in Int /\ Care \in Memos /\ BalanceTypeOK
      BY EngineAssumption DEF EngineInv, EngineTypeOK
    <3>3. \A r \in Refs : r \in Memos \ {Care}
      BY EngineAssumption DEF Refs, Care
    <3>4. /\ \A x \in Memos \ {Care} : memo'[x] = memo[x]
          /\ \A x \in Buckets : /\ bucket'[x].reserved = bucket[x].reserved
                                /\ bucket'[x].open = bucket[x].open
      <4> DEFINE n == -a
                 m == Care
      <4>1. adjust(s, n, m) /\ n \in Int /\ m \in Memos
        BY <3>1, <3>2
      <4>2. /\ \A x \in Memos \ {m} : memo'[x] = memo[x]
            /\ \A x \in Buckets : /\ bucket'[x].reserved = bucket[x].reserved
                                  /\ bucket'[x].open = bucket[x].open
        <5> HIDE DEF n, m
        <5> QED BY <3>2, <4>1, AdjustEffect
      <4> QED BY <4>2
    <3> QED BY <3>3, <3>4
  <2> QED BY <2>1, <2>2
<1>3. \A x \in Buckets : BucketCovers(x)'
  BY <1>1, <1>2, BucketQuiet
<1>4. \A t \in Threads : JobMoney(t)'
  <2> SUFFICES ASSUME NEW t \in Threads PROVE JobMoney(t)'
    OBVIOUS
  <2>1. job'[t] = job[t] /\ JobMoney(t)
    BY <1>1 DEF MoneyInv
  <2>2. ~At(t, "idle") => memo'[job[t].ref] = memo[job[t].ref]
    BY <1>2, HandlerFacts
  <2> QED BY <1>1, <2>1, <2>2 DEF JobMoney, At, Finals
<1>5. \A r \in Refs : /\ r > nextId' => Untouched(r)'
                      /\ Ordered(r)' /\ HoldCovers(r)' /\ TotalCovers(r)' /\ RowsCover(r)'
  BY <1>1, <1>2 DEF MoneyInv, Untouched, Ordered, HoldCovers, TotalCovers, RowsCover
<1>6. RefundNeverRefused'
  BY <1>2 DEF RefundNeverRefused, MoneyInv
<1> QED BY <1>3, <1>4, <1>5, <1>6 DEF MoneyInv

(* MoneyInv is inductive.                                                   *)
LEMMA MoneyInvStep ==
    EngineInv /\ SettleInv /\ MoneyInv /\ [EngineNext]_engineVars => MoneyInv'
<1> SUFFICES ASSUME EngineInv, SettleInv, MoneyInv, [EngineNext]_engineVars
             PROVE  MoneyInv'
  OBVIOUS
<1>1. EngineInv'
  BY EngineInvStep
<1>2. ASSUME NEW t \in Threads,
             \/ Starts(t) \/ Creates(t) \/ Answers(t) \/ Proportions(t) \/ Leaves(t)
             \/ Ends(t) \/ Drops(t) \/ ChargeStep(t) \/ SettleStep(t)
      PROVE  MoneyInv'
  BY <1>1, <1>2, StartMoney, CreateMoney, AnswerMoney, GrantMoney, LeaveMoney, ReturnMoney,
     RateMoney, ReserveMoney, AddReservedMoney, RowMoney, UnreserveMoney, DebitMoney
     DEF ChargeStep, SettleStep
<1>3. CASE UNCHANGED engineVars
  BY <1>3 DEF engineVars, MoneyInv, JobMoney, At, Untouched, Ordered, HoldCovers,
     TotalCovers, RowsCover, BucketCovers, BucketOf, RefundNeverRefused
<1> QED BY <1>1, <1>2, <1>3, CrashMoney, OthersMoney DEF EngineNext

(* Initially there is no money anywhere.                                    *)
LEMMA MoneyInitial == EngineInit => MoneyInv
<1> SUFFICES ASSUME EngineInit PROVE MoneyInv
  OBVIOUS
<1>1. /\ \A r \in Refs : /\ memo[r].held = 0 /\ memo[r].freed = 0 /\ memo[r].paid = 0
                         /\ memo[r].failed = {} /\ authorized[r] = 0
                         /\ content[r].reserved = 0 /\ cdr[r].reserved = 0
      /\ \A t \in Threads : job[t] = Idle
      /\ \A s \in Buckets : bucket[s].reserved = 0
  BY EngineAssumption DEF EngineInit, BalanceInit
<1>2. \A t \in Threads : \A r : HoldOf(job[t], r) = 0 /\ BackOf(job[t], r) = 0
                                /\ GivenOf(job[t], r) = 0
  <2>1. Idle.pc \notin Charges
    BY DEF Idle, Charges
  <2> QED BY <1>1, <2>1, NoWeight
<1>3. \A t \in Threads : JobMoney(t)
  BY <1>1 DEF JobMoney, At, Idle, Finals
<1>4. ASSUME NEW r \in Refs
      PROVE  /\ Untouched(r) /\ Ordered(r)
             /\ HoldCovers(r) /\ TotalCovers(r) /\ RowsCover(r)
  <2>1. /\ memo[r].held - content[r].reserved = 0
        /\ content[r].reserved - authorized[r] = 0 /\ cdr[r].reserved - authorized[r] = 0
    BY <1>1
  <2>2. ASSUME NEW w, \A t \in Threads : w[t] = 0 PROVE Covered(Threads, w, 0)
    BY <2>2, CoveredZero
  <2> DEFINE w1 == [t \in Threads |-> HoldOf(job[t], r)]
             w2 == [t \in Threads |-> BackOf(job[t], r)]
             w3 == [t \in Threads |-> GivenOf(job[t], r)]
  <2>3. \A t \in Threads : w1[t] = 0 /\ w2[t] = 0 /\ w3[t] = 0
    BY <1>2
  <2>4. Covered(Threads, w1, 0) /\ Covered(Threads, w2, 0) /\ Covered(Threads, w3, 0)
    <3> HIDE DEF w1, w2, w3
    <3> QED BY <2>2, <2>3
  <2>5. HoldCovers(r) /\ TotalCovers(r) /\ RowsCover(r)
    BY <2>1, <2>4 DEF HoldCovers, TotalCovers, RowsCover
  <2> QED BY <1>1, <2>5 DEF Untouched, Ordered
<1>5. ASSUME NEW s \in Buckets PROVE BucketCovers(s)
  <2> DEFINE w == [r \in Refs |-> BucketOf(r, s)]
  <2>1. \A r \in Refs : w[r] = 0
    BY <1>1 DEF BucketOf
  <2>2. Covered(Refs, w, 0)
    <3> HIDE DEF w
    <3> QED BY <2>1, CoveredZero
  <2> QED BY <1>1, <2>2 DEF BucketCovers
<1>6. RefundNeverRefused
  BY <1>1 DEF RefundNeverRefused
<1> QED BY <1>3, <1>4, <1>5, <1>6 DEF MoneyInv

(* What the invariant of the money says of a session.                       *)
LEMMA MoneyFollows ==
    ASSUME EngineInv, MoneyInv
    PROVE  NeverOvercharged /\ RefundNeverRefused /\ GrantsBacked
<1>1. NeverOvercharged
  BY HeldFacts DEF NeverOvercharged, MoneyInv, Ordered
<1>2. ASSUME NEW r \in Refs, content[r].supi # NoSupi
      PROVE  authorized[r] <= content[r].reserved
  <2> DEFINE w == [t \in Threads |-> BackOf(job[t], r)]
             c == content[r].reserved - authorized[r]
  <2>1. c \in Int /\ w \in [Threads -> Nat] /\ Covered(Threads, w, c)
    <3>1. TotalCovers(r)
      BY DEF MoneyInv
    <3>2. c \in Int
      BY MoneyTypes
    <3>4. w \in [Threads -> Nat]
      BY WeightTypes
    <3>3. Covered(Threads, w, c)
      BY <1>2, <3>1 DEF TotalCovers
    <3> QED BY <3>2, <3>3, <3>4
  <2>2. c >= 0
    <3> HIDE DEF c, w
    <3> QED BY <2>1, CoveredBound
  <2> QED BY <2>2, MoneyTypes
<1>3. ASSUME NEW r \in Refs, faults = 0
      PROVE  authorized[r] <= cdr[r].reserved
  <2> DEFINE w == [t \in Threads |-> GivenOf(job[t], r)]
             c == cdr[r].reserved - authorized[r]
  <2>1. c \in Int /\ w \in [Threads -> Nat] /\ Covered(Threads, w, c)
    <3>1. RowsCover(r)
      BY DEF MoneyInv
    <3>2. c \in Int
      BY MoneyTypes
    <3>4. w \in [Threads -> Nat]
      BY WeightTypes
    <3>3. Covered(Threads, w, c)
      BY <1>3, <3>1 DEF RowsCover
    <3> QED BY <3>2, <3>3, <3>4
  <2>2. c >= 0
    <3> HIDE DEF c, w
    <3> QED BY <2>1, CoveredBound
  <2> QED BY <2>2, MoneyTypes
<1> QED BY <1>1, <1>2, <1>3 DEF GrantsBacked, MoneyInv

---------------------------------------------------------------------------
(* The steps of the engine seen as steps of the abstract charging session.  *)

(* A step that opens and closes nothing and changes no sum.                 *)
LEMMA SessionStutter ==
    ASSUME UNCHANGED <<nextId, active>>,
           \A r \in Refs : /\ memo'[r].held = memo[r].held
                           /\ memo'[r].freed = memo[r].freed
                           /\ memo'[r].paid = memo[r].paid
    PROVE  UNCHANGED Session!svars
BY DEF Session!svars, phase

LEMMA SessionOpens ==
    ASSUME EngineInv, NEW t \in Threads, Creates(t)
    PROVE  Session!Next
<1>0. PICK q \in Nat : q = nextId + 1
  BY DEF EngineInv, EngineTypeOK
<1>1. /\ q \in Refs /\ nextId' = q /\ active' = active \cup {q} /\ UNCHANGED memo
  <2>1. nextId \in Nat /\ MaxRefs \in Nat
    BY EngineAssumption DEF EngineInv, EngineTypeOK
  <2>2. nextId < MaxRefs /\ nextId' = q /\ active' = active \cup {q} /\ UNCHANGED memo
    BY <1>0 DEF Creates, create, Receive, balanceVars
  <2> QED BY <1>0, <2>1, <2>2 DEF Refs
<1>2. nextId \in Nat /\ active \subseteq 1..nextId
  BY DEF EngineInv, EngineTypeOK
<1>3. phase[q] = "none" /\ phase' = [phase EXCEPT ![q] = "open"]
  <2>1. q > nextId /\ ~(q > nextId')
    BY <1>0, <1>1, <1>2
  <2>2. \A r \in Refs \ {q} : r > nextId <=> r > nextId'
    BY <1>0, <1>1, <1>2 DEF Refs
  <2> QED BY <1>1, <2>1, <2>2 DEF phase
<1>4. Session!Open(q)
  BY <1>1, <1>3 DEF Session!Open
<1> QED BY <1>1, <1>4 DEF Session!Next

LEMMA SessionCloses ==
    ASSUME EngineInv, NEW t \in Threads, Leaves(t)
    PROVE  Session!Next \/ UNCHANGED Session!svars
<1> DEFINE q == job[t].ref
<1>1. UNCHANGED <<memo, nextId>> /\ q \in Refs /\ ~(q > nextId)
  BY HandlerFacts DEF Leaves, At, balanceVars
<1>2. CASE UNCHANGED active
  BY <1>1, <1>2, SessionStutter
<1>3. CASE q \in active /\ active' = active \ {q}
  <2>1. phase[q] = "open" /\ phase' = [phase EXCEPT ![q] = "closed"]
    BY <1>1, <1>3 DEF phase
  <2>2. Session!Close(q)
    BY <1>1, <2>1 DEF Session!Close
  <2> QED BY <1>1, <2>2 DEF Session!Next
<1> QED BY <1>2, <1>3 DEF Leaves

LEMMA SessionHolds ==
    ASSUME EngineInv, MoneyInv, NEW t \in Threads, reserve_subscriber_balance(t)
    PROVE  Session!Next \/ UNCHANGED Session!svars
<1> DEFINE q == job[t].ref
           b == job[t].supi
           c == job[t].rating.cost
<1>1. /\ job[t].pc = "reserve" /\ c \in Nat /\ c > 0 /\ b \in Buckets
      /\ q \in Refs /\ ~(q > nextId) /\ q \in Memos /\ BalanceTypeOK
      /\ UNCHANGED <<nextId, active>>
  <2>1. job[t].pc = "reserve" /\ JobMoney(t) /\ JobOK(t)
    BY DEF reserve_subscriber_balance, At, MoneyInv, EngineInv
  <2>2. /\ q \in Refs /\ ~(q > nextId) /\ q \in Memos
    BY <2>1, HandlerFacts DEF At
  <2> QED BY <2>1, <2>2 DEF At, JobMoney, JobOK, EngineInv, EngineTypeOK,
      reserve_subscriber_balance, storeVars
<1>2. CASE UNCHANGED balanceVars
  BY <1>1, <1>2, SessionStutter DEF balanceVars
<1>3. CASE reserve(b, c, q)
  <2>1. /\ \A x \in Memos \ {q} : memo'[x] = memo[x]
        /\ memo'[q].paid = memo[q].paid
        /\ ReserveCompletes(b, c) => /\ memo'[q].held = memo[q].held + c
                                     /\ memo'[q].freed = memo[q].freed + 0
        /\ ~ReserveCompletes(b, c) =>
              memo'[q].held = memo[q].held /\ memo'[q].freed = memo[q].freed
    <3> HIDE DEF q, b, c
    <3> QED BY <1>1, <1>3, ReserveEffect
  <2>2. \A x \in Refs \ {q} : memo'[x] = memo[x]
    BY <2>1, EngineAssumption
  <2>3. memo[q].held \in Int /\ memo[q].freed \in Int
    BY <1>1 DEF BalanceTypeOK
  <2>4. CASE ~ReserveCompletes(b, c)
    BY <1>1, <2>1, <2>2, <2>4, SessionStutter
  <2>5. CASE ReserveCompletes(b, c)
    <3>1. memo'[q].held > memo[q].held /\ memo'[q].freed = memo[q].freed
      <4> HIDE DEF c
      <4> QED BY <1>1, <2>1, <2>3, <2>5
    <3>2. phase[q] # "none" /\ phase' = phase
      BY <1>1 DEF phase
    <3>3. PICK r \in Refs : r = q
      BY <1>1
    <3>4. Session!Hold(r)
      <4> HIDE DEF q
      <4> QED BY <1>1, <2>1, <2>2, <3>1, <3>2, <3>3 DEF Session!Hold
    <3> QED BY <3>4 DEF Session!Next
  <2> QED BY <2>4, <2>5
<1> QED BY <1>2, <1>3 DEF reserve_subscriber_balance

LEMMA SessionReturns ==
    ASSUME EngineInv, SettleInv, MoneyInv, NEW t \in Threads, unreserve(t)
    PROVE  Session!Next \/ UNCHANGED Session!svars
<1> DEFINE q == job[t].ref
           b == job[t].supi
           n == job[t].total
<1>1. /\ job[t].pc = "unreserve" /\ n \in Nat /\ n > 0 /\ b \in Buckets
      /\ q \in Refs /\ ~(q > nextId) /\ q \in Memos /\ BalanceTypeOK
      /\ UNCHANGED <<nextId, active>> /\ q \notin active
      /\ n <= content[q].reserved /\ memo[q].freed = 0
  <2>1. job[t].pc = "unreserve" /\ JobMoney(t) /\ JobOK(t)
    BY DEF unreserve, At, MoneyInv, EngineInv
  <2>2. /\ job[t] \in Job /\ q \in Refs /\ ~(q > nextId) /\ q \in Memos
    BY <2>1, HandlerFacts DEF At
  <2>3. q \notin active
    BY <2>1 DEF SettleInv, Settles
  <2> QED BY <2>1, <2>2, <2>3 DEF At, JobMoney, JobOK, EngineInv, EngineTypeOK,
      unreserve, storeVars, Job, Finals
<1>2. CASE UNCHANGED balanceVars
  BY <1>1, <1>2, SessionStutter DEF balanceVars
<1>3. CASE reserve(b, -n, q)
  <2>1. /\ \A x \in Memos \ {q} : memo'[x] = memo[x]
        /\ memo'[q].paid = memo[q].paid
        /\ \/ memo'[q].held = memo[q].held + 0 /\ memo'[q].freed = memo[q].freed + (-(-n))
           \/ memo'[q].held = memo[q].held /\ memo'[q].freed = memo[q].freed
    <3> DEFINE a == -n
    <3>1. a \in Int /\ ~(a >= 0) /\ reserve(b, a, q)
      BY <1>1, <1>3
    <3>2. /\ \A x \in Memos \ {q} : memo'[x] = memo[x]
          /\ memo'[q].paid = memo[q].paid
          /\ \/ memo'[q].held = memo[q].held + 0 /\ memo'[q].freed = memo[q].freed + (-a)
             \/ memo'[q].held = memo[q].held /\ memo'[q].freed = memo[q].freed
      <4> HIDE DEF q, b, a
      <4> QED BY <1>1, <3>1, ReserveEffect
    <3> QED BY <3>2
  <2>2. \A x \in Refs \ {q} : memo'[x] = memo[x]
    BY <2>1, EngineAssumption
  <2>3. content[q].reserved <= memo[q].held /\ memo[q].held \in Int
        /\ content[q].reserved \in Nat
    BY <1>1, HeldFacts, MoneyTypes DEF MoneyInv
  <2>4. CASE memo'[q].held = memo[q].held /\ memo'[q].freed = memo[q].freed
    BY <1>1, <2>1, <2>2, <2>4, SessionStutter
  <2>5. CASE memo'[q].held = memo[q].held + 0 /\ memo'[q].freed = memo[q].freed + (-(-n))
    <3>1. memo'[q].held = memo[q].held /\ memo'[q].freed \in 1..memo[q].held
      <4> HIDE DEF n
      <4> QED BY <1>1, <2>3, <2>5
    <3>2. phase[q] = "closed" /\ phase' = phase
      BY <1>1 DEF phase
    <3>3. PICK r \in Refs : r = q
      BY <1>1
    <3>4. Session!Return(r)
      <4> HIDE DEF q
      <4> QED BY <1>1, <2>1, <2>2, <3>1, <3>2, <3>3 DEF Session!Return
    <3> QED BY <3>4 DEF Session!Next
  <2> QED BY <2>1, <2>4, <2>5
<1> QED BY <1>2, <1>3 DEF unreserve

LEMMA SessionPays ==
    ASSUME EngineInv, SettleInv, MoneyInv, NEW t \in Threads, debit(t)
    PROVE  Session!Next \/ UNCHANGED Session!svars
<1> DEFINE q == job[t].ref
           b == job[t].supi
           n == job[t].debit
<1>1. /\ job[t].pc = "debit" /\ n \in Nat /\ n > 0 /\ b \in Buckets
      /\ q \in Refs /\ ~(q > nextId) /\ q \in Memos /\ BalanceTypeOK
      /\ UNCHANGED <<nextId, active>> /\ q \notin active
      /\ n <= job[t].total /\ job[t].total \in Nat
      /\ memo[q].freed = job[t].total /\ memo[q].paid = 0
  <2>1. job[t].pc = "debit" /\ JobMoney(t) /\ JobOK(t)
    BY DEF debit, At, MoneyInv, EngineInv
  <2>2. /\ job[t] \in Job /\ q \in Refs /\ ~(q > nextId) /\ q \in Memos
    BY <2>1, HandlerFacts DEF At
  <2>3. q \notin active
    BY <2>1 DEF SettleInv, Settles
  <2> QED BY <2>1, <2>2, <2>3 DEF At, JobMoney, JobOK, EngineInv, EngineTypeOK,
      debit, storeVars, Job
<1>2. CASE UNCHANGED balanceVars
  BY <1>1, <1>2, SessionStutter DEF balanceVars
<1>3. CASE adjust(b, -n, q)
  <2>1. /\ \A x \in Memos \ {q} : memo'[x] = memo[x]
        /\ memo'[q].held = memo[q].held /\ memo'[q].freed = memo[q].freed
        /\ memo'[q].paid = memo[q].paid \/ memo'[q].paid = memo[q].paid - (-n)
    <3> DEFINE a == -n
    <3>1. a \in Int /\ adjust(b, a, q)
      BY <1>1, <1>3
    <3>2. /\ \A x \in Memos \ {q} : memo'[x] = memo[x]
          /\ memo'[q].held = memo[q].held /\ memo'[q].freed = memo[q].freed
          /\ memo'[q].paid = memo[q].paid \/ memo'[q].paid = memo[q].paid - a
      <4> HIDE DEF q, b, a
      <4> QED BY <1>1, <3>1, AdjustEffect
    <3> QED BY <3>2
  <2>2. \A x \in Refs \ {q} : memo'[x] = memo[x]
    BY <2>1, EngineAssumption
  <2>3. CASE memo'[q].paid = memo[q].paid
    BY <1>1, <2>1, <2>2, <2>3, SessionStutter
  <2>4. CASE memo'[q].paid = memo[q].paid - (-n)
    <3>1. memo'[q].paid \in 1..memo[q].freed
      <4> HIDE DEF n
      <4> QED BY <1>1, <2>4
    <3>2. phase[q] = "closed" /\ phase' = phase
      BY <1>1 DEF phase
    <3>3. PICK r \in Refs : r = q
      BY <1>1
    <3>4. Session!Pay(r)
      <4> HIDE DEF q
      <4> QED BY <1>1, <2>1, <2>2, <3>1, <3>2, <3>3 DEF Session!Pay
    <3> QED BY <3>4 DEF Session!Next
  <2> QED BY <2>1, <2>3, <2>4
<1> QED BY <1>2, <1>3 DEF debit

(* Every other step of the engine is invisible to the session.              *)
LEMMA SessionStep ==
    ASSUME EngineInv, SettleInv, MoneyInv, [EngineNext]_engineVars
    PROVE  [Session!Next]_(Session!svars)
<1>1. ASSUME NEW t \in Threads,
             \/ Starts(t) \/ Answers(t) \/ Proportions(t) \/ Ends(t) \/ Drops(t)
             \/ build_rating_grant(t) \/ add_reserved(t) \/ add_granted(t)
             \/ write_converged_charging_cdr(t)
      PROVE  UNCHANGED Session!svars
  <2>1. UNCHANGED <<nextId, active, memo>>
    BY <1>1 DEF Starts, Receive, Answers, Proportions, get_granted, Ends, write_release_cdr,
       Drops, build_rating_grant, add_reserved, add_granted, write_converged_charging_cdr,
       balanceVars, storeVars
  <2> QED BY <2>1, SessionStutter
<1>2. ASSUME NEW s \in Buckets, TopUp(s) \/ CareDebit(s)
      PROVE  UNCHANGED Session!svars
  <2>1. UNCHANGED <<nextId, active>>
    BY <1>2 DEF TopUp, CareDebit, storeVars
  <2>2. \A r \in Refs : memo'[r] = memo[r]
    <3>1. CASE TopUp(s)
      BY <3>1 DEF TopUp, topup
    <3>2. CASE CareDebit(s)
      <4>1. PICK a \in CareAmounts : adjust(s, -a, Care)
        BY <3>2 DEF CareDebit
      <4>2. -a \in Int /\ Care \in Memos /\ BalanceTypeOK
        BY EngineAssumption DEF EngineInv, EngineTypeOK
      <4>3. \A r \in Refs : r \in Memos \ {Care}
        BY EngineAssumption DEF Refs, Care
      <4> QED BY <4>1, <4>2, <4>3, MemoFrame
    <3> QED BY <1>2, <3>1, <3>2
  <2> QED BY <2>1, <2>2, SessionStutter
<1>3. ASSUME Crash \/ UNCHANGED engineVars PROVE UNCHANGED Session!svars
  <2>1. UNCHANGED <<nextId, active, memo>>
    BY <1>3 DEF Crash, engineVars, balanceVars, storeVars
  <2> QED BY <2>1, SessionStutter
<1> QED BY <1>1, <1>2, <1>3, SessionOpens, SessionCloses, SessionHolds, SessionReturns,
        SessionPays DEF EngineNext, ChargeStep, SettleStep

LEMMA SessionInitial == EngineInit => Session!Init
<1> SUFFICES ASSUME EngineInit PROVE Session!Init
  OBVIOUS
<1>1. \A r \in Refs : /\ memo[r].held = 0 /\ memo[r].freed = 0 /\ memo[r].paid = 0
                      /\ r > nextId
  <2>1. nextId = 0 /\ \A r \in Refs : r > 0 /\ r \in Memos
    BY EngineAssumption DEF EngineInit, Refs
  <2> QED BY <2>1 DEF EngineInit, BalanceInit
<1> QED BY <1>1 DEF Session!Init, Session!Zero, phase
===========================================================================
