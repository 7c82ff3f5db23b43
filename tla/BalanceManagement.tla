------------------------ MODULE BalanceManagement ------------------------
(***************************************************************************)
(* bss/balance-management: the TMF654 balance store every charging         *)
(* function of the network reserves against and debits.  BalanceStore runs *)
(* each operation under its mutex and in one PostgreSQL transaction, so an *)
(* operation is one atomic action: the conditional UPDATE of the bucket    *)
(* row and the INSERT of the action row, completed or failed, together.    *)
(*                                                                         *)
(* A bucket belongs to one subscriber (its id is the SUPI).  The rows of   *)
(* the three action tables are kept as the two sums the properties need:   *)
(* per bucket over the completed rows of each table (ledger), and per      *)
(* description, which names the charging session the CHF acts for (memo).  *)
(***************************************************************************)
EXTENDS Integers

CONSTANTS
    Buckets,    \* bucket ids: the SUPIs of the subscribers
    Memos       \* what the description of an action row refers to

VARIABLES
    bucket,     \* the bucket table: open (the row exists), remaining, reserved
    ledger,     \* per bucket, the sum of the completed rows of each table
    memo        \* per description: completed holds, releases and debits, and
                \* the kinds of action that were answered "failed"

balanceVars == <<bucket, ledger, memo>>

Kinds == {"reserve", "unreserve", "debit", "credit"}

BalanceTypeOK ==
    /\ bucket \in [Buckets -> [open : BOOLEAN, remaining : Int, reserved : Int]]
    /\ ledger \in [Buckets -> [topup : Int, adjust : Int, reserve : Int]]
    /\ memo \in [Memos -> [held : Int, freed : Int, paid : Int,
                           failed : SUBSET Kinds]]

BalanceInit ==
    /\ bucket = [b \in Buckets |->
                   [open |-> FALSE, remaining |-> 0, reserved |-> 0]]
    /\ ledger = [b \in Buckets |-> [topup |-> 0, adjust |-> 0, reserve |-> 0]]
    /\ memo = [m \in Memos |->
                 [held |-> 0, freed |-> 0, paid |-> 0, failed |-> {}]]

---------------------------------------------------------------------------
(* Mutant: no INSERT when the UPDATE finds no bucket row.                   *)
topup_NoInsert(b, a) ==
    /\ bucket' = IF bucket[b].open
                 THEN [bucket EXCEPT ![b].remaining = bucket[b].remaining + a]
                 ELSE bucket
    /\ ledger' = [ledger EXCEPT ![b].topup = ledger[b].topup + a]
    /\ UNCHANGED memo

(* BalanceStore::topup: adds to remainingValue, creating the bucket when    *)
(* the UPDATE finds no row; always completed.                               *)
topup(b, a) ==
    /\ bucket' = [bucket EXCEPT ![b] = [open |-> TRUE,
                                        remaining |-> bucket[b].remaining + a,
                                        reserved |-> bucket[b].reserved]]
    /\ ledger' = [ledger EXCEPT ![b].topup = ledger[b].topup + a]
    /\ UNCHANGED memo

(* Mutant: WHERE id = b only.                                               *)
AdjustCompletes_NoFloor(b, a) == bucket[b].open

(* WHERE id = b AND remaining_value + a >= 0                                *)
AdjustCompletes(b, a) == bucket[b].open /\ bucket[b].remaining + a >= 0

(* BalanceStore::adjust: a one-time credit (a > 0) or debit (a < 0).        *)
adjust(b, a, m) ==
    \/ /\ AdjustCompletes(b, a)
       /\ bucket' = [bucket EXCEPT ![b].remaining = bucket[b].remaining + a]
       /\ ledger' = [ledger EXCEPT ![b].adjust = ledger[b].adjust + a]
       /\ memo' = [memo EXCEPT ![m].paid = memo[m].paid - a]
    \/ /\ ~AdjustCompletes(b, a)
       /\ memo' = [memo EXCEPT ![m].failed = memo[m].failed
                     \cup {IF a < 0 THEN "debit" ELSE "credit"}]
       /\ UNCHANGED <<bucket, ledger>>

(* a >= 0: AND remaining_value >= a;  a < 0: AND reserved_value >= -a       *)
ReserveCompletes(b, a) ==
    /\ bucket[b].open
    /\ IF a >= 0 THEN bucket[b].remaining >= a ELSE bucket[b].reserved >= -a

(* BalanceStore::reserve: moves a from remainingValue to reservedValue, or, *)
(* for a negative amount, -a back.                                          *)
reserve(b, a, m) ==
    \/ /\ ReserveCompletes(b, a)
       /\ bucket' = [bucket EXCEPT ![b].remaining = bucket[b].remaining - a,
                                   ![b].reserved = bucket[b].reserved + a]
       /\ ledger' = [ledger EXCEPT ![b].reserve = ledger[b].reserve + a]
       /\ memo' = IF a >= 0
                  THEN [memo EXCEPT ![m].held = memo[m].held + a]
                  ELSE [memo EXCEPT ![m].freed = memo[m].freed - a]
    \/ /\ ~ReserveCompletes(b, a)
       /\ memo' = [memo EXCEPT ![m].failed = memo[m].failed
                     \cup {IF a >= 0 THEN "reserve" ELSE "unreserve"}]
       /\ UNCHANGED <<bucket, ledger>>

(* Top-ups are payments, so their amounts are not negative: the handler     *)
(* does not check this, the clients of the API are trusted to keep it.      *)
BalanceNext ==
    \E b \in Buckets :
       \/ \E a \in Nat : topup(b, a)
       \/ \E a \in Int, m \in Memos : adjust(b, a, m) \/ reserve(b, a, m)

BalanceSpec == BalanceInit /\ [][BalanceNext]_balanceVars

---------------------------------------------------------------------------
(* The floor the conditional UPDATEs of adjust and reserve exist for: no    *)
(* sequence of top-ups, debits, holds and refunds, from any number of       *)
(* clients, drives remainingValue or reservedValue below zero.              *)
NoOverdraft ==
    \A b \in Buckets : bucket[b].remaining >= 0 /\ bucket[b].reserved >= 0

(* The bucket can be rebuilt from the action tables: the completed rows of  *)
(* topup_balance, adjust_balance and reserve_balance sum to the two values  *)
(* of the bucket row, so a failed action never moved money and a completed  *)
(* one never failed to.                                                     *)
Reconciles ==
    \A b \in Buckets :
       /\ bucket[b].remaining =
             ledger[b].topup + ledger[b].adjust - ledger[b].reserve
       /\ bucket[b].reserved = ledger[b].reserve
===========================================================================
