------------------------- MODULE RatingAndCdrProofs -------------------------
(***************************************************************************)
(* What the CHF does with a charge besides the session's state.  The CDR   *)
(* store: type correctness, the archive-before-delete guarantee of its     *)
(* retention sweep and the exactness of the gap alarm, for any number of   *)
(* sessions and records, any retention time and any faults.  The rating    *)
(* engine: it picks the first offering that applies, and the debit of a    *)
(* Release is fair and free of units, for every catalogue, request, number *)
(* of usages, prediction and usage report.                                 *)
(***************************************************************************)
EXTENDS CdrStore, Rating, TLAPS, FiniteSetTheorems, WellFoundedInduction

----------------------------------------------------------------------------
(***************************************************************************)
(* The CDR store.                                                          *)
(***************************************************************************)
Row == [st : RowStates, at : Nat]

SweepState == [pc : {"idle", "selected", "archived"}, rows : SUBSET Records,
               at : Nat]

(* Every step of writers, sweep, clock and crashes keeps the types.         *)
LEMMA TypeStep == TypeOK /\ [Next]_vars => TypeOK'
<1> SUFFICES ASSUME TypeOK, [Next]_vars PROVE TypeOK'
  OBVIOUS
<1> USE CdrAssumption
<1>0. NoSweep \in SweepState
  BY DEF NoSweep, SweepState
<1>1. ASSUME NEW s \in Sessions, Request(s) PROVE TypeOK'
  <2>1. issued[s] + 1 \in 1..MaxSeq
    BY <1>1 DEF TypeOK, Request
  <2>2. <<s, issued[s] + 1>> \in Records
    BY <2>1 DEF Records
  <2>3. row' \in [Records -> Row]
    BY <1>1, <2>2 DEF TypeOK, Request, Row, RowStates
  <2>4. issued' \in [Sessions -> 0..MaxSeq]
    BY <1>1, <2>1 DEF TypeOK, Request
  <2>5. ended' \subseteq Sessions
    BY <1>1 DEF TypeOK, Request
  <2> QED BY <1>1, <2>3, <2>4, <2>5 DEF TypeOK, Request, Row
<1>2. ASSUME NEW x \in Records, write(x) PROVE TypeOK'
  <2>1. row' \in [Records -> Row]
    BY <1>2 DEF TypeOK, write, Row, RowStates
  <2>2. faults' \in Nat
    BY <1>2 DEF TypeOK, write, Fault
  <2>3. checking' \subseteq Sessions
    BY <1>2 DEF TypeOK, write, Records
  <2> QED BY <1>2, <2>1, <2>2, <2>3 DEF TypeOK, write, Row
<1>9. ASSUME NEW s \in Sessions, RaiseGapAlarm(s) PROVE TypeOK'
  <2>1. faults' \in Nat /\ checking' \subseteq Sessions
    BY <1>9 DEF TypeOK, RaiseGapAlarm, Fault
  <2>2. alarm' \subseteq Records
    <3>1. ASSUME NEW S PROVE detect_gaps(S) \subseteq 1..MaxSeq
      BY DEF detect_gaps
    <3>2. alarm' \subseteq alarm \cup {<<s, n>> : n \in 1..MaxSeq}
      BY <1>9, <3>1 DEF RaiseGapAlarm
    <3> QED BY <3>2 DEF TypeOK, Records
  <2> QED BY <1>9, <2>1, <2>2 DEF TypeOK, RaiseGapAlarm
<1>3. CASE Tick
  BY <1>3 DEF TypeOK, Tick
<1>4. CASE SelectExpired
  <2>1. sweep' \in SweepState
    BY <1>4 DEF TypeOK, SelectExpired, SweepState, Stored
  <2> QED BY <1>4, <2>1 DEF TypeOK, SelectExpired, SweepState
<1>5. CASE WriteArchive
  <2>1. sweep' \in SweepState
    BY <1>5, <1>0 DEF TypeOK, WriteArchive, SweepState
  <2>2. archive' \subseteq Records
    BY <1>5 DEF TypeOK, WriteArchive
  <2>3. faults' \in Nat
    BY <1>5 DEF TypeOK, WriteArchive, Fault
  <2> QED BY <1>5, <2>1, <2>2, <2>3 DEF TypeOK, WriteArchive, SweepState
<1>6. CASE DeleteExpired
  <2>1. row' \in [Records -> Row]
    BY <1>6 DEF TypeOK, DeleteExpired, Row, RowStates
  <2>2. faults' \in Nat
    BY <1>6 DEF TypeOK, DeleteExpired, Fault
  <2> QED BY <1>6, <1>0, <2>1, <2>2 DEF TypeOK, DeleteExpired, SweepState, Row
<1>7. CASE Crash
  <2>1. row' \in [Records -> Row]
    BY <1>7 DEF TypeOK, Crash, Row, RowStates
  <2>2. faults' \in Nat
    BY <1>7 DEF TypeOK, Crash, Fault
  <2> QED BY <1>7, <1>0, <2>1, <2>2 DEF TypeOK, Crash, SweepState, Row
<1>8. CASE Rest \/ UNCHANGED vars
  BY <1>8 DEF TypeOK, Rest, vars
<1> QED BY <1>1, <1>2, <1>3, <1>4, <1>5, <1>6, <1>7, <1>8, <1>9 DEF Next, Sweep

(* Initially there are no rows.                                             *)
LEMMA TypeInit == Init => TypeOK
BY CdrAssumption DEF Init, TypeOK, NoSweep, RowStates, Records

(* The state of CdrWriter and of its tables is always well typed.           *)
THEOREM CdrTypeCorrect == Spec => []TypeOK
BY TypeInit, TypeStep, PTL DEF Spec

---------------------------------------------------------------------------
(* No step outside the sweep adds a row the sweep should have read: writers *)
(* wait for mutex_.                                                         *)
LEMMA SweepStep == TypeOK /\ SweepInv /\ [Next]_vars => SweepInv'
<1> SUFFICES ASSUME TypeOK, SweepInv, [Next]_vars, sweep'.pc # "idle"
             PROVE  /\ sweep'.at <= clock'
                    /\ \A x \in Stored' :
                          row'[x].at + Retention < sweep'.at => x \in sweep'.rows
                    /\ sweep'.pc = "archived" => sweep'.rows \subseteq archive'
  BY DEF SweepInv
<1> USE CdrAssumption
<1>1. ASSUME NEW s \in Sessions, Request(s)
      PROVE  /\ Stored' \subseteq Stored
             /\ \A x \in Stored' : row'[x].at = row[x].at
  BY <1>1 DEF Request, Stored, TypeOK
<1>2. ASSUME NEW s \in Sessions, Request(s) PROVE SweepInv'
  BY <1>1, <1>2 DEF Request, SweepInv
<1>3. ASSUME \/ \E x \in Records : write(x)
             \/ \E s \in Sessions : RaiseGapAlarm(s)
      PROVE  FALSE
  BY <1>3 DEF write, RaiseGapAlarm
<1>4. CASE Tick
  BY <1>4 DEF Tick, SweepInv, Stored, TypeOK
<1>5. CASE SelectExpired
  BY <1>5 DEF SelectExpired, Stored, Expired, TypeOK
<1>6. CASE WriteArchive
  <2>1. sweep' = [sweep EXCEPT !.pc = "archived"] /\ archive' = archive \cup sweep.rows
    BY <1>6 DEF WriteArchive, NoSweep
  <2>2. sweep.pc = "selected" /\ sweep'.rows = sweep.rows /\ sweep'.at = sweep.at
    BY <1>6, <2>1 DEF WriteArchive, TypeOK
  <2> QED BY <1>6, <2>1, <2>2 DEF WriteArchive, SweepInv, Stored
<1>7. CASE DeleteExpired \/ Crash
  BY <1>7 DEF DeleteExpired, Crash, NoSweep
<1>8. CASE Rest \/ UNCHANGED vars
  BY <1>8 DEF Rest, vars, SweepInv, Stored
<1> QED
  BY <1>2, <1>3, <1>4, <1>5, <1>6, <1>7, <1>8 DEF Next, Sweep, SweepInv

(* Archive before delete: whatever fails, and wherever the process stops, a *)
(* row leaves the table only if it is in a flushed archive file or expired  *)
(* while the sweep was running.                                             *)
THEOREM ArchiveBeforeDelete == Spec => DeletedIsArchived
<1>1. TypeOK /\ SweepInv /\ [Next]_vars =>
         [\A x \in Records :
             row[x].st = "stored" /\ row'[x].st = "deleted" =>
                x \in archive \/ row[x].at + Retention >= sweep.at]_vars
  <2> SUFFICES ASSUME TypeOK, SweepInv, Next,
                      NEW x \in Records, row[x].st = "stored", row'[x].st = "deleted"
               PROVE  x \in archive \/ row[x].at + Retention >= sweep.at
    OBVIOUS
  <2> USE CdrAssumption
  <2>1. ASSUME NEW s \in Sessions, Request(s) PROVE FALSE
    <3>1. row' = [row EXCEPT ![<<s, issued[s] + 1>>].st = "pending"]
      BY <2>1 DEF Request
    <3> QED BY <3>1 DEF TypeOK
  <2>2. ASSUME NEW y \in Records, write(y) PROVE FALSE
    BY <2>2 DEF write, TypeOK
  <2>3. CASE \/ Tick \/ SelectExpired \/ WriteArchive \/ Rest
             \/ \E s \in Sessions : RaiseGapAlarm(s)
    BY <2>3 DEF RaiseGapAlarm, Tick, SelectExpired, WriteArchive, Rest, vars
  <2>4. CASE Crash
    BY <2>4 DEF Crash, TypeOK
  <2>5. CASE DeleteExpired
    <3>1. x \in Stored /\ sweep.pc = "archived"
      BY <2>5 DEF Stored, DeleteExpired
    <3>2. row[x].at \in Nat /\ sweep.at \in Nat
      BY DEF TypeOK
    <3>3. CASE row[x].at + Retention < sweep.at
      BY <3>1, <3>3 DEF SweepInv
    <3>4. CASE ~(row[x].at + Retention < sweep.at)
      BY <3>2, <3>4
    <3> QED BY <3>3, <3>4
  <2> QED BY <2>1, <2>2, <2>3, <2>4, <2>5 DEF Next, Sweep
<1>2. Init => SweepInv
  BY DEF Init, SweepInv, NoSweep
<1> QED BY <1>1, <1>2, TypeInit, TypeStep, SweepStep, PTL DEF Spec, DeletedIsArchived

(* Between the statements of a sweep nothing slips in: mutex_ keeps the     *)
(* writers out, so every row that had expired at the SELECT is among those  *)
(* read, and in the flushed file when the DELETE runs.                      *)
THEOREM SweepComplete == Spec => []SweepInv
<1>1. Init => SweepInv
  BY DEF Init, SweepInv, NoSweep
<1> QED BY <1>1, TypeInit, TypeStep, SweepStep, PTL DEF Spec

---------------------------------------------------------------------------
(* The least element and the size of a set of numbers, as detect_gaps       *)
(* needs them.                                                              *)
LEMMA LeastExists ==
    ASSUME NEW S \in SUBSET Nat, S # {}
    PROVE  \E n \in S : \A m \in S : n <= m
<1>1. \E n \in S : \A m \in S : ~(<<m, n>> \in OpToRel(<, Nat))
  BY NatLessThanWellFounded, WFMin
<1>2. \A m, n \in Nat : ~(<<m, n>> \in OpToRel(<, Nat)) => ~(m < n)
  BY Zenon DEF OpToRel
<1>3. \E n \in S : \A m \in S : ~(m < n)
  BY <1>1, <1>2, Zenon
<1> QED BY <1>3

LEMMA TwoElements ==
    ASSUME NEW S, IsFiniteSet(S), NEW a \in S, NEW b \in S, a # b
    PROVE  Cardinality(S) \in Nat /\ Cardinality(S) >= 2
<1>1. IsFiniteSet({a}) /\ Cardinality({a}) = 1
  BY FS_Singleton
<1>2. IsFiniteSet({a} \cup {b}) /\ Cardinality({a} \cup {b}) = 2
  <2>1. b \notin {a}
    OBVIOUS
  <2>2. IsFiniteSet({a} \cup {b}) /\ Cardinality({a} \cup {b}) = Cardinality({a}) + 1
    BY <1>1, <2>1, FS_AddElement, Zenon
  <2> QED BY <1>1, <2>2
<1>3. Cardinality({a} \cup {b}) <= Cardinality(S)
  BY FS_Subset
<1>4. Cardinality(S) \in Nat
  BY FS_CardinalityType
<1> QED BY <1>2, <1>3, <1>4

(* What detect_gaps returns when it looks at the rows of a session whose    *)
(* last one, number h, is there: every missing number that follows one that *)
(* is not missing.                                                          *)
LEMMA DetectGapsExact ==
    ASSUME NEW S \in SUBSET (1..MaxSeq), NEW h \in S, \A m \in S : m <= h,
           NEW n \in 1..MaxSeq
    PROVE  n \in detect_gaps(S) <=>
              n < h /\ n \notin S /\ \E m \in 1..(n - 1) : m \in S
<1> USE CdrAssumption
<1>1. IsFiniteSet(S)
  <2>1. IsFiniteSet(1..MaxSeq)
    BY FS_Interval
  <2> QED BY <2>1, FS_Subset
<1>2. CASE Cardinality(S) < 2
  <2>1. \A a, b \in S : a = b
    <3> SUFFICES ASSUME NEW a \in S, NEW b \in S, a # b PROVE FALSE
      OBVIOUS
    <3>1. Cardinality(S) \in Nat /\ Cardinality(S) >= 2
      BY <1>1, TwoElements
    <3> QED BY <3>1, <1>2
  <2>2. detect_gaps(S) = {}
    BY <1>2 DEF detect_gaps
  <2> QED BY <2>1, <2>2
<1>3. CASE ~(Cardinality(S) < 2)
  <2> DEFINE lo == CHOOSE k \in S : \A m \in S : k <= m
             hi == CHOOSE k \in S : \A m \in S : m <= k
  <2>1. lo \in S /\ \A m \in S : lo <= m
    <3>1. S \in SUBSET Nat /\ S # {}
      OBVIOUS
    <3>2. \E k \in S : \A m \in S : k <= m
      BY <3>1, LeastExists
    <3> QED BY <3>2
  <2>2. hi = h
    <3>1. hi \in S /\ \A m \in S : m <= hi
      OBVIOUS
    <3> HIDE DEF hi
    <3> QED BY <3>1
  <2>3. detect_gaps(S) = {k \in (1..MaxSeq) \ S : lo <= k /\ k <= hi}
    BY <1>3 DEF detect_gaps
  <2> HIDE DEF lo, hi
  <2>4. n \in detect_gaps(S) <=> n \notin S /\ lo <= n /\ n <= h
    BY <2>2, <2>3
  <2>5. ASSUME n \notin S, lo <= n PROVE \E m \in 1..(n - 1) : m \in S
    BY <2>1, <2>5
  <2>6. ASSUME NEW m \in 1..(n - 1), m \in S PROVE lo <= n
    BY <2>1, <2>6
  <2> QED BY <2>4, <2>5, <2>6
<1> QED BY <1>2, <1>3

(* Why an alarm can be exact.  Numbers not yet issued have no row; a        *)
(* Release looks for gaps after its own row was written or lost; and before *)
(* that nothing of its session is in the alarm.                             *)
GapInv ==
    /\ \A s \in Sessions : \A n \in 1..MaxSeq :
          n > issued[s] => row[<<s, n>>].st = "none"
    /\ \A s \in ended : issued[s] > 0
    /\ \A s \in checking : s \in ended /\ row[<<s, issued[s]>>].st # "pending"
    /\ \A s \in Sessions :
          s \notin ended \/ s \in checking \/ row[<<s, issued[s]>>].st = "pending" =>
             \A n \in 1..MaxSeq : <<s, n>> \notin alarm

(* GapInv is inductive.                                                     *)
LEMMA GapStep == TypeOK /\ GapInv /\ [Next]_vars => GapInv'
<1> SUFFICES ASSUME TypeOK, GapInv, [Next]_vars PROVE GapInv'
  OBVIOUS
<1> USE CdrAssumption
<1>0. ASSUME NEW s \in Sessions, issued[s] > 0 PROVE <<s, issued[s]>> \in Records
  BY <1>0 DEF TypeOK, Records
<1>1. ASSUME NEW s \in Sessions, Request(s) PROVE GapInv'
  <2>1. issued[s] + 1 \in 1..MaxSeq /\ <<s, issued[s] + 1>> \in Records
    BY <1>1 DEF TypeOK, Request, Records
  <2>2. \A y \in Records : row'[y].st = IF y = <<s, issued[s] + 1>> THEN "pending"
                                        ELSE row[y].st
    BY <1>1, <2>1 DEF TypeOK, Request
  <2>3. \A q \in Sessions : issued'[q] = IF q = s THEN issued[s] + 1 ELSE issued[q]
    BY <1>1 DEF TypeOK, Request
  <2>4. \A q \in Sessions : \A n \in 1..MaxSeq :
           n > issued'[q] => row'[<<q, n>>].st = "none"
    BY <2>1, <2>2, <2>3 DEF GapInv, TypeOK, Records
  <2>5. ended' \subseteq ended \cup {s} /\ s \notin ended
    BY <1>1 DEF Request
  <2>6. \A q \in ended' : issued'[q] > 0
    BY <2>1, <2>3, <2>5 DEF GapInv, TypeOK
  <2>7. \A q \in Sessions : q # s => row'[<<q, issued'[q]>>] = row[<<q, issued[q]>>]
    BY <1>1, <2>3 DEF Request, TypeOK
  <2>8. \A q \in checking' : q \in ended' /\ row'[<<q, issued'[q]>>].st # "pending"
    BY <1>1, <2>5, <2>7 DEF GapInv, Request, TypeOK
  <2>9. ASSUME NEW q \in Sessions,
               q \notin ended' \/ q \in checking' \/ row'[<<q, issued'[q]>>].st = "pending",
               NEW n \in 1..MaxSeq
        PROVE  <<q, n>> \notin alarm'
    <3>1. CASE q = s
      BY <3>1, <1>1, <2>5 DEF GapInv, Request
    <3>2. CASE q # s
      BY <3>2, <1>1, <2>5, <2>7, <2>9 DEF GapInv, Request
    <3> QED BY <3>1, <3>2
  <2> QED BY <2>4, <2>6, <2>8, <2>9 DEF GapInv
<1>2. ASSUME NEW x \in Records, write(x) PROVE GapInv'
  <2>1. PICK s \in Sessions, k \in 1..MaxSeq : x = <<s, k>>
    BY DEF Records
  <2>2. row[x].st = "pending" /\ k <= issued[s]
    BY <1>2, <2>1 DEF write, GapInv, TypeOK
  <2>3. \A y \in Records : IF y = x THEN row'[y].st \in {"stored", "lost"}
                           ELSE row'[y] = row[y]
    BY <1>2 DEF write, TypeOK
  <2>4. IsRelease(x) <=> s \in ended /\ k = issued[s]
    BY <2>1 DEF IsRelease
  <2>5. \A q \in Sessions : \A n \in 1..MaxSeq :
           n > issued'[q] => row'[<<q, n>>].st = "none"
    BY <1>2, <2>1, <2>2, <2>3 DEF write, GapInv, TypeOK, Records
  <2>6. checking' = IF IsRelease(x) THEN checking \cup {s} ELSE checking
    BY <1>2, <2>1 DEF write
  <2>7. \A q \in checking' : q \in ended' /\ row'[<<q, issued'[q]>>].st # "pending"
    BY <1>2, <2>1, <2>3, <2>4, <2>6, <1>0 DEF write, GapInv, TypeOK
  <2>8. ASSUME NEW q \in Sessions,
               q \notin ended' \/ q \in checking' \/ row'[<<q, issued'[q]>>].st = "pending",
               NEW n \in 1..MaxSeq
        PROVE  <<q, n>> \notin alarm'
    <3>1. CASE q \notin ended'
      BY <3>1, <1>2 DEF write, GapInv
    <3>2. CASE q \in checking'
      BY <3>2, <1>2, <2>1, <2>2, <2>4, <2>6 DEF write, GapInv
    <3>3. CASE q \in ended' /\ row'[<<q, issued'[q]>>].st = "pending"
      <4>1. <<q, issued[q]>> \in Records /\ issued' = issued
        BY <3>3, <1>0, <1>2 DEF write, GapInv
      <4>2. row[<<q, issued[q]>>].st = "pending"
        BY <3>3, <4>1, <2>3
      <4> QED BY <4>2, <1>2 DEF write, GapInv
    <3> QED BY <2>8, <3>1, <3>2, <3>3
  <2> QED BY <1>2, <2>5, <2>7, <2>8 DEF write, GapInv
<1>3. ASSUME NEW s \in Sessions, RaiseGapAlarm(s) PROVE GapInv'
  <2>1. \A y \in alarm' : y \in alarm \/ y[1] = s
    BY <1>3 DEF RaiseGapAlarm
  <2>2. s \in ended /\ row[<<s, issued[s]>>].st # "pending"
    BY <1>3 DEF RaiseGapAlarm, GapInv
  <2> QED BY <1>3, <2>1, <2>2 DEF RaiseGapAlarm, GapInv
<1>4. CASE Tick \/ SelectExpired \/ WriteArchive
  BY <1>4 DEF Tick, SelectExpired, WriteArchive, GapInv
<1>5. CASE DeleteExpired \/ Crash
  <2>1. /\ \A y \in Records : row'[y].st = row[y].st \/ row'[y].st = "deleted"
                             \/ row'[y].st = "lost"
        /\ \A y \in Records : row[y].st = "none" => row'[y].st = "none"
    BY <1>5 DEF DeleteExpired, Crash, TypeOK, Stored
  <2>2. issued' = issued /\ ended' = ended /\ alarm' = alarm /\ checking' \subseteq checking
    BY <1>5 DEF DeleteExpired, Crash
  <2>3. \A q \in ended : <<q, issued[q]>> \in Records
    BY <1>0 DEF GapInv, TypeOK
  <2>4. \A q \in ended : row'[<<q, issued[q]>>].st = "pending" =>
                            row[<<q, issued[q]>>].st = "pending"
    BY <2>1, <2>3
  <2>5. \A q \in Sessions : \A n \in 1..MaxSeq : <<q, n>> \in Records
    BY DEF Records
  <2> QED BY <2>1, <2>2, <2>4, <2>5 DEF GapInv
<1>6. CASE Rest \/ UNCHANGED vars
  BY <1>6 DEF Rest, vars, GapInv
<1> QED BY <1>1, <1>2, <1>3, <1>4, <1>5, <1>6 DEF Next, Sweep

(* The gap alarm of a Release is exact: it names every record sent after    *)
(* one still stored and missing itself, for whatever reason, and no other,  *)
(* whatever writes, sweeps and crashes came between.                        *)
THEOREM AlarmIsExact == Spec => AlarmExact
<1>1. TypeOK /\ GapInv /\ [Next]_vars =>
         [\A s \in checking \ checking' :
             faults' = faults /\ row[<<s, issued[s]>>].st = "stored" =>
                \A n \in 1..MaxSeq :
                   <<s, n>> \in alarm' <=>
                      /\ n < issued[s] /\ row[<<s, n>>].st # "stored"
                      /\ \E m \in 1..(n - 1) : row[<<s, m>>].st = "stored"]_vars
  <2> SUFFICES ASSUME TypeOK, GapInv, Next,
                      NEW s \in checking, s \notin checking', faults' = faults,
                      row[<<s, issued[s]>>].st = "stored",
                      NEW n \in 1..MaxSeq
               PROVE  <<s, n>> \in alarm' <=>
                        /\ n < issued[s] /\ row[<<s, n>>].st # "stored"
                        /\ \E m \in 1..(n - 1) : row[<<s, m>>].st = "stored"
    OBVIOUS
  <2> USE CdrAssumption
  <2> DEFINE S == SeqsOf(s, Stored)
  <2>1. RaiseGapAlarm(s)
    <3>1. ASSUME NEW q \in Sessions, Request(q) PROVE FALSE
      BY <3>1 DEF Request
    <3>2. ASSUME NEW x \in Records, write(x) PROVE FALSE
      BY <3>2 DEF write
    <3>3. ASSUME NEW q \in Sessions, RaiseGapAlarm(q) PROVE q = s
      BY <3>3 DEF RaiseGapAlarm
    <3>4. CASE Tick \/ Sweep \/ Rest
      BY <3>4 DEF Tick, Sweep, SelectExpired, WriteArchive, DeleteExpired, Rest, vars
    <3>5. ~Crash
      BY DEF Crash, Fault, TypeOK
    <3> QED BY <3>1, <3>2, <3>3, <3>4, <3>5 DEF Next
  <2>2. alarm' = alarm \cup {<<s, k>> : k \in detect_gaps(S)}
    BY <2>1 DEF RaiseGapAlarm, Fault, TypeOK
  <2>3. <<s, n>> \notin alarm /\ s \in Sessions
    BY DEF GapInv, TypeOK
  <2>4. \A m \in 1..MaxSeq : m \in S <=> row[<<s, m>>].st = "stored"
    BY <2>3 DEF SeqsOf, Stored, Records
  <2>5. issued[s] \in 1..MaxSeq
    BY <2>3 DEF GapInv, TypeOK
  <2>a. S \in SUBSET (1..MaxSeq)
    BY DEF SeqsOf
  <2> HIDE DEF S
  <2>6. S \in SUBSET (1..MaxSeq) /\ issued[s] \in S /\ \A m \in S : m <= issued[s]
    <3>2. \A m \in 1..MaxSeq : m > issued[s] => row[<<s, m>>].st = "none"
      BY <2>3 DEF GapInv
    <3>3. issued[s] \in S
      BY <2>4, <2>5
    <3>4. ASSUME NEW m \in S PROVE m <= issued[s]
      <4>1. m \in 1..MaxSeq /\ row[<<s, m>>].st = "stored"
        BY <2>4, <2>a
      <4>2. ~(m > issued[s])
        BY <4>1, <3>2
      <4> QED BY <4>1, <4>2, <2>5
    <3> QED BY <2>a, <3>3, <3>4
  <2>7. <<s, n>> \in alarm' <=> n \in detect_gaps(S)
    BY <2>2, <2>3
  <2>8. n \in detect_gaps(S) <=>
           n < issued[s] /\ n \notin S /\ \E m \in 1..(n - 1) : m \in S
    <3> DEFINE h == issued[s]
    <3>1. h \in S /\ \A m \in S : m <= h
      BY <2>6
    <3> HIDE DEF h
    <3>2. n \in detect_gaps(S) <=> n < h /\ n \notin S /\ \E m \in 1..(n - 1) : m \in S
      BY <2>a, <3>1, DetectGapsExact
    <3> QED BY <3>2 DEF h
  <2>9. \A m \in 1..(n - 1) : m \in 1..MaxSeq
    OBVIOUS
  <2> QED BY <2>4, <2>7, <2>8, <2>9
<1>2. Init => GapInv
  BY CdrAssumption DEF Init, GapInv, Records
<1> QED BY <1>1, <1>2, TypeInit, TypeStep, GapStep, PTL DEF Spec, AlarmExact

----------------------------------------------------------------------------
(***************************************************************************)
(* Rating.                                                                 *)
(***************************************************************************)
(***************************************************************************)
(* The arithmetic of proportional_debit.                                   *)
(***************************************************************************)
(* What \div computes.                                                      *)
LEMMA Quotient ==
    ASSUME NEW x \in Nat, NEW w \in Nat \ {0}
    PROVE  /\ x \div w \in Nat
           /\ (x \div w) * w <= x /\ x < (x \div w) * w + w
OBVIOUS

(* The quotient is the only number with that property.                      *)
LEMMA QuotientUnique ==
    ASSUME NEW x \in Nat, NEW w \in Nat \ {0}, NEW q \in Nat,
           q * w <= x, x < q * w + w
    PROVE  x \div w = q
<1> DEFINE p == x \div w
<1>1. p \in Nat /\ p * w <= x /\ x < p * w + w
  BY Quotient
<1> HIDE DEF p
<1>2. ASSUME NEW m \in Nat, NEW n \in Nat, m < n PROVE m * w + w <= n * w
  <2>1. PICK d \in Nat : n = m + 1 + d
    <3>1. n - m - 1 \in Nat /\ n = m + 1 + (n - m - 1)
      BY <1>2
    <3> QED BY <3>1
  <2>2. n * w = m * w + w + d * w
    BY <2>1
  <2>3. d * w \in Nat
    OBVIOUS
  <2> QED BY <2>2, <2>3
<1>3. ~(p < q)
  BY <1>1, <1>2
<1>4. ~(q < p)
  BY <1>1, <1>2
<1> QED BY <1>1, <1>3, <1>4 DEF p

(* A larger dividend gives no smaller quotient.                             *)
LEMMA QuotientMonotone ==
    ASSUME NEW x \in Nat, NEW y \in Nat, NEW w \in Nat \ {0}, x <= y
    PROVE  x \div w <= y \div w
<1> DEFINE p == x \div w
           q == y \div w
<1>1. p \in Nat /\ q \in Nat /\ p * w <= x /\ y < q * w + w
  BY Quotient
<1> HIDE DEF p, q
<1>2. SUFFICES ASSUME q < p PROVE FALSE
  BY <1>1 DEF p, q
<1>3. PICK d \in Nat : p = q + 1 + d
  <2>1. p - q - 1 \in Nat /\ p = q + 1 + (p - q - 1)
    BY <1>1, <1>2
  <2> QED BY <2>1
<1>4. p * w = q * w + w + d * w /\ d * w \in Nat
  BY <1>1, <1>3
<1>5. q * w \in Nat
  BY <1>1
<1> QED BY <1>1, <1>4, <1>5

(* A factor common to dividend and divisor changes nothing.                 *)
LEMMA QuotientCancels ==
    ASSUME NEW x \in Nat, NEW w \in Nat \ {0}, NEW k \in Nat \ {0}
    PROVE  (k * x) \div (k * w) = x \div w
<1> DEFINE q == x \div w
<1>1. q \in Nat /\ q * w <= x /\ x < q * w + w
  BY Quotient
<1> HIDE DEF q
<1>2. k * x \in Nat /\ k * w \in Nat \ {0}
  OBVIOUS
<1>3. q * (k * w) = k * (q * w) /\ k * (q * w + w) = k * (q * w) + k * w
  BY <1>1
<1>4. ASSUME NEW a \in Nat, NEW b \in Nat, a <= b PROVE k * a <= k * b
  <2>1. b - a \in Nat /\ k * b = k * a + k * (b - a) /\ k * (b - a) \in Nat
    BY <1>4
  <2> QED BY <2>1
<1>5. q * w \in Nat /\ x + 1 \in Nat /\ x + 1 <= q * w + w /\ q * w + w \in Nat
  BY <1>1
<1>6. k * (q * w) <= k * x /\ k * (x + 1) <= k * (q * w + w)
  BY <1>1, <1>4, <1>5
<1>7. k * (x + 1) = k * x + k
  OBVIOUS
<1>8. q * (k * w) <= k * x /\ k * x < q * (k * w) + k * w
  BY <1>1, <1>2, <1>3, <1>5, <1>6, <1>7
<1>9. (k * x) \div (k * w) = q
  BY <1>1, <1>2, <1>8, QuotientUnique
<1> QED BY <1>9 DEF q

(* Multiplication by a price keeps order.                                   *)
LEMMA ProductMonotone ==
    ASSUME NEW t \in Nat, NEW a \in Nat, NEW b \in Nat, a <= b
    PROVE  t * a <= t * b
<1>1. b - a \in Nat /\ t * b = t * a + t * (b - a) /\ t * (b - a) \in Nat
  OBVIOUS
<1> QED BY <1>1

(* The weights of grants and usage; usage counts at most what was granted.  *)
LEMMA Weights ==
    ASSUME NEW g \in Quantity, NEW u \in Quantity
    PROVE  /\ granted_weight(g) \in Nat /\ consumed_weight(g, u) \in Nat
           /\ consumed_weight(g, u) <= granted_weight(g)
           /\ AtLeast(u, g) => consumed_weight(g, u) = granted_weight(g)
           /\ \A v \in Quantity :
                 AtLeast(v, u) => consumed_weight(g, u) <= consumed_weight(g, v)
BY DEF granted_weight, consumed_weight, Lesser, AtLeast, Quantity

(* The clamp of proportional_debit never takes effect: the share of the     *)
(* total lies between nothing and the total.                                *)
LEMMA DebitIsShare ==
    ASSUME NEW t \in Nat \ {0}, NEW g \in Quantity, NEW u \in Quantity,
           granted_weight(g) > 0
    PROVE  /\ proportional_debit(t, g, u) =
                 (t * consumed_weight(g, u)) \div granted_weight(g)
           /\ proportional_debit(t, g, u) \in Nat
           /\ proportional_debit(t, g, u) <= t
<1> DEFINE w == granted_weight(g)
           c == consumed_weight(g, u)
<1>1. w \in Nat \ {0} /\ c \in Nat /\ c <= w
  BY Weights
<1>0. proportional_debit(t, g, u) = Clamp((t * c) \div w, t)
  BY <1>1 DEF proportional_debit
<1> HIDE DEF w, c
<1>2. t * c \in Nat /\ t * w \in Nat /\ t * c <= t * w
  BY <1>1, ProductMonotone
<1>3. (t * w) \div w = t
  BY <1>1, <1>2, QuotientUnique
<1>4. (t * c) \div w \in Nat /\ (t * c) \div w <= t
  BY <1>1, <1>2, <1>3, Quotient, QuotientMonotone
<1>5. Clamp((t * c) \div w, t) = (t * c) \div w
  BY <1>4 DEF Clamp, Lesser
<1> QED BY <1>0, <1>4, <1>5 DEF w, c

(* The debit never exceeds the total.                                       *)
LEMMA DebitBounded ==
    ASSUME NEW t \in Nat, NEW g \in Quantity, NEW u \in Quantity
    PROVE  proportional_debit(t, g, u) \in Nat /\ proportional_debit(t, g, u) <= t
<1>1. granted_weight(g) \in Nat
  BY Weights
<1>2. CASE t = 0 \/ granted_weight(g) <= 0
  BY <1>2 DEF proportional_debit
<1>3. CASE t # 0 /\ granted_weight(g) > 0
  BY <1>3, DebitIsShare
<1> QED BY <1>1, <1>2, <1>3

(* All the grants used up cost the total.                                   *)
LEMMA DebitOfAll ==
    ASSUME NEW t \in Nat, NEW g \in Quantity, NEW u \in Quantity, AtLeast(u, g)
    PROVE  proportional_debit(t, g, u) = t
<1> DEFINE w == granted_weight(g)
<1>1. w \in Nat /\ consumed_weight(g, u) = w
  BY Weights
<1>2. CASE t = 0 \/ w <= 0
  BY <1>2 DEF proportional_debit
<1>3. CASE t # 0 /\ w > 0
  <2>1. proportional_debit(t, g, u) = (t * w) \div w
    BY <1>1, <1>3, DebitIsShare
  <2> HIDE DEF w
  <2>2. t * w \in Nat /\ t * w < t * w + w
    BY <1>1, <1>3
  <2> QED BY <1>1, <1>3, <2>1, <2>2, QuotientUnique
<1> QED BY <1>1, <1>2, <1>3

(* Of some grants, nothing used costs nothing.                              *)
LEMMA DebitOfNothing ==
    ASSUME NEW t \in Nat, NEW g \in Quantity, g # NoQuantity
    PROVE  proportional_debit(t, g, NoQuantity) = 0
<1>1. NoQuantity \in Quantity /\ granted_weight(g) \in Nat
      /\ consumed_weight(g, NoQuantity) = 0
  BY DEF NoQuantity, Quantity, granted_weight, consumed_weight, Lesser
<1>2. granted_weight(g) > 0
  <2>1. SUFFICES ASSUME g.volume = 0, g.units = 0, g.time = 0 PROVE g = NoQuantity
    BY DEF granted_weight, Quantity
  <2> QED BY <2>1 DEF Quantity, NoQuantity
<1>3. CASE t = 0
  BY <1>3 DEF proportional_debit
<1>4. CASE t # 0
  <2>1. proportional_debit(t, g, NoQuantity) = (t * 0) \div granted_weight(g)
    BY <1>1, <1>2, <1>4, DebitIsShare
  <2> DEFINE w == granted_weight(g)
  <2>2. w \in Nat \ {0} /\ t * 0 = 0
    BY <1>1, <1>2
  <2> HIDE DEF w
  <2>3. 0 \div w = 0
    BY <2>2, QuotientUnique
  <2> QED BY <2>1, <2>2, <2>3 DEF w
<1> QED BY <1>3, <1>4

(* More usage never costs less.                                             *)
LEMMA DebitMonotone ==
    ASSUME NEW t \in Nat, NEW g \in Quantity, NEW u \in Quantity, NEW v \in Quantity,
           AtLeast(v, u)
    PROVE  proportional_debit(t, g, u) <= proportional_debit(t, g, v)
<1> DEFINE w == granted_weight(g)
           c == consumed_weight(g, u)
           d == consumed_weight(g, v)
<1>1. w \in Nat /\ c \in Nat /\ d \in Nat /\ c <= d
  BY Weights
<1>2. CASE t = 0 \/ w <= 0
  BY <1>2 DEF proportional_debit
<1>3. CASE t # 0 /\ w > 0
  <2>1. /\ proportional_debit(t, g, u) = (t * c) \div w
        /\ proportional_debit(t, g, v) = (t * d) \div w
    BY <1>3, DebitIsShare
  <2> HIDE DEF w, c, d
  <2>2. t * c \in Nat /\ t * d \in Nat /\ t * c <= t * d
    BY <1>1, ProductMonotone
  <2> QED BY <1>1, <1>3, <2>1, <2>2, QuotientMonotone
<1> QED BY <1>1, <1>2, <1>3

(* A single dimension may be counted in any unit.                           *)
LEMMA DebitUnitFree ==
    ASSUME NEW t \in Nat, NEW g \in Quantity, NEW u \in Quantity, NEW k \in Nat \ {0},
           g.volume = 0 \/ g.units + g.time = 0
    PROVE  proportional_debit(t, Recount(g, k), Recount(u, k)) = proportional_debit(t, g, u)
<1> DEFINE w == granted_weight(g)
           c == consumed_weight(g, u)
           gk == Recount(g, k)
           uk == Recount(u, k)
<1>1. /\ gk \in Quantity /\ gk.volume = k * g.volume /\ gk.units = g.units /\ gk.time = g.time
      /\ uk \in Quantity /\ uk.volume = k * u.volume /\ uk.units = u.units /\ uk.time = u.time
  BY DEF Recount, Quantity
<1>2. g.volume \in Nat /\ g.units \in Nat /\ g.time \in Nat
      /\ u.volume \in Nat /\ u.units \in Nat /\ u.time \in Nat
  BY DEF Quantity
<1>3. w \in Nat /\ c \in Nat
  BY Weights
<1> HIDE DEF gk, uk
<1>4. CASE g.volume = 0
  <2>1. gk.volume = 0 /\ uk.volume \in Nat
    BY <1>1, <1>2, <1>4
  <2>2. granted_weight(gk) = w /\ consumed_weight(gk, uk) = c
    BY <1>1, <1>2, <1>4, <2>1 DEF granted_weight, consumed_weight, Lesser
  <2> QED BY <2>2 DEF proportional_debit, gk, uk
<1>5. CASE g.units + g.time = 0
  <2>1. g.units = 0 /\ g.time = 0
    BY <1>2, <1>5
  <2>2. w = g.volume /\ c = Lesser(u.volume, g.volume)
    BY <1>2, <2>1 DEF granted_weight, consumed_weight, Lesser
  <2>3. granted_weight(gk) = k * w
    BY <1>1, <1>2, <2>1, <2>2 DEF granted_weight
  <2>4. Lesser(k * u.volume, k * g.volume) = k * Lesser(u.volume, g.volume)
    <3>1. CASE u.volume <= g.volume
      <4>1. k * u.volume <= k * g.volume
        BY <1>2, <3>1, ProductMonotone
      <4> QED BY <3>1, <4>1 DEF Lesser
    <3>2. CASE g.volume < u.volume
      <4>1. k * g.volume <= k * u.volume /\ k * g.volume \in Nat /\ k * u.volume \in Nat
        BY <1>2, <3>2, ProductMonotone
      <4> QED BY <1>2, <3>2, <4>1 DEF Lesser
    <3> QED BY <1>2, <3>1, <3>2
  <2>5. consumed_weight(gk, uk) = k * c
    <3>1. consumed_weight(gk, uk) =
             Lesser(uk.volume, gk.volume) + Lesser(uk.units, 0) + Lesser(uk.time, 0)
      BY <1>1, <2>1 DEF consumed_weight
    <3>2. Lesser(uk.units, 0) = 0 /\ Lesser(uk.time, 0) = 0
      BY <1>1, <1>2 DEF Lesser
    <3>3. k * c \in Nat
      BY <1>3
    <3> QED BY <1>1, <2>2, <2>4, <3>1, <3>2, <3>3
  <2> HIDE DEF w, c
  <2>6. CASE t = 0 \/ w = 0
    <3>1. w = 0 => k * w = 0
      BY <1>3
    <3>2. granted_weight(g) = w
      BY DEF w
    <3> QED BY <2>3, <2>6, <3>1, <3>2 DEF proportional_debit, gk, uk
  <2>7. CASE t # 0 /\ w # 0
    <3>1. k * w \in Nat /\ k * w > 0 /\ t * c \in Nat
      BY <1>3, <2>7
    <3>2. proportional_debit(t, gk, uk) = (t * (k * c)) \div (k * w)
      BY <1>1, <2>3, <2>5, <2>7, <3>1, DebitIsShare
    <3>3. proportional_debit(t, g, u) = (t * c) \div w
      BY <1>3, <2>7, DebitIsShare DEF w, c
    <3>4. t * (k * c) = k * (t * c)
      BY <1>3
    <3>5. (k * (t * c)) \div (k * w) = (t * c) \div w
      BY <1>3, <2>7, <3>1, QuotientCancels
    <3> QED BY <3>2, <3>3, <3>4, <3>5 DEF gk, uk
  <2> QED BY <1>3, <2>6, <2>7
<1> QED BY <1>4, <1>5

-----------------------------------------------------------------------------
(***************************************************************************)
(* The loop over the offerings.                                            *)
(***************************************************************************)
(* What stays typed while usages are rated.                                 *)
RatingTypes ==
    /\ catalog \in Catalogs /\ request \in Requests
    /\ usage \in Nat /\ usage >= 1 /\ usage <= Len(Groups) + 1
    /\ i \in Nat /\ i <= Len(catalog) + 1
    /\ rated \in Seq([by : Nat, missed : SUBSET Nat, listed : BOOLEAN])
    /\ Len(rated) = usage - 1
    /\ total \in Nat /\ granted \in Quantity

(* The offerings the loop has passed do not apply to the usage, or their    *)
(* price could not be read.                                                 *)
LoopInv ==
    /\ missed \subseteq DOMAIN catalog /\ \A k \in missed : k < i
    /\ \A k \in DOMAIN catalog : k < i /\ Applies(k, usage) => k \in missed

(* What was debited is what the report made of total and grants, which the  *)
(* Release leaves as they were.                                             *)
SettledInv ==
    /\ used \in Quantity
    /\ debit # NotSettled => /\ ~Rating /\ debit \in Nat
                             /\ debit = proportional_debit(total, granted, used)

RatingInv == RatingTypes /\ LoopInv /\ FirstMatchRates /\ SettledInv

(* The code's matching of a scope with the attributes it collected is the   *)
(* declarative reading of the catalogue.                                    *)
LEMMA MatchingIsApplying ==
    ASSUME RatingTypes, NEW k \in DOMAIN catalog
    PROVE  Offered(catalog[k]) /\ Matches(catalog[k]) <=> Applies(k, usage)
<1> DEFINE o == catalog[k]
           a == collect_charging_attributes(request)
           needs(n) == IF n = "roaming" THEN {"home", "serving"} ELSE {n}
           known(n) == \A m \in needs(n) : m \in DOMAIN request /\ request[m] # Absent
           value(n) == IF n = "roaming" THEN request.home # request.serving ELSE request[n]
<1>1. DOMAIN request = {"slice", "home", "serving"}
  BY RatingAssumption DEF RatingTypes
<1>2. ASSUME NEW n PROVE n \in DOMAIN a <=> known(n)
  BY <1>1 DEF collect_charging_attributes
<1>3. ASSUME NEW n \in DOMAIN a PROVE a[n] = value(n)
  BY <1>1, <1>3 DEF collect_charging_attributes
<1>4. Offered(o) /\ Matches(o) <=>
        /\ o.sellable /\ o.group = Groups[usage]
        /\ \A n \in DOMAIN o.scope : n \in DOMAIN a /\ a[n] \in o.scope[n]
  BY DEF Offered, Matches, charging_scope_matches
<1>5. Applies(k, usage) <=>
        /\ o.sellable /\ o.group = Groups[usage]
        /\ \A n \in DOMAIN o.scope : known(n) /\ value(n) \in o.scope[n]
  BY DEF Applies
<1> HIDE DEF o, a, known, value
<1> QED BY <1>2, <1>3, <1>4, <1>5 DEF o

(* The result of a usage: what Done appends.                                *)
Verdict(u, r) ==
    LET left == {k \in DOMAIN catalog : Applies(k, u) /\ k \notin r.missed}
    IN  IF r.by # 0
        THEN /\ r.by \in left /\ catalog[r.by].unit # "none"
             /\ \A k \in left : r.by <= k
        ELSE \/ ~r.listed \/ left = {}
             \/ \E k \in left : catalog[k].unit = "none" /\ \A l \in left : k <= l

LEMMA VerdictsRate == FirstMatchRates <=> \A u \in DOMAIN rated : Verdict(u, rated[u])
BY DEF FirstMatchRates, Verdict

(* A usage that is done leaves the loop as it was before the first offering *)
(* and keeps the results of the others.                                     *)
LEMMA DoneKeeps ==
    ASSUME RatingTypes, LoopInv, FirstMatchRates, Rating, NEW b \in Nat, Done(b),
           Verdict(usage, [by |-> b, missed |-> missed, listed |-> i > 0]),
           total' \in Nat, granted' \in Quantity
    PROVE  RatingTypes' /\ LoopInv' /\ FirstMatchRates'
<1> DEFINE r == [by |-> b, missed |-> missed, listed |-> i > 0]
<1>1. Len(catalog) \in Nat /\ DOMAIN catalog = 1..Len(catalog) /\ Len(Groups) \in Nat
  BY RatingAssumption DEF RatingTypes
<1>2. r \in [by : Nat, missed : SUBSET Nat, listed : BOOLEAN]
  BY <1>1 DEF LoopInv, RatingTypes
<1>3. /\ rated' = Append(rated, r) /\ usage' = usage + 1 /\ i' = 0 /\ missed' = {}
      /\ catalog' = catalog /\ request' = request
  BY DEF Done
<1>4. usage <= Len(Groups)
  BY DEF Rating
<1>a. Verdict(usage, r)
  OBVIOUS
<1> HIDE DEF r
<1>5. RatingTypes'
  BY <1>1, <1>2, <1>3, <1>4 DEF RatingTypes
<1>6. LoopInv'
  BY <1>1, <1>3 DEF LoopInv
<1>7. ASSUME NEW u, NEW x PROVE Verdict(u, x)' <=> Verdict(u, x)
  BY <1>3 DEF Verdict, Applies
<1>8. /\ DOMAIN rated' = 1..usage /\ rated'[usage] = r
      /\ \A u \in 1..usage : u # usage => u \in DOMAIN rated /\ rated'[u] = rated[u]
  BY <1>2, <1>3 DEF RatingTypes
<1>9. \A u \in DOMAIN rated' : Verdict(u, rated'[u])
  BY <1>8, <1>a, VerdictsRate
<1>10. \A u \in DOMAIN rated' : Verdict(u, rated[u])'
  BY <1>7, <1>9 DEF Verdict
<1>11. FirstMatchRates'
  BY <1>10 DEF FirstMatchRates, Verdict
<1> QED BY <1>5, <1>6, <1>11

(* An offering passed over either does not apply or is recorded.            *)
LEMMA SkipKeeps ==
    ASSUME RatingTypes, LoopInv, FirstMatchRates, i \in 1..Len(catalog),
           NEW k \in SUBSET {i}, Skip(k), Applies(i, usage) => i \in k
    PROVE  RatingTypes' /\ LoopInv' /\ FirstMatchRates'
<1>1. Len(catalog) \in Nat /\ DOMAIN catalog = 1..Len(catalog)
  BY RatingAssumption DEF RatingTypes
<1>2. /\ i' = i + 1 /\ missed' = missed \cup k /\ catalog' = catalog /\ request' = request
      /\ usage' = usage /\ rated' = rated /\ total' = total /\ granted' = granted
  BY DEF Skip
<1>3. RatingTypes'
  BY <1>1, <1>2 DEF RatingTypes
<1>4. \A j, u : Applies(j, u)' <=> Applies(j, u)
  BY <1>2 DEF Applies
<1>5. LoopInv'
  <2>1. missed' \subseteq DOMAIN catalog' /\ \A j \in missed' : j < i'
    <3>1. ASSUME NEW j \in missed \cup k PROVE j \in DOMAIN catalog /\ j < i + 1
      <4>1. CASE j \in missed
        BY <1>1, <4>1 DEF LoopInv, RatingTypes
      <4>2. CASE j = i
        BY <1>1, <4>2 DEF RatingTypes
      <4> QED BY <3>1, <4>1, <4>2
    <3> QED BY <1>2, <3>1
  <2>2. ASSUME NEW j \in DOMAIN catalog, j < i + 1, Applies(j, usage)
        PROVE  j \in missed \cup k
    BY <1>1, <2>2 DEF LoopInv, RatingTypes
  <2>3. \A j \in DOMAIN catalog' : j < i' /\ Applies(j, usage)' => j \in missed'
    BY <1>2, <1>4, <2>2
  <2> QED BY <2>1, <2>3 DEF LoopInv
<1>6. FirstMatchRates'
  BY <1>2 DEF FirstMatchRates, Applies
<1> QED BY <1>3, <1>5, <1>6

(* What is left to rate by when the loop stops at an offering.              *)
LEMMA StopsAtFirst ==
    ASSUME RatingTypes, LoopInv, i \in 1..Len(catalog), Applies(i, usage)
    PROVE  LET left == {k \in DOMAIN catalog : Applies(k, usage) /\ k \notin missed}
           IN  i \in left /\ \A k \in left : i <= k
BY RatingAssumption DEF RatingTypes, LoopInv

(* Grants stay quantities.                                                  *)
LEMMA GrantsTyped ==
    ASSUME RatingTypes, i \in 1..Len(catalog), catalog[i].unit # "none",
           NEW g \in Grants(catalog[i])
    PROVE  g \in Quantity
<1> DEFINE o == catalog[i]
<1>1. o.unit \in {"volume", "units", "time"} /\ o.amount \in Nat
  BY RatingAssumption DEF RatingTypes, Units
<1> HIDE DEF o
<1>2. GrantOf(o) \in Quantity
  BY <1>1 DEF GrantOf, NoQuantity, Quantity
<1>3. ASSUME NEW p \in Predictions PROVE Sized(o.amount, p) \in Nat
  <2>1. p \in Nat
    BY RatingAssumption
  <2>2. o.amount \div 2 \in Nat
    BY <1>1
  <2> QED BY <1>1, <2>1, <2>2 DEF Sized
<1>4. ASSUME NEW p \in Predictions
      PROVE  [NoQuantity EXCEPT !.volume = Sized(o.amount, p)] \in Quantity
  BY <1>3 DEF NoQuantity, Quantity
<1>5. g \in Grants(o)
  BY DEF o
<1> QED BY <1>2, <1>4, <1>5 DEF Grants

(* Each step of the loop keeps the invariant.                               *)
LEMMA ListKeeps ==
    ASSUME RatingTypes, LoopInv, FirstMatchRates, ListOfferings
    PROVE  RatingTypes' /\ LoopInv' /\ FirstMatchRates'
<1>1. Len(catalog) \in Nat /\ DOMAIN catalog = 1..Len(catalog)
  BY RatingAssumption DEF RatingTypes
<1>2. CASE i' = 1 /\ UNCHANGED <<catalog, request, usage, missed, rated, total, granted>>
  <2>1. RatingTypes'
    BY <1>1, <1>2 DEF RatingTypes
  <2>2. LoopInv'
    <3>1. missed = {}
      BY <1>1 DEF LoopInv, ListOfferings
    <3>2. \A k \in DOMAIN catalog' : ~(k < i')
      BY <1>1, <1>2
    <3> QED BY <1>2, <3>1, <3>2 DEF LoopInv
  <2>3. FirstMatchRates'
    BY <1>2 DEF FirstMatchRates, Applies
  <2> QED BY <2>1, <2>2, <2>3
<1>3. CASE Done(0) /\ UNCHANGED <<total, granted>>
  <2>1. Rating /\ i = 0
    BY DEF ListOfferings
  <2>2. Verdict(usage, [by |-> 0, missed |-> missed, listed |-> i > 0])
    <3> DEFINE r == [by |-> 0, missed |-> missed, listed |-> i > 0]
    <3>0. ~(i > 0)
      BY <2>1
    <3>1. r.by = 0 /\ r.listed = (i > 0)
      OBVIOUS
    <3> HIDE DEF r
    <3>2. Verdict(usage, r)
      BY <3>0, <3>1 DEF Verdict
    <3> QED BY <3>2 DEF r
  <2>3. total' \in Nat /\ granted' \in Quantity
    BY <1>3 DEF RatingTypes
  <2> QED BY <1>3, <2>1, <2>2, <2>3, DoneKeeps
<1> QED BY <1>2, <1>3 DEF ListOfferings

(* A turn of the loop.                                                      *)
LEMMA ConsiderKeeps ==
    ASSUME RatingTypes, LoopInv, FirstMatchRates, ConsiderOffering
    PROVE  RatingTypes' /\ LoopInv' /\ FirstMatchRates'
<1> DEFINE o == catalog[i]
           left == {k \in DOMAIN catalog : Applies(k, usage) /\ k \notin missed}
<1>1. Rating /\ i \in 1..Len(catalog) /\ i \in DOMAIN catalog
  BY RatingAssumption DEF ConsiderOffering, RatingTypes
<1>2. Offered(o) /\ Matches(o) <=> Applies(i, usage)
  BY <1>1, MatchingIsApplying
<1>3. CASE ~Offered(o) /\ Skip({})
  BY <1>1, <1>2, <1>3, SkipKeeps
<1>4. CASE Offered(o) /\ Skip({i})
  BY <1>1, <1>4, SkipKeeps
<1>5. CASE Offered(o) /\ ~Matches(o) /\ Skip({})
  BY <1>1, <1>2, <1>5, SkipKeeps
<1>6. ASSUME Offered(o), Matches(o), o.unit = "none", Done(0), UNCHANGED <<total, granted>>
      PROVE  RatingTypes' /\ LoopInv' /\ FirstMatchRates'
  <2>1. i \in left /\ \A k \in left : i <= k
    BY <1>1, <1>2, <1>6, StopsAtFirst
  <2>2. Verdict(usage, [by |-> 0, missed |-> missed, listed |-> i > 0])
    BY <1>6, <2>1 DEF Verdict
  <2>3. total' \in Nat /\ granted' \in Quantity
    BY <1>6 DEF RatingTypes
  <2> QED BY <1>1, <1>6, <2>2, <2>3, DoneKeeps
<1>7. ASSUME Offered(o), Matches(o), o.unit # "none", Done(i), total' = total + o.price,
             NEW g \in Grants(o),
             granted' = [volume |-> granted.volume + g.volume,
                         units |-> granted.units + g.units,
                         time |-> granted.time + g.time]
      PROVE  RatingTypes' /\ LoopInv' /\ FirstMatchRates'
  <2>1. i \in left /\ \A k \in left : i <= k
    BY <1>1, <1>2, <1>7, StopsAtFirst
  <2>2. i # 0 /\ i \in Nat
    BY <1>1 DEF RatingTypes
  <2>3. Verdict(usage, [by |-> i, missed |-> missed, listed |-> i > 0])
    BY <1>7, <2>1, <2>2 DEF Verdict
  <2>4. g \in Quantity
    BY <1>1, <1>7, GrantsTyped
  <2>5. total' \in Nat /\ granted' \in Quantity
    <3>1. o.price \in Nat
      BY <1>1, RatingAssumption DEF RatingTypes
    <3>2. total' \in Nat
      BY <1>7, <3>1 DEF RatingTypes
    <3>3. granted' \in Quantity
      <4>1. ASSUME NEW p \in Quantity, NEW q \in Quantity
            PROVE  [volume |-> p.volume + q.volume, units |-> p.units + q.units,
                    time |-> p.time + q.time] \in Quantity
        BY DEF Quantity
      <4>2. granted \in Quantity
        BY DEF RatingTypes
      <4> QED BY <1>7, <2>4, <4>1, <4>2
    <3> QED BY <3>2, <3>3
  <2> QED BY <1>1, <1>7, <2>2, <2>3, <2>5, DoneKeeps
<1> QED BY <1>3, <1>4, <1>5, <1>6, <1>7 DEF ConsiderOffering

(* The end of the list.                                                     *)
LEMMA NoMoreKeeps ==
    ASSUME RatingTypes, LoopInv, FirstMatchRates, NoMoreOfferings
    PROVE  RatingTypes' /\ LoopInv' /\ FirstMatchRates'
<1>1. Len(catalog) \in Nat /\ DOMAIN catalog = 1..Len(catalog)
  BY RatingAssumption DEF RatingTypes
<1>2. Rating /\ Done(0) /\ total' \in Nat /\ granted' \in Quantity
  BY DEF NoMoreOfferings, RatingTypes
<1>3. \A k \in DOMAIN catalog : Applies(k, usage) => k \in missed
  BY <1>1 DEF NoMoreOfferings, LoopInv, RatingTypes
<1>4. Verdict(usage, [by |-> 0, missed |-> missed, listed |-> i > 0])
  BY <1>3 DEF Verdict
<1> QED BY <1>2, <1>4, DoneKeeps

(* The invariants of the loop look at nothing else.                         *)
LEMMA SameLoop ==
    ASSUME RatingTypes, LoopInv, FirstMatchRates,
           catalog' = catalog /\ request' = request /\ usage' = usage /\ i' = i
           /\ missed' = missed /\ rated' = rated /\ total' = total /\ granted' = granted
    PROVE  RatingTypes' /\ LoopInv' /\ FirstMatchRates'
<1>1. RatingTypes'
  BY DEF RatingTypes
<1>2. \A j, u : Applies(j, u)' <=> Applies(j, u)
  BY DEF Applies
<1>3. LoopInv'
  BY <1>2 DEF LoopInv, Applies
<1>4. FirstMatchRates'
  BY DEF FirstMatchRates, Applies
<1> QED BY <1>1, <1>3, <1>4

(* The Release.                                                             *)
LEMMA SettleKeeps ==
    ASSUME RatingInv, Settle
    PROVE  RatingInv'
<1>1. PICK u \in UsedReports : used' = u /\ debit' = proportional_debit(total, granted, u)
  BY DEF Settle
<1>2. u \in Quantity
  BY RatingAssumption
<1>3. ~Rating /\ catalog' = catalog /\ request' = request /\ usage' = usage /\ i' = i
      /\ missed' = missed /\ rated' = rated /\ total' = total /\ granted' = granted
  BY DEF Settle
<1>4. debit' \in Nat
  BY <1>1, <1>2, DebitBounded DEF RatingInv, RatingTypes
<1>5. SettledInv'
  BY <1>1, <1>2, <1>3, <1>4 DEF SettledInv, Rating
<1>6. RatingTypes' /\ LoopInv' /\ FirstMatchRates'
  BY <1>3, SameLoop DEF RatingInv
<1> QED BY <1>5, <1>6 DEF RatingInv

LEMMA RatingInductive == RatingSpec => []RatingInv
<1>1. RatingInit => RatingInv
  <2> SUFFICES ASSUME RatingInit PROVE RatingInv
    OBVIOUS
  <2>1. Len(catalog) \in Nat /\ DOMAIN catalog = 1..Len(catalog) /\ Len(Groups) \in Nat
    BY RatingAssumption DEF RatingInit
  <2>2. RatingTypes
    BY <2>1 DEF RatingInit, RatingTypes, NoQuantity, Quantity
  <2>3. LoopInv
    BY <2>1 DEF RatingInit, LoopInv
  <2>4. FirstMatchRates
    BY DEF RatingInit, FirstMatchRates
  <2>5. SettledInv
    BY DEF RatingInit, SettledInv, NoQuantity, Quantity
  <2> QED BY <2>2, <2>3, <2>4, <2>5 DEF RatingInv
<1>2. RatingInv /\ [RatingNext]_ratingVars => RatingInv'
  <2> SUFFICES ASSUME RatingInv, [RatingNext]_ratingVars PROVE RatingInv'
    OBVIOUS
  <2>1. ASSUME Rating, UNCHANGED <<used, debit>> PROVE SettledInv'
    <3>1. debit = NotSettled
      BY <2>1 DEF RatingInv, SettledInv
    <3> QED BY <2>1, <3>1 DEF RatingInv, SettledInv, NotSettled
  <2>2. CASE ListOfferings
    <3>1. SettledInv'
      BY <2>1, <2>2 DEF ListOfferings, Done
    <3> QED BY <2>2, <3>1, ListKeeps DEF RatingInv
  <2>3. CASE ConsiderOffering
    <3>1. SettledInv'
      BY <2>1, <2>3 DEF ConsiderOffering, Done, Skip
    <3> QED BY <2>3, <3>1, ConsiderKeeps DEF RatingInv
  <2>4. CASE NoMoreOfferings
    <3>1. SettledInv'
      BY <2>1, <2>4 DEF NoMoreOfferings, Done
    <3> QED BY <2>4, <3>1, NoMoreKeeps DEF RatingInv
  <2>5. CASE Settle
    BY <2>5, SettleKeeps
  <2>6. CASE UNCHANGED ratingVars
    <3>1. /\ catalog' = catalog /\ request' = request /\ usage' = usage /\ i' = i
          /\ missed' = missed /\ rated' = rated /\ total' = total /\ granted' = granted
          /\ used' = used /\ debit' = debit
      BY <2>6 DEF ratingVars
    <3>2. RatingTypes' /\ LoopInv' /\ FirstMatchRates'
      BY <3>1, SameLoop DEF RatingInv
    <3>3. SettledInv'
      BY <3>1 DEF RatingInv, SettledInv, Rating
    <3> QED BY <3>2, <3>3 DEF RatingInv
  <2> QED BY <2>2, <2>3, <2>4, <2>5, <2>6 DEF RatingNext
<1> QED BY <1>1, <1>2, PTL DEF RatingSpec

(* build_rating_grant rates every usage by the first offering that applies  *)
(* to it, whatever catalogue, request and number of usages, whichever       *)
(* prices cannot be read and whenever the list cannot be fetched.           *)
THEOREM RatesByFirstMatch == RatingSpec => []FirstMatchRates
<1>1. RatingInv => FirstMatchRates
  BY DEF RatingInv
<1> QED BY <1>1, RatingInductive, PTL

(* proportional_debit is fair, for all grants the rating may have added up  *)
(* and all reports: never more than the total, all of it for all the grants,*)
(* nothing for nothing, and no less for more usage.                         *)
THEOREM SettlesFairly == RatingSpec => []DebitFair
<1>1. RatingInv => DebitFair
  <2> SUFFICES ASSUME RatingInv, debit # NotSettled
               PROVE  /\ debit <= total
                      /\ AtLeast(used, granted) => debit = total
                      /\ used = NoQuantity /\ granted # NoQuantity => debit = 0
                      /\ \A v \in UsedReports :
                            AtLeast(v, used) => proportional_debit(total, granted, v) >= debit
    BY DEF DebitFair
  <2>1. /\ total \in Nat /\ granted \in Quantity /\ used \in Quantity
        /\ debit = proportional_debit(total, granted, used)
    BY DEF RatingInv, RatingTypes, SettledInv
  <2>2. debit <= total
    BY <2>1, DebitBounded
  <2>3. AtLeast(used, granted) => debit = total
    BY <2>1, DebitOfAll
  <2>4. used = NoQuantity /\ granted # NoQuantity => debit = 0
    BY <2>1, DebitOfNothing
  <2>5. ASSUME NEW v \in UsedReports, AtLeast(v, used)
        PROVE  proportional_debit(total, granted, v) >= debit
    <3>1. v \in Quantity
      BY RatingAssumption
    <3>2. proportional_debit(total, granted, used) <= proportional_debit(total, granted, v)
      BY <2>1, <2>5, <3>1, DebitMonotone
    <3>3. proportional_debit(total, granted, v) \in Nat
          /\ proportional_debit(total, granted, used) \in Nat
      BY <2>1, <3>1, DebitBounded
    <3> QED BY <2>1, <3>2, <3>3
  <2> QED BY <2>2, <2>3, <2>4, <2>5
<1> QED BY <1>1, RatingInductive, PTL

(* With grants in one dimension the debit is the same in any unit; the      *)
(* property asks it of two factors, DebitUnitFree shows it of all.          *)
THEOREM UnitsDoNotMatter == RatingSpec => []OneDimensionUnitFree
<1>1. RatingInv => OneDimensionUnitFree
  <2> SUFFICES ASSUME RatingInv, debit # NotSettled,
                      granted.volume = 0 \/ granted.units + granted.time = 0,
                      NEW k \in 2..3
               PROVE  proportional_debit(total, Recount(granted, k), Recount(used, k)) = debit
    BY DEF OneDimensionUnitFree, UnitFree
  <2>1. /\ total \in Nat /\ granted \in Quantity /\ used \in Quantity
        /\ debit = proportional_debit(total, granted, used)
    BY DEF RatingInv, RatingTypes, SettledInv
  <2>2. k \in Nat \ {0}
    OBVIOUS
  <2> QED BY <2>1, <2>2, DebitUnitFree
<1> QED BY <1>1, RatingInductive, PTL
=============================================================================
