---------------------------- MODULE CdrStore ----------------------------
(***************************************************************************)
(* CdrWriter: the CHF's charging records in Doris.  Handlers write one row *)
(* per request, numbered by the consumer's invocationSequenceNumber; a     *)
(* Release then looks for holes in the numbers of its session and raises   *)
(* an alarm; an hourly thread moves rows older than the retention time to  *)
(* an archive file: SELECT, write and flush the file, DELETE.  write,      *)
(* detect_gaps and apply_retention each hold mutex_ from start to end, so  *)
(* nothing of this process runs inside a sweep, but a sweep fits between   *)
(* the row of a Release and its look for holes, and time goes on in a      *)
(* sweep: each statement evaluates NOW() for itself.                       *)
(***************************************************************************)
EXTENDS Integers, FiniteSets

CONSTANTS
    Sessions,     \* charging data resources
    MaxSeq,       \* bound: requests of a session
    Retention,    \* cdr_retention_days, in clock ticks
    MaxClock,     \* bound: clock ticks
    MaxFaults     \* bound: failed statements or files, and crashes

ASSUME CdrAssumption ==
    MaxSeq \in Nat /\ Retention \in Nat /\ MaxClock \in Nat /\ MaxFaults \in Nat

Records == Sessions \X (1..MaxSeq)

VARIABLES
    clock,        \* NOW() of the database
    row,          \* per record: its state and, once stored, recorded_at
    issued,       \* per session, requests sent by the consumer
    ended,        \* sessions whose last request was the Release
    checking,     \* sessions whose Release has yet to look for gaps
    archive,      \* records in the archive files
    sweep,        \* apply_retention: its step, the rows it read and when
    alarm,        \* records the gap alarm named as missing
    faults

vars == <<clock, row, issued, ended, checking, archive, sweep, alarm, faults>>

RowStates == {"none", "pending", "stored", "lost", "deleted"}

TypeOK ==
    /\ clock \in Nat
    /\ row \in [Records -> [st : RowStates, at : Nat]]
    /\ issued \in [Sessions -> 0..MaxSeq]
    /\ ended \subseteq Sessions /\ checking \subseteq Sessions
    /\ archive \subseteq Records
    /\ sweep \in [pc : {"idle", "selected", "archived"}, rows : SUBSET Records,
                  at : Nat]
    /\ alarm \subseteq Records
    /\ faults \in Nat

NoSweep == [pc |-> "idle", rows |-> {}, at |-> 0]

Init ==
    /\ clock = 0
    /\ row = [x \in Records |-> [st |-> "none", at |-> 0]]
    /\ issued = [s \in Sessions |-> 0]
    /\ ended = {} /\ checking = {}
    /\ archive = {} /\ alarm = {}
    /\ sweep = NoSweep
    /\ faults = 0

Fault == faults < MaxFaults /\ faults' = faults + 1

Stored == {x \in Records : row[x].st = "stored"}

(* recorded_at < DATE_SUB(NOW(), INTERVAL retention_days DAY)               *)
Expired(x) == row[x].at + Retention < clock

---------------------------------------------------------------------------
(* The consumer sends the session's next request; a handler takes it up.    *)
Request(s) ==
    /\ s \notin ended
    /\ issued[s] < MaxSeq
    /\ issued' = [issued EXCEPT ![s] = issued[s] + 1]
    /\ row' = [row EXCEPT ![<<s, issued[s] + 1>>].st = "pending"]
    /\ \/ UNCHANGED ended
       \/ issued[s] > 0 /\ ended' = ended \cup {s}
    /\ UNCHANGED <<clock, checking, archive, sweep, alarm, faults>>

(* Mutant: one number too many.                                             *)
detect_gaps_PastEnd(S) ==
    IF Cardinality(S) < 2 THEN {}
    ELSE {n \in (1..(MaxSeq + 1)) \ S : \E l, h \in S : l <= n /\ n <= h + 1}

(* Mutant: two rows are not looked at.                                      *)
detect_gaps_NeedsThree(S) ==
    IF Cardinality(S) < 3 THEN {}
    ELSE {n \in (1..MaxSeq) \ S : \E l, h \in S : l <= n /\ n <= h}

(* detect_gaps on the DISTINCT sequence numbers S of a session: fewer than  *)
(* two give no gap, otherwise what is missing between least and greatest.   *)
detect_gaps(S) ==
    IF Cardinality(S) < 2 THEN {}
    ELSE LET lo == CHOOSE n \in S : \A m \in S : n <= m
             hi == CHOOSE n \in S : \A m \in S : m <= n
         IN  {n \in (1..MaxSeq) \ S : lo <= n /\ n <= hi}

SeqsOf(s, X) == {n \in 1..MaxSeq : <<s, n>> \in X}

IsRelease(x) == x[1] \in ended /\ x[2] = issued[x[1]]

(* CdrWriter::write: best effort, a failure is only logged.  The handler of *)
(* a Release goes on to look for gaps, whatever became of its row.          *)
write(x) ==
    /\ row[x].st = "pending"
    /\ sweep.pc = "idle"
    /\ \/ /\ row' = [row EXCEPT ![x] = [st |-> "stored", at |-> clock]]
          /\ UNCHANGED faults
       \/ /\ row' = [row EXCEPT ![x].st = "lost"]
          /\ Fault
    /\ checking' = IF IsRelease(x) THEN checking \cup {x[1]} ELSE checking
    /\ UNCHANGED <<clock, issued, ended, archive, sweep, alarm>>

(* The Release raises the alarm for what detect_gaps returns; a failed      *)
(* query finds nothing.                                                     *)
RaiseGapAlarm(s) ==
    /\ s \in checking
    /\ sweep.pc = "idle"
    /\ checking' = checking \ {s}
    /\ \/ /\ alarm' = alarm \cup {<<s, n>> : n \in detect_gaps(SeqsOf(s, Stored))}
          /\ UNCHANGED faults
       \/ UNCHANGED alarm /\ Fault
    /\ UNCHANGED <<clock, row, issued, ended, archive, sweep>>

Tick ==
    /\ clock < MaxClock
    /\ clock' = clock + 1
    /\ UNCHANGED <<row, issued, ended, checking, archive, sweep, alarm, faults>>

(* Mutant: the SELECT reads one row.                                        *)
SelectExpired_One ==
    /\ sweep.pc = "idle"
    /\ \E x \in Stored :
          Expired(x) /\ sweep' = [pc |-> "selected", rows |-> {x}, at |-> clock]
    /\ UNCHANGED <<clock, row, issued, ended, checking, archive, alarm, faults>>

(* apply_retention, SELECT: nothing expired ends the sweep, as does an      *)
(* error.                                                                   *)
SelectExpired ==
    /\ sweep.pc = "idle"
    /\ \E x \in Stored : Expired(x)
    /\ sweep' = [pc |-> "selected", rows |-> {x \in Stored : Expired(x)},
                 at |-> clock]
    /\ UNCHANGED <<clock, row, issued, ended, checking, archive, alarm, faults>>

(* Mutant: a failed write or flush is not noticed.                          *)
WriteArchive_Unchecked ==
    /\ sweep.pc = "selected"
    /\ \/ archive' = archive \cup sweep.rows /\ UNCHANGED faults
       \/ (\E part \in SUBSET sweep.rows : archive' = archive \cup part) /\ Fault
    /\ sweep' = [sweep EXCEPT !.pc = "archived"]
    /\ UNCHANGED <<clock, row, issued, ended, checking, alarm>>

(* The archive file is written and flushed; when that fails, what part of   *)
(* it reached the disk stays there and the sweep ends.                      *)
WriteArchive ==
    /\ sweep.pc = "selected"
    /\ \/ /\ archive' = archive \cup sweep.rows
          /\ sweep' = [sweep EXCEPT !.pc = "archived"]
          /\ UNCHANGED faults
       \/ /\ \E part \in SUBSET sweep.rows : archive' = archive \cup part
          /\ sweep' = NoSweep
          /\ Fault
    /\ UNCHANGED <<clock, row, issued, ended, checking, alarm>>

(* Mutant: the comparison is the wrong way round.                           *)
DeleteExpired_Reversed ==
    /\ sweep.pc = "archived"
    /\ \/ /\ row' = [x \in Records |-> IF x \in Stored /\ ~Expired(x)
                                       THEN [row[x] EXCEPT !.st = "deleted"]
                                       ELSE row[x]]
          /\ UNCHANGED faults
       \/ UNCHANGED row /\ Fault
    /\ sweep' = NoSweep
    /\ UNCHANGED <<clock, issued, ended, checking, archive, alarm>>

(* DELETE with the predicate of the SELECT, evaluated now.                  *)
DeleteExpired ==
    /\ sweep.pc = "archived"
    /\ \/ /\ row' = [x \in Records |-> IF x \in Stored /\ Expired(x)
                                       THEN [row[x] EXCEPT !.st = "deleted"]
                                       ELSE row[x]]
          /\ UNCHANGED faults
       \/ UNCHANGED row /\ Fault
    /\ sweep' = NoSweep
    /\ UNCHANGED <<clock, issued, ended, checking, archive, alarm>>

(* The process stops and starts again: the requests in progress and the     *)
(* sweep are lost.                                                          *)
Crash ==
    /\ Fault
    /\ sweep' = NoSweep
    /\ checking' = {}
    /\ row' = [x \in Records |-> IF row[x].st = "pending"
                                 THEN [row[x] EXCEPT !.st = "lost"] ELSE row[x]]
    /\ UNCHANGED <<clock, issued, ended, archive, alarm>>

(* The bounds allow nothing more.                                           *)
Rest ==
    /\ clock = MaxClock
    /\ sweep.pc = "idle"
    /\ UNCHANGED vars

Sweep == SelectExpired \/ WriteArchive \/ DeleteExpired

Next ==
    \/ \E s \in Sessions : Request(s)
    \/ \E x \in Records : write(x)
    \/ \E s \in Sessions : RaiseGapAlarm(s)
    \/ Tick
    \/ Sweep
    \/ Crash
    \/ Rest

(* The retention thread runs every hour, and its statements return.         *)
Spec == Init /\ [][Next]_vars /\ WF_vars(Sweep)

---------------------------------------------------------------------------
(* Between the statements of a sweep: every row still stored that had       *)
(* expired at the SELECT is among the rows read, and once the archive file  *)
(* is flushed all of those are in it.                                       *)
SweepInv ==
    sweep.pc # "idle" =>
       /\ sweep.at <= clock
       /\ \A x \in Stored : row[x].at + Retention < sweep.at => x \in sweep.rows
       /\ sweep.pc = "archived" => sweep.rows \subseteq archive

(* What the three steps of a sweep are for: a row that the DELETE takes is  *)
(* in a complete archive file, unless it expired after the SELECT of the    *)
(* same sweep.  Failures and crashes between the steps lose no other row.   *)
DeletedIsArchived ==
    [][\A x \in Records :
          row[x].st = "stored" /\ row'[x].st = "deleted" =>
             x \in archive \/ row[x].at + Retention >= sweep.at]_vars

(* The gap alarm of a Release finds every record of its session that was    *)
(* sent after one the store still holds and is not in the store itself,     *)
(* whatever happened to it (lost, in progress, swept), and nothing else,    *)
(* provided the row of the Release itself is there and the query works.     *)
AlarmExact ==
    [][\A s \in checking \ checking' :
          faults' = faults /\ row[<<s, issued[s]>>].st = "stored" =>
             \A n \in 1..MaxSeq :
                <<s, n>> \in alarm' <=>
                   /\ n < issued[s] /\ row[<<s, n>>].st # "stored"
                   /\ \E m \in 1..(n - 1) : row[<<s, m>>].st = "stored"]_vars

(* Every row that outlives its retention time is swept in the end: failed   *)
(* sweeps are retried.                                                      *)
ExpiredIsSwept ==
    \A x \in Records :
       (row[x].st = "stored" /\ Expired(x)) ~> (row[x].st = "deleted")
===========================================================================
