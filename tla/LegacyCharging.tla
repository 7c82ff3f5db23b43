------------------------- MODULE LegacyCharging -------------------------
(***************************************************************************)
(* The CHF's two other front ends, which charge through the same engine:   *)
(* Diameter Gy (DiameterServer, Credit-Control INITIAL, UPDATE and         *)
(* TERMINATION) and CAMEL (CapServer, InitialDP and ApplyChargingReport).  *)
(* Each connection or association is served by one thread that handles its *)
(* messages in turn and keeps the resources of its sessions in local       *)
(* variables, so they are gone when the peer disconnects.                  *)
(***************************************************************************)
EXTENDS ChargingEngine

CONSTANTS
    GyConns,        \* Diameter connections
    CapAssocs,      \* SCTP associations of gsmSSF peers
    SessionIds      \* Session-Id AVP values

ASSUME ThreadsAssumption ==
    Threads = GyConns \cup CapAssocs /\ GyConns \cap CapAssocs = {}

VARIABLES
    session_to_ref, \* per connection, Session-Id -> resource (0: no entry)
    current_ref     \* per association, the open dialogue's resource (0: none)

dialogVars == <<session_to_ref, current_ref>>
vars == <<engineVars, session_to_ref, current_ref>>

NoSessions == [i \in SessionIds |-> 0]

LegacyTypeOK ==
    /\ EngineTypeOK
    /\ session_to_ref \in [GyConns -> [SessionIds -> Refs \cup {0}]]
    /\ current_ref \in [CapAssocs -> Refs \cup {0}]

Init ==
    /\ EngineInit
    /\ session_to_ref = [c \in GyConns |-> NoSessions]
    /\ current_ref = [a \in CapAssocs |-> 0]

---------------------------------------------------------------------------
(* CCR-Initial: always a new resource, also for a Session-Id in use, whose  *)
(* entry it overwrites.                                                     *)
CCR_Initial(c) ==
    /\ \E i \in SessionIds, s \in Supis, n \in UsageCounts :
          /\ create(s)
          /\ Receive(c, Charging(nextId + 1, s, n))
          /\ session_to_ref' = [session_to_ref EXCEPT ![c][i] = nextId + 1]
    /\ UNCHANGED current_ref

(* CCR-Update: the session map alone says whether the session is open.      *)
CCR_Update(c) ==
    /\ \E i \in SessionIds, n \in UsageCounts :
          LET r == session_to_ref[c][i]
          IN  r # 0 /\ Receive(c, Charging(r, content[r].supi, n))
    /\ UNCHANGED <<storeVars, dialogVars>>

(* CCR-Termination: only octets are decoded.                                *)
CCR_Termination(c) ==
    /\ \E i \in SessionIds, u \in UsedReports :
          LET r == session_to_ref[c][i]
          IN  r # 0 /\ Receive(c, Settling(r, [u EXCEPT !.units = 0, !.time = 0]))
    /\ UNCHANGED <<storeVars, dialogVars>>

(* An UPDATE or TERMINATION for an unknown Session-Id, or any other request *)
(* type: an error answer and nothing else.                                  *)
CCR_Refused(c) ==
    /\ Receive(c, Idle)
    /\ UNCHANGED <<storeVars, dialogVars>>

(* proportional_debit is called without a time dimension.                   *)
GyReadGranted(c) ==
    /\ get_granted(c, [content[job[c].ref].granted EXCEPT !.time = 0])
    /\ UNCHANGED dialogVars

(* Mutant: the resource stays in the active set.                            *)
RemoveActive_Forgotten(t) ==
    /\ At(t, "release")
    /\ Goto(t, FirstSettlingCall(t))
    /\ UNCHANGED <<balanceVars, storeVars, cdr, authorized, envVars, dialogVars>>

(* The result of the SREM is not looked at.                                 *)
RemoveActive(t) ==
    /\ At(t, "release")
    /\ active' = active \ {job[t].ref}
    /\ Goto(t, FirstSettlingCall(t))
    /\ UNCHANGED <<balanceVars, nextId, content, cdr, authorized, envVars, dialogVars>>

(* Mutant: the entry is kept.                                               *)
GyEndSession_KeepsEntry(c) == write_release_cdr(c) /\ UNCHANGED dialogVars

(* The Release row, then the session's entry is erased.                     *)
GyEndSession(c) ==
    /\ write_release_cdr(c)
    /\ session_to_ref' = [session_to_ref EXCEPT ![c] =
          [i \in SessionIds |-> IF session_to_ref[c][i] = job[c].ref
                                THEN 0 ELSE session_to_ref[c][i]]]
    /\ UNCHANGED current_ref

---------------------------------------------------------------------------
(* InitialDP: a new resource for the IMSI, replacing the dialogue's.        *)
InitialDP(a) ==
    /\ \E s \in Buckets :
          create(s) /\ Receive(a, Charging(nextId + 1, s, 1))
    /\ current_ref' = [current_ref EXCEPT ![a] = nextId + 1]
    /\ UNCHANGED session_to_ref

(* ApplyChargingReport with legActive: the call goes on, one more period is *)
(* charged.  If it is refused the dialogue stays as it is.                  *)
ReportLegActive(a) ==
    /\ current_ref[a] # 0
    /\ Receive(a, Charging(current_ref[a], content[current_ref[a]].supi, 1))
    /\ UNCHANGED <<storeVars, dialogVars>>

(* The final ApplyChargingReport: elapsed seconds are what was used.        *)
ReportFinal(a) ==
    /\ current_ref[a] # 0
    /\ \E u \in UsedReports :
          Receive(a, Settling(current_ref[a], [u EXCEPT !.volume = 0, !.units = 0]))
    /\ UNCHANGED <<storeVars, dialogVars>>

(* A message over the TPS ceiling, one that cannot be decoded, an InitialDP *)
(* without IMSI, a report without an open dialogue: nothing changes.        *)
CapIgnored(a) ==
    /\ Receive(a, Idle)
    /\ UNCHANGED <<storeVars, dialogVars>>

(* Only a time grant is proportioned; without one the whole total is due.   *)
CapReadGranted(a) ==
    /\ get_granted(a, [NoQuantity EXCEPT !.time = content[job[a].ref].granted.time])
    /\ UNCHANGED dialogVars

(* Mutant: the dialogue is not cleared.                                     *)
CapEndDialogue_KeepsRef(a) ==
    /\ At(a, "release_cdr")
    /\ job' = [job EXCEPT ![a] = Idle]
    /\ UNCHANGED <<balanceVars, storeVars, cdr, authorized, envVars, dialogVars>>

(* TC-End: the dialogue is cleared; CAP writes no Release row.              *)
CapEndDialogue(a) ==
    /\ At(a, "release_cdr")
    /\ job' = [job EXCEPT ![a] = Idle]
    /\ current_ref' = [current_ref EXCEPT ![a] = 0]
    /\ UNCHANGED <<balanceVars, storeVars, cdr, authorized, envVars, session_to_ref>>

---------------------------------------------------------------------------
Answer(t) ==
    /\ Authorize(t)
    /\ UNCHANGED <<balanceVars, storeVars, cdr, envVars, dialogVars>>

(* The peer is gone: the thread finds out when it next reads, or when it    *)
(* writes an answer, and returns; its sessions are forgotten.               *)
Disconnect(t) ==
    /\ job[t].pc \in {"idle", "answer"}
    /\ Fault
    /\ job' = [job EXCEPT ![t] = Idle]
    /\ session_to_ref' = [c \in GyConns |->
                            IF c = t THEN NoSessions ELSE session_to_ref[c]]
    /\ current_ref' = [a \in CapAssocs |-> IF a = t THEN 0 ELSE current_ref[a]]
    /\ UNCHANGED <<balanceVars, storeVars, cdr, authorized, requests, bssOps>>

Restart ==
    /\ Crash
    /\ session_to_ref' = [c \in GyConns |-> NoSessions]
    /\ current_ref' = [a \in CapAssocs |-> 0]

Environment == (\E s \in Buckets : TopUp(s) \/ CareDebit(s)) /\ UNCHANGED dialogVars

Engine(t) == (ChargeStep(t) \/ SettleStep(t)) /\ UNCHANGED dialogVars

(* What the thread does by itself once it has a message.                    *)
GyHandler(c) ==
    Engine(c) \/ GyReadGranted(c) \/ RemoveActive(c) \/ GyEndSession(c) \/ Answer(c)

CapHandler(a) ==
    Engine(a) \/ CapReadGranted(a) \/ RemoveActive(a) \/ CapEndDialogue(a) \/ Answer(a)

Rest == (\A t \in Threads : At(t, "idle")) /\ UNCHANGED vars

Next ==
    \/ \E c \in GyConns :
          \/ CCR_Initial(c) \/ CCR_Update(c) \/ CCR_Termination(c)
          \/ CCR_Refused(c) \/ GyHandler(c)
    \/ \E a \in CapAssocs :
          \/ InitialDP(a) \/ ReportLegActive(a) \/ ReportFinal(a)
          \/ CapIgnored(a) \/ CapHandler(a)
    \/ \E t \in Threads : Disconnect(t)
    \/ Restart
    \/ Environment
    \/ Rest

(* A thread that has a message keeps running, and every call it makes       *)
(* returns: balance-management answers or the connection breaks.            *)
Fairness ==
    /\ \A c \in GyConns : WF_vars(GyHandler(c))
    /\ \A a \in CapAssocs : WF_vars(CapHandler(a))

Spec == Init /\ [][Next]_vars /\ Fairness

---------------------------------------------------------------------------
(* A session that ends over Gy or CAP has its whole reservation settled:    *)
(* its messages come one after another on one thread, so no charge can slip *)
(* in between reading the total and returning it.  (A fault may strand the  *)
(* money; over the SBI the race of Update and Release does.)                *)
EndedIsSettled ==
    \A r \in Refs :
       (phase[r] = "closed") ~> (memo[r].freed = content[r].reserved \/ faults > 0)

(* One resource belongs to one dialogue: the SREM that Gy and CAP do not    *)
(* check is made once because no two entries lead to the same resource, and *)
(* an entry leads to a resource that is active until its own thread ends it.*)
DialoguesDisjoint ==
    /\ \A c, d \in GyConns, i, j \in SessionIds :
          session_to_ref[c][i] # 0 /\ session_to_ref[c][i] = session_to_ref[d][j]
             => c = d /\ i = j
    /\ \A a \in CapAssocs : current_ref[a] # 0 =>
          /\ \A b \in CapAssocs : current_ref[b] = current_ref[a] => a = b
          /\ \A c \in GyConns, i \in SessionIds : session_to_ref[c][i] # current_ref[a]
    /\ \A c \in GyConns, i \in SessionIds :
          LET r == session_to_ref[c][i]
          IN  r # 0 /\ r \notin active => Settles(c) /\ job[c].ref = r
===========================================================================
