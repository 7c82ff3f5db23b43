---------------------- MODULE LegacyChargingProofs ----------------------
(***************************************************************************)
(* What holds of the Diameter Gy and CAP front ends for any number of      *)
(* connections, associations, Session-Ids, resources, requests and faults. *)
(* They do not look at the result of their SREM: what makes it safe all    *)
(* the same is that every resource belongs to one dialogue of one thread,  *)
(* and once that is shown the engine's lemmas apply to them too.           *)
(***************************************************************************)
EXTENDS LegacyCharging, ChargingEngineProofs

(* Thread t has an entry that leads to resource r.                          *)
Holds(t, r) ==
    /\ r # 0
    /\ \/ t \in GyConns /\ \E i \in SessionIds : session_to_ref[t][i] = r
       \/ t \in CapAssocs /\ current_ref[t] = r

DialogTypeOK ==
    /\ session_to_ref \in [GyConns -> [SessionIds -> Refs \cup {0}]]
    /\ current_ref \in [CapAssocs -> Refs \cup {0}]

OwnEntries ==
    \A c \in GyConns : \A i, j \in SessionIds :
       session_to_ref[c][i] # 0 /\ session_to_ref[c][i] = session_to_ref[c][j]
          => i = j

(* DialoguesDisjoint is not inductive: it lacks that a handler that ends a  *)
(* session was led to it by an entry of its own, and that no entry leads to *)
(* an id not given out yet.                                                 *)
DialogInv ==
    /\ DialogTypeOK
    /\ OwnEntries
    /\ \A t \in Threads, r \in Refs : Holds(t, r) =>
          /\ r <= nextId
          /\ r \in active \/ (Settles(t) /\ job[t].ref = r)
    /\ \A t, u \in Threads, r \in Refs : Holds(t, r) /\ Holds(u, r) => t = u
    /\ \A t \in Threads : job[t].pc \in Finals => Holds(t, job[t].ref)

IInv == EngineInv /\ DialogInv

LEMMA DialogueThreads ==
    ASSUME NEW t PROVE /\ t \in GyConns => t \in Threads /\ t \notin CapAssocs
                       /\ t \in CapAssocs => t \in Threads /\ t \notin GyConns
BY ThreadsAssumption

(* No two entries lead to one resource.                                     *)
LEMMA DisjointFollows == ASSUME IInv PROVE DialoguesDisjoint
<1>1. ASSUME NEW c \in GyConns, NEW d \in GyConns, NEW i \in SessionIds,
             NEW j \in SessionIds, session_to_ref[c][i] # 0,
             session_to_ref[c][i] = session_to_ref[d][j]
      PROVE  c = d /\ i = j
  <2> DEFINE r == session_to_ref[c][i]
  <2>1. r \in Refs /\ Holds(c, r) /\ Holds(d, r) /\ c \in Threads /\ d \in Threads
    BY <1>1, DialogueThreads DEF Holds, IInv, DialogInv, DialogTypeOK
  <2>2. c = d
    BY <2>1 DEF IInv, DialogInv
  <2> QED BY <1>1, <2>2 DEF IInv, DialogInv, OwnEntries
<1>2. ASSUME NEW a \in CapAssocs, current_ref[a] # 0
      PROVE  /\ \A b \in CapAssocs : current_ref[b] = current_ref[a] => a = b
             /\ \A c \in GyConns, i \in SessionIds : session_to_ref[c][i] # current_ref[a]
  <2> DEFINE r == current_ref[a]
  <2>1. r \in Refs /\ Holds(a, r) /\ a \in Threads /\ a \notin GyConns
    BY <1>2, DialogueThreads DEF Holds, IInv, DialogInv, DialogTypeOK
  <2>2. ASSUME NEW b \in CapAssocs, current_ref[b] = current_ref[a] PROVE a = b
    <3>1. Holds(b, r) /\ b \in Threads
      BY <1>2, <2>2, DialogueThreads DEF Holds
    <3> QED BY <2>1, <3>1 DEF IInv, DialogInv
  <2>3. ASSUME NEW c \in GyConns, NEW i \in SessionIds,
               session_to_ref[c][i] = current_ref[a]
        PROVE  FALSE
    <3>1. Holds(c, r) /\ c \in Threads
      BY <1>2, <2>3, DialogueThreads DEF Holds
    <3> QED BY <2>1, <3>1 DEF IInv, DialogInv
  <2> QED BY <2>2, <2>3
<1>3. ASSUME NEW c \in GyConns, NEW i \in SessionIds,
             session_to_ref[c][i] # 0, session_to_ref[c][i] \notin active
      PROVE  Settles(c) /\ job[c].ref = session_to_ref[c][i]
  <2> DEFINE r == session_to_ref[c][i]
  <2>1. r \in Refs /\ Holds(c, r) /\ c \in Threads
    BY <1>3, DialogueThreads DEF Holds, IInv, DialogInv, DialogTypeOK
  <2> QED BY <1>3, <2>1 DEF IInv, DialogInv
<1> QED BY <1>1, <1>2, <1>3 DEF DialoguesDisjoint

---------------------------------------------------------------------------
(* What an entry leads to was created, so a request for it is one of those  *)
(* the engine expects.                                                      *)
LEMMA EntryFacts ==
    ASSUME IInv, NEW t \in Threads, NEW r, Holds(t, r)
    PROVE  /\ r \in Refs /\ r \in 1..nextId /\ content[r].supi \in Supis
           /\ ~Settles(t) => r \in active
<1>1. r \in Refs
  BY DEF IInv, DialogInv, DialogTypeOK, Holds
<1>2. r <= nextId /\ nextId \in Nat /\ (~Settles(t) => r \in active)
  BY <1>1 DEF IInv, DialogInv, EngineInv, EngineTypeOK
<1> QED BY <1>1, <1>2 DEF Refs, IInv, EngineInv, EngineTypeOK

LEMMA UpdateStarts ==
    ASSUME IInv, NEW t \in Threads, NEW r, Holds(t, r), NEW n \in Nat,
           Receive(t, Charging(r, content[r].supi, n)), UNCHANGED storeVars
    PROVE  Starts(t)
<1>1. Charging(r, content[r].supi, n) \in Job /\ r \in 1..nextId
  BY EntryFacts, ChargingType
<1> QED BY <1>1 DEF Starts

LEMMA EndStarts ==
    ASSUME IInv, NEW t \in Threads, NEW r, Holds(t, r), NEW u \in Quantity,
           Receive(t, Settling(r, u)), UNCHANGED storeVars
    PROVE  Starts(t)
<1>1. Settling(r, u) \in Job /\ r \in 1..nextId
  BY EntryFacts, SettlingType DEF IInv, EngineInv
<1> QED BY <1>1 DEF Starts

(* The unchecked SREM finds the resource: the handler's own entry leads to  *)
(* it, so no one else has ended it.                                         *)
LEMMA RemovesActive ==
    ASSUME IInv, NEW t \in Threads, RemoveActive(t)
    PROVE  Leaves(t) /\ job[t].ref \in active
<1>1. job[t].pc = "release"
  BY DEF RemoveActive, At
<1>2. Holds(t, job[t].ref) /\ ~Settles(t)
  BY <1>1 DEF IInv, DialogInv, Finals, Settles
<1>3. job[t].ref \in active
  BY <1>2, EntryFacts
<1> QED BY <1>3 DEF RemoveActive, Leaves

LEMMA ReadsGranted ==
    ASSUME IInv, NEW t \in Threads, At(t, "read_granted")
    PROVE  /\ [content[job[t].ref].granted EXCEPT !.time = 0] \in Quantity
           /\ [NoQuantity EXCEPT !.time = content[job[t].ref].granted.time] \in Quantity
<1>1. job[t].ref \in Refs
  BY HandlerFacts DEF At, IInv
<1>2. content[job[t].ref].granted \in Quantity
  BY <1>1 DEF IInv, EngineInv, EngineTypeOK
<1> QED BY <1>2, QuantityTypes DEF Quantity

(* Both front ends do to the engine only what its lemmas allow.             *)
LEMMA DrivesEngine == IInv /\ [Next]_vars => [EngineNext]_engineVars
<1> SUFFICES ASSUME IInv, [Next]_vars PROVE [EngineNext]_engineVars
  OBVIOUS
<1>1. ASSUME NEW c \in GyConns, CCR_Initial(c) PROVE Creates(c)
  BY <1>1, EngineAssumption DEF CCR_Initial, Creates
<1>2. ASSUME NEW c \in GyConns, CCR_Update(c) PROVE Starts(c)
  <2>1. PICK i \in SessionIds, n \in UsageCounts :
           /\ session_to_ref[c][i] # 0
           /\ Receive(c, Charging(session_to_ref[c][i],
                                  content[session_to_ref[c][i]].supi, n))
    BY <1>2 DEF CCR_Update
  <2>2. /\ Holds(c, session_to_ref[c][i]) /\ n \in Nat /\ UNCHANGED storeVars
        /\ c \in Threads
    BY <1>2, <2>1, EngineAssumption, DialogueThreads DEF Holds, CCR_Update
  <2> QED BY <2>1, <2>2, UpdateStarts
<1>3. ASSUME NEW c \in GyConns, CCR_Termination(c) PROVE Starts(c)
  <2>1. PICK i \in SessionIds, u \in UsedReports :
           /\ session_to_ref[c][i] # 0
           /\ Receive(c, Settling(session_to_ref[c][i],
                                  [u EXCEPT !.units = 0, !.time = 0]))
    BY <1>3 DEF CCR_Termination
  <2>2. /\ Holds(c, session_to_ref[c][i]) /\ UNCHANGED storeVars /\ c \in Threads
    BY <1>3, <2>1, DialogueThreads DEF Holds, CCR_Termination
  <2>3. [u EXCEPT !.units = 0, !.time = 0] \in Quantity
    BY EngineAssumption DEF Quantity
  <2> QED BY <2>1, <2>2, <2>3, EndStarts
<1>4. ASSUME NEW a \in CapAssocs, InitialDP(a) PROVE Creates(a)
  <2>1. PICK s \in Buckets : create(s) /\ Receive(a, Charging(nextId + 1, s, 1))
    BY <1>4 DEF InitialDP
  <2>2. s \in Supis /\ 1 \in Nat
    BY DEF Supis
  <2> QED BY <2>1, <2>2 DEF Creates
<1>5. ASSUME NEW a \in CapAssocs, ReportLegActive(a) PROVE Starts(a)
  <2>1. /\ Holds(a, current_ref[a]) /\ UNCHANGED storeVars /\ a \in Threads /\ 1 \in Nat
    BY <1>5, DialogueThreads DEF Holds, ReportLegActive
  <2> QED BY <1>5, <2>1, UpdateStarts DEF ReportLegActive
<1>6. ASSUME NEW a \in CapAssocs, ReportFinal(a) PROVE Starts(a)
  <2>1. PICK u \in UsedReports :
           Receive(a, Settling(current_ref[a], [u EXCEPT !.volume = 0, !.units = 0]))
    BY <1>6 DEF ReportFinal
  <2>2. /\ Holds(a, current_ref[a]) /\ UNCHANGED storeVars /\ a \in Threads
    BY <1>6, DialogueThreads DEF Holds, ReportFinal
  <2>3. [u EXCEPT !.volume = 0, !.units = 0] \in Quantity
    BY EngineAssumption DEF Quantity
  <2> QED BY <2>1, <2>2, <2>3, EndStarts
<1>7. ASSUME NEW t \in Threads, CCR_Refused(t) \/ CapIgnored(t) PROVE Starts(t)
  BY <1>7, IdleType DEF CCR_Refused, CapIgnored, Starts
<1>8. ASSUME NEW t \in Threads, Engine(t) PROVE ChargeStep(t) \/ SettleStep(t)
  BY <1>8 DEF Engine
<1>9. ASSUME NEW t \in Threads, GyReadGranted(t) \/ CapReadGranted(t)
      PROVE  Proportions(t)
  <2>1. At(t, "read_granted")
    BY <1>9 DEF GyReadGranted, CapReadGranted, get_granted
  <2> QED BY <1>9, <2>1, ReadsGranted DEF GyReadGranted, CapReadGranted, Proportions
<1>10. ASSUME NEW t \in Threads, RemoveActive(t) PROVE Leaves(t)
  BY <1>10, RemovesActive
<1>11. ASSUME NEW t \in Threads, GyEndSession(t) \/ CapEndDialogue(t) PROVE Ends(t)
  BY <1>11 DEF GyEndSession, CapEndDialogue, Ends
<1>12. ASSUME NEW t \in Threads, Answer(t) PROVE Answers(t)
  BY <1>12 DEF Answer, Answers
<1>13. ASSUME NEW t \in Threads, Disconnect(t) PROVE Drops(t)
  BY <1>13 DEF Disconnect, Drops
<1>14. /\ Restart => Crash
       /\ Environment => \E s \in Buckets : TopUp(s) \/ CareDebit(s)
       /\ Rest \/ UNCHANGED vars => UNCHANGED engineVars
  BY DEF Restart, Environment, Rest, vars
<1>15. ASSUME NEW c \in GyConns,
              \/ CCR_Initial(c) \/ CCR_Update(c) \/ CCR_Termination(c)
              \/ CCR_Refused(c) \/ GyHandler(c)
       PROVE  EngineNext
  <2>1. c \in Threads
    BY DialogueThreads
  <2> QED BY <1>1, <1>2, <1>3, <1>7, <1>8, <1>9, <1>10, <1>11, <1>12, <1>15, <2>1
          DEF GyHandler, EngineNext
<1>16. ASSUME NEW a \in CapAssocs,
              \/ InitialDP(a) \/ ReportLegActive(a) \/ ReportFinal(a)
              \/ CapIgnored(a) \/ CapHandler(a)
       PROVE  EngineNext
  <2>1. a \in Threads
    BY DialogueThreads
  <2> QED BY <1>4, <1>5, <1>6, <1>7, <1>8, <1>9, <1>10, <1>11, <1>12, <1>16, <2>1
          DEF CapHandler, EngineNext
<1> QED BY <1>13, <1>14, <1>15, <1>16 DEF Next, EngineNext

---------------------------------------------------------------------------
(* A step of thread t that changes no entry but its own keeps the dialogues *)
(* apart.                                                                   *)
LEMMA DialogStep ==
    ASSUME EngineInv, EngineInv', DialogInv, NEW t \in Threads,
           DialogTypeOK', OwnEntries', nextId <= nextId',
           \A u \in Threads \ {t} : job'[u] = job[u],
           \A u \in Threads \ {t}, r \in Refs : Holds(u, r)' <=> Holds(u, r),
           \A r \in Refs : Holds(t, r)' =>
              /\ Holds(t, r) \/ r > nextId
              /\ r <= nextId'
              /\ r \in active' \/ (Settles(t)' /\ job'[t].ref = r),
           job'[t].pc \in Finals => Holds(t, job[t].ref)',
           \A r \in active : r \in active' \/ Holds(t, r)
    PROVE  DialogInv'
<1>1. nextId \in Nat /\ nextId' \in Nat
  BY DEF EngineInv, EngineTypeOK
<1>2. ASSUME NEW u \in Threads, NEW r \in Refs, Holds(u, r)'
      PROVE  r <= nextId' /\ (r \in active' \/ (Settles(u)' /\ job'[u].ref = r))
  <2>1. CASE u = t
    BY <1>2, <2>1
  <2>2. CASE u # t
    <3>1. Holds(u, r) /\ job'[u] = job[u] /\ ~Holds(t, r)
      BY <1>2, <2>2 DEF DialogInv
    <3>2. r <= nextId /\ (r \in active \/ (Settles(u) /\ job[u].ref = r))
      BY <3>1 DEF DialogInv
    <3>3. r <= nextId'
      BY <1>1, <3>2 DEF Refs
    <3> QED BY <3>1, <3>2, <3>3 DEF Settles
  <2> QED BY <2>1, <2>2
<1>3. ASSUME NEW u \in Threads, NEW v \in Threads, NEW r \in Refs,
             Holds(u, r)', Holds(v, r)'
      PROVE  u = v
  <2>1. ASSUME NEW x \in Threads \ {t}, Holds(x, r)', Holds(t, r)' PROVE FALSE
    <3>1. Holds(x, r) /\ (Holds(t, r) \/ r > nextId)
      BY <2>1
    <3>2. ~(r > nextId) /\ ~Holds(t, r)
      BY <1>1, <3>1 DEF DialogInv, Refs
    <3> QED BY <3>1, <3>2
  <2>2. CASE u # t /\ v # t
    BY <1>3, <2>2 DEF DialogInv
  <2> QED BY <1>3, <2>1, <2>2
<1>4. ASSUME NEW u \in Threads, job'[u].pc \in Finals PROVE Holds(u, job[u].ref)'
  <2>1. CASE u = t
    BY <1>4, <2>1
  <2>2. CASE u # t
    <3>1. job'[u] = job[u] /\ Holds(u, job[u].ref)
      BY <1>4, <2>2 DEF DialogInv
    <3>2. job[u].ref \in Refs
      BY <3>1 DEF DialogInv, DialogTypeOK, Holds
    <3>3. PICK r \in Refs : r = job[u].ref
      BY <3>2
    <3>4. Holds(u, r)'
      BY <2>2, <3>1, <3>3
    <3> QED BY <3>1, <3>3, <3>4 DEF Holds
  <2> QED BY <2>1, <2>2
<1> QED BY <1>2, <1>3, <1>4 DEF DialogInv

(* A step that changes no entry, within a message.                          *)
LEMMA WithinMessage ==
    ASSUME IInv, EngineInv', NEW t \in Threads, UNCHANGED dialogVars,
           UNCHANGED nextId, \A u \in Threads \ {t} : job'[u] = job[u],
           job'[t].pc \in Finals => Holds(t, job'[t].ref),
           \/ active' = active /\ (Settles(t) => Settles(t)' /\ job'[t].ref = job[t].ref)
           \/ /\ active' = active \ {job[t].ref} /\ Holds(t, job[t].ref)
              /\ ~Settles(t) /\ Settles(t)' /\ job'[t].ref = job[t].ref
    PROVE  DialogInv'
<1>1. \A u, r : Holds(u, r)' <=> Holds(u, r)
  BY DEF Holds, dialogVars
<1>2. DialogTypeOK' /\ OwnEntries'
  BY DEF IInv, DialogInv, DialogTypeOK, OwnEntries, dialogVars
<1>3. nextId <= nextId' /\ EngineInv /\ DialogInv
  BY DEF IInv, EngineInv, EngineTypeOK
<1>4. \A r \in Refs : Holds(t, r)' =>
         /\ Holds(t, r) /\ r <= nextId'
         /\ r \in active' \/ (Settles(t)' /\ job'[t].ref = r)
  <2>1. ASSUME NEW r \in Refs, Holds(t, r)'
        PROVE  r \in active' \/ (Settles(t)' /\ job'[t].ref = r)
    <3>1. Holds(t, r) /\ (r \in active \/ (Settles(t) /\ job[t].ref = r))
      BY <1>1, <1>3, <2>1 DEF DialogInv
    <3> QED BY <3>1
  <2> QED BY <1>1, <1>3, <2>1 DEF DialogInv
<1>5. job'[t].pc \in Finals => Holds(t, job[t].ref)'
  BY DEF Holds, dialogVars
<1>6. \A r \in active : r \in active' \/ Holds(t, r)
  OBVIOUS
<1> QED BY <1>1, <1>2, <1>3, <1>4, <1>5, <1>6, DialogStep

(* The steps of the engine itself.                                          *)
LEMMA EngineDialog ==
    ASSUME IInv, EngineInv', NEW t \in Threads, Engine(t)
    PROVE  DialogInv'
<1>1. /\ UNCHANGED <<dialogVars, nextId, active>> /\ job[t] \in Job
      /\ \A u \in Threads \ {t} : job'[u] = job[u]
  <2>1. job \in [Threads -> Job]
    BY DEF IInv, EngineInv, EngineTypeOK
  <2> QED BY <2>1 DEF Engine, ChargeStep, SettleStep, build_rating_grant,
      reserve_subscriber_balance, add_reserved, add_granted, write_converged_charging_cdr,
      unreserve, debit, Goto, storeVars
<1>2. CASE ChargeStep(t)
  <2>1. job[t].pc \in Charges /\ job'[t].pc \in Charges
    <3>1. CASE build_rating_grant(t)
      <4>1. PICK rating \in Ratings \cup {NoRating} :
               job' = [job EXCEPT ![t].rating = rating, ![t].ok = TRUE,
                    ![t].pc = IF rating.cost = NoCost \/ job[t].supi = NoSupi
                              THEN "cdr"
                              ELSE IF rating.cost = 0 THEN "add_reserved"
                              ELSE "reserve"]
        BY <3>1 DEF build_rating_grant
      <4>2. job'[t].pc \in {"cdr", "add_reserved", "reserve"}
        BY <1>1, <4>1 DEF IInv, EngineInv, EngineTypeOK, Job
      <4> QED BY <3>1, <4>2 DEF build_rating_grant, At, Charges
    <3>2. CASE reserve_subscriber_balance(t)
      <4>1. job'[t].pc \in {"cdr", "add_reserved"}
        BY <1>1, <3>2 DEF IInv, EngineInv, EngineTypeOK, Job, reserve_subscriber_balance
      <4> QED BY <3>2, <4>1 DEF reserve_subscriber_balance, At, Charges
    <3>3. CASE add_reserved(t) \/ add_granted(t)
      BY <1>1, <3>3 DEF IInv, EngineInv, EngineTypeOK, Job, add_reserved, add_granted, Goto,
         At, Charges
    <3>4. CASE write_converged_charging_cdr(t)
      <4>1. job'[t].pc = NextUsage(job[t].left - 1)
        BY <1>1, <3>4 DEF IInv, EngineInv, EngineTypeOK, Job, write_converged_charging_cdr
      <4> QED BY <3>4, <4>1 DEF write_converged_charging_cdr, NextUsage, At, Charges
    <3> QED BY <1>2, <3>1, <3>2, <3>3, <3>4 DEF ChargeStep
  <2>2. job'[t].pc \notin Finals /\ ~Settles(t)
    BY <2>1 DEF Charges, Finals, Settles
  <2> QED BY <1>1, <2>2, WithinMessage
<1>3. CASE SettleStep(t)
  <2>1. /\ job[t].pc \in {"unreserve", "debit"} /\ job'[t].pc \in {"debit", "release_cdr"}
        /\ job'[t].ref = job[t].ref
    BY <1>1, <1>3 DEF IInv, EngineInv, EngineTypeOK, Job, SettleStep, unreserve, debit, Goto, At
  <2>2. Settles(t) /\ Settles(t)' /\ Holds(t, job[t].ref)
    BY <2>1 DEF Settles, IInv, DialogInv, Finals
  <2> QED BY <1>1, <2>1, <2>2, WithinMessage
<1> QED BY <1>2, <1>3 DEF Engine

(* The other steps within a message, and messages for an entry that exists. *)
LEMMA HandlerDialog ==
    ASSUME IInv, EngineInv', NEW t \in Threads,
           \/ CCR_Refused(t) \/ CapIgnored(t) \/ Answer(t)
           \/ GyReadGranted(t) \/ CapReadGranted(t) \/ RemoveActive(t)
           \/ t \in GyConns /\ (CCR_Update(t) \/ CCR_Termination(t))
           \/ t \in CapAssocs /\ (ReportLegActive(t) \/ ReportFinal(t))
    PROVE  DialogInv'
<1>1. job \in [Threads -> Job] /\ job[t] \in Job
  BY DEF IInv, EngineInv, EngineTypeOK
<1>2. CASE CCR_Refused(t) \/ CapIgnored(t) \/ Answer(t)
  <2>1. /\ UNCHANGED <<dialogVars, nextId, active>> /\ job'[t] = Idle
        /\ \A u \in Threads \ {t} : job'[u] = job[u]
        /\ job[t].pc \in {"idle", "answer"}
    BY <1>1, <1>2 DEF CCR_Refused, CapIgnored, Answer, Receive, Authorize, storeVars, At
  <2>2. job'[t].pc \notin Finals /\ ~Settles(t)
    BY <2>1 DEF Idle, Finals, Settles
  <2> QED BY <2>1, <2>2, WithinMessage
<1>3. CASE GyReadGranted(t) \/ CapReadGranted(t)
  <2>1. /\ UNCHANGED <<dialogVars, nextId, active>> /\ job[t].pc = "read_granted"
        /\ \A u \in Threads \ {t} : job'[u] = job[u]
        /\ job'[t].pc = "release" /\ job'[t].ref = job[t].ref
    BY <1>1, <1>3 DEF GyReadGranted, CapReadGranted, get_granted, storeVars, At, Job
  <2>2. Holds(t, job[t].ref) /\ ~Settles(t)
    BY <2>1 DEF Finals, Settles, IInv, DialogInv
  <2> QED BY <2>1, <2>2, WithinMessage
<1>4. CASE RemoveActive(t)
  <2>1. /\ UNCHANGED <<dialogVars, nextId>> /\ job[t].pc = "release"
        /\ active' = active \ {job[t].ref}
        /\ \A u \in Threads \ {t} : job'[u] = job[u]
        /\ job'[t].pc = FirstSettlingCall(t) /\ job'[t].ref = job[t].ref
    BY <1>1, <1>4 DEF RemoveActive, Goto, At, Job
  <2>2. Holds(t, job[t].ref) /\ ~Settles(t) /\ Settles(t)'
    BY <2>1 DEF Finals, Settles, IInv, DialogInv, FirstSettlingCall
  <2> QED BY <2>1, <2>2, WithinMessage
<1>5. ASSUME NEW r, Holds(t, r), NEW j, j.ref = r, j.pc \in {"rate", "answer", "read_granted"},
             Receive(t, j), UNCHANGED <<storeVars, dialogVars>>
      PROVE  DialogInv'
  <2>1. /\ UNCHANGED <<dialogVars, nextId, active>> /\ job'[t] = j /\ job[t].pc = "idle"
        /\ \A u \in Threads \ {t} : job'[u] = job[u]
    BY <1>1, <1>5 DEF Receive, At, storeVars
  <2>2. Holds(t, job'[t].ref) /\ ~Settles(t)
    BY <1>5, <2>1 DEF Settles
  <2> QED BY <2>1, <2>2, WithinMessage
<1>6. ASSUME NEW r, NEW s, NEW n
      PROVE  Charging(r, s, n).ref = r /\ Charging(r, s, n).pc \in {"rate", "answer"}
  BY DEF Charging, Idle, NextUsage
<1>7. ASSUME NEW r, NEW u
      PROVE  Settling(r, u).ref = r /\ Settling(r, u).pc = "read_granted"
  BY DEF Settling, Idle
<1>8. CASE t \in GyConns /\ CCR_Update(t)
  <2>1. PICK i \in SessionIds, n \in UsageCounts :
           /\ session_to_ref[t][i] # 0
           /\ Receive(t, Charging(session_to_ref[t][i],
                                  content[session_to_ref[t][i]].supi, n))
    BY <1>8 DEF CCR_Update
  <2>2. Holds(t, session_to_ref[t][i]) /\ UNCHANGED <<storeVars, dialogVars>>
    BY <1>8, <2>1 DEF Holds, CCR_Update
  <2> QED BY <1>5, <1>6, <2>1, <2>2
<1>9. CASE t \in GyConns /\ CCR_Termination(t)
  <2>1. PICK i \in SessionIds, u \in UsedReports :
           /\ session_to_ref[t][i] # 0
           /\ Receive(t, Settling(session_to_ref[t][i],
                                  [u EXCEPT !.units = 0, !.time = 0]))
    BY <1>9 DEF CCR_Termination
  <2>2. Holds(t, session_to_ref[t][i]) /\ UNCHANGED <<storeVars, dialogVars>>
    BY <1>9, <2>1 DEF Holds, CCR_Termination
  <2> QED BY <1>5, <1>7, <2>1, <2>2
<1>10. CASE t \in CapAssocs /\ ReportLegActive(t)
  <2>1. Holds(t, current_ref[t]) /\ UNCHANGED <<storeVars, dialogVars>>
    BY <1>10 DEF Holds, ReportLegActive
  <2> QED BY <1>5, <1>6, <1>10, <2>1 DEF ReportLegActive
<1>11. CASE t \in CapAssocs /\ ReportFinal(t)
  <2>1. Holds(t, current_ref[t]) /\ UNCHANGED <<storeVars, dialogVars>>
    BY <1>11 DEF Holds, ReportFinal
  <2>2. PICK u \in UsedReports :
           Receive(t, Settling(current_ref[t], [u EXCEPT !.volume = 0, !.units = 0]))
    BY <1>11 DEF ReportFinal
  <2> QED BY <1>5, <1>7, <2>1, <2>2
<1> QED BY <1>2, <1>3, <1>4, <1>8, <1>9, <1>10, <1>11

(* The first message of a session: the entry it makes, or overwrites, leads *)
(* to an id no entry led to before.                                         *)
LEMMA OpensDialog ==
    ASSUME IInv, EngineInv', NEW t \in Threads,
           \/ t \in GyConns /\ CCR_Initial(t)
           \/ t \in CapAssocs /\ InitialDP(t)
    PROVE  DialogInv'
<1>0. PICK q \in Nat : q = nextId + 1
  BY DEF IInv, EngineInv, EngineTypeOK
<1>1. PICK s, n : create(s) /\ Receive(t, Charging(q, s, n))
  BY <1>0 DEF CCR_Initial, InitialDP
<1>2. /\ job \in [Threads -> Job] /\ nextId \in Nat /\ DialogTypeOK /\ OwnEntries
      /\ EngineInv /\ DialogInv
  BY DEF IInv, EngineInv, EngineTypeOK, DialogInv
<1>3. /\ nextId' = q /\ active' = active \cup {q} /\ q \in Refs /\ q > nextId
      /\ nextId <= nextId'
  <2>1. nextId < MaxRefs /\ nextId' = q /\ active' = active \cup {q} /\ MaxRefs \in Nat
    BY <1>0, <1>1, EngineAssumption DEF create
  <2> QED BY <1>0, <1>2, <2>1 DEF Refs
<1>4. /\ \A u \in Threads \ {t} : job'[u] = job[u]
      /\ job[t].pc = "idle" /\ job'[t] = Charging(q, s, n)
  BY <1>1, <1>2 DEF Receive, At
<1>5. job'[t].pc \notin Finals /\ ~Settles(t)
  BY <1>4 DEF Charging, NextUsage, Idle, Finals, Settles
<1>6. ASSUME NEW u \in Threads, Holds(u, q) PROVE FALSE
  BY <1>2, <1>3, <1>6 DEF DialogInv
<1>7. CASE t \in GyConns /\ CCR_Initial(t)
  <2>1. PICK i \in SessionIds :
           session_to_ref' = [session_to_ref EXCEPT ![t][i] = q]
    BY <1>0, <1>7 DEF CCR_Initial
  <2>2. /\ UNCHANGED current_ref /\ t \notin CapAssocs
        /\ \A c \in GyConns \ {t} : session_to_ref'[c] = session_to_ref[c]
        /\ \A j \in SessionIds : session_to_ref'[t][j] =
              IF j = i THEN q ELSE session_to_ref[t][j]
    BY <1>2, <1>7, <2>1, DialogueThreads DEF CCR_Initial, DialogTypeOK
  <2>3. DialogTypeOK'
    BY <1>2, <1>3, <1>7, <2>1, <2>2 DEF DialogTypeOK
  <2>4. \A j \in SessionIds : session_to_ref[t][j] # q
    BY <1>3, <1>6, <1>7 DEF Holds, Refs
  <2>5. OwnEntries'
    BY <1>2, <2>2, <2>4 DEF OwnEntries
  <2>6. \A u \in Threads \ {t}, r \in Refs : Holds(u, r)' <=> Holds(u, r)
    BY <2>2 DEF Holds
  <2>7. ASSUME NEW r \in Refs, Holds(t, r)' PROVE Holds(t, r) \/ r = q
    BY <1>7, <2>2, <2>7 DEF Holds
  <2>8. ASSUME NEW r \in Refs, Holds(t, r)'
        PROVE  (Holds(t, r) \/ r > nextId) /\ r <= nextId' /\ r \in active'
    <3>1. CASE r = q
      BY <1>3, <3>1
    <3>2. CASE Holds(t, r)
      <4>1. r <= nextId /\ r \in active
        BY <1>2, <1>5, <3>2 DEF DialogInv
      <4> QED BY <1>2, <1>3, <3>2, <4>1 DEF Refs
    <3> QED BY <2>7, <2>8, <3>1, <3>2
  <2> QED BY <1>2, <1>3, <1>4, <1>5, <2>3, <2>5, <2>6, <2>8, DialogStep
<1>8. CASE t \in CapAssocs /\ InitialDP(t)
  <2>1. /\ current_ref' = [current_ref EXCEPT ![t] = q]
        /\ UNCHANGED session_to_ref /\ t \notin GyConns
    BY <1>0, <1>8, DialogueThreads DEF InitialDP
  <2>2. /\ \A a \in CapAssocs \ {t} : current_ref'[a] = current_ref[a]
        /\ current_ref'[t] = q
    BY <1>2, <1>8, <2>1 DEF DialogTypeOK
  <2>3. DialogTypeOK' /\ OwnEntries'
    BY <1>2, <1>3, <1>8, <2>1 DEF DialogTypeOK, OwnEntries
  <2>4. \A u \in Threads \ {t}, r \in Refs : Holds(u, r)' <=> Holds(u, r)
    BY <2>1, <2>2 DEF Holds
  <2>5. ASSUME NEW r \in Refs, Holds(t, r)' PROVE r = q
    BY <1>8, <2>1, <2>2, <2>5 DEF Holds
  <2> QED BY <1>2, <1>3, <1>4, <1>5, <2>3, <2>4, <2>5, DialogStep
<1> QED BY <1>7, <1>8

(* The last step of a session: its entry, and no other, is erased.          *)
LEMMA ClosesDialog ==
    ASSUME IInv, EngineInv', NEW t \in Threads,
           \/ t \in GyConns /\ GyEndSession(t)
           \/ t \in CapAssocs /\ CapEndDialogue(t)
    PROVE  DialogInv'
<1>1. /\ job \in [Threads -> Job] /\ nextId \in Nat /\ DialogTypeOK /\ OwnEntries
      /\ EngineInv /\ DialogInv
  BY DEF IInv, EngineInv, EngineTypeOK, DialogInv
<1>2. /\ UNCHANGED <<nextId, active>> /\ job'[t] = Idle
      /\ \A u \in Threads \ {t} : job'[u] = job[u]
  BY <1>1 DEF GyEndSession, CapEndDialogue, write_release_cdr, storeVars
<1>3. job'[t].pc \notin Finals /\ nextId <= nextId'
  BY <1>1, <1>2 DEF Idle, Finals
<1>4. ASSUME DialogTypeOK', OwnEntries',
             \A u \in Threads \ {t}, r \in Refs : Holds(u, r)' <=> Holds(u, r),
             \A r \in Refs : Holds(t, r)' => Holds(t, r) /\ r # job[t].ref
      PROVE  DialogInv'
  <2>1. \A r \in Refs : Holds(t, r)' => Holds(t, r) /\ r <= nextId' /\ r \in active'
    BY <1>1, <1>2, <1>4 DEF DialogInv
  <2> QED BY <1>1, <1>2, <1>3, <1>4, <2>1, DialogStep
<1>5. CASE t \in GyConns /\ GyEndSession(t)
  <2>1. /\ UNCHANGED current_ref /\ t \notin CapAssocs
        /\ \A c \in GyConns \ {t} : session_to_ref'[c] = session_to_ref[c]
        /\ \A i \in SessionIds : session_to_ref'[t][i] =
              IF session_to_ref[t][i] = job[t].ref THEN 0 ELSE session_to_ref[t][i]
    BY <1>1, <1>5, DialogueThreads DEF GyEndSession, DialogTypeOK
  <2>2. DialogTypeOK'
    BY <1>1, <1>5, <2>1 DEF DialogTypeOK, GyEndSession
  <2>3. OwnEntries'
    BY <1>1, <2>1 DEF OwnEntries
  <2>4. \A u \in Threads \ {t}, r \in Refs : Holds(u, r)' <=> Holds(u, r)
    BY <2>1 DEF Holds
  <2>5. \A r \in Refs : Holds(t, r)' => Holds(t, r) /\ r # job[t].ref
    BY <1>5, <2>1 DEF Holds
  <2> QED BY <1>4, <2>2, <2>3, <2>4, <2>5
<1>6. CASE t \in CapAssocs /\ CapEndDialogue(t)
  <2>1. /\ UNCHANGED session_to_ref /\ t \notin GyConns
        /\ \A a \in CapAssocs \ {t} : current_ref'[a] = current_ref[a]
        /\ current_ref'[t] = 0
    BY <1>1, <1>6, DialogueThreads DEF CapEndDialogue, DialogTypeOK
  <2>2. DialogTypeOK' /\ OwnEntries'
    BY <1>1, <1>6, <2>1 DEF DialogTypeOK, OwnEntries, CapEndDialogue
  <2>3. \A u \in Threads \ {t}, r \in Refs : Holds(u, r)' <=> Holds(u, r)
    BY <2>1 DEF Holds
  <2>4. \A r \in Refs : Holds(t, r)' => Holds(t, r) /\ r # job[t].ref
    BY <1>6, <2>1 DEF Holds
  <2> QED BY <1>4, <2>2, <2>3, <2>4
<1> QED BY <1>5, <1>6

(* A peer that is gone takes its entries with it.                           *)
LEMMA DropsDialogs ==
    ASSUME IInv, EngineInv', NEW t \in Threads, Disconnect(t)
    PROVE  DialogInv'
<1>1. /\ job \in [Threads -> Job] /\ nextId \in Nat /\ DialogTypeOK /\ OwnEntries
      /\ EngineInv /\ DialogInv
  BY DEF IInv, EngineInv, EngineTypeOK, DialogInv
<1>2. /\ UNCHANGED <<nextId, active>> /\ job'[t] = Idle
      /\ \A u \in Threads \ {t} : job'[u] = job[u]
  BY <1>1 DEF Disconnect, storeVars
<1>3. job'[t].pc \notin Finals /\ nextId <= nextId'
  BY <1>1, <1>2 DEF Idle, Finals
<1>4. /\ \A c \in GyConns : session_to_ref'[c] = IF c = t THEN NoSessions
                                                ELSE session_to_ref[c]
      /\ \A a \in CapAssocs : current_ref'[a] = IF a = t THEN 0 ELSE current_ref[a]
      /\ \A i \in SessionIds : NoSessions[i] = 0
  BY DEF Disconnect, NoSessions
<1>5. NoSessions \in [SessionIds -> Refs \cup {0}]
  BY DEF NoSessions
<1>6. DialogTypeOK'
  BY <1>1, <1>5 DEF DialogTypeOK, Disconnect
<1>7. OwnEntries'
  BY <1>1, <1>4 DEF OwnEntries
<1>8. \A u \in Threads \ {t}, r \in Refs : Holds(u, r)' <=> Holds(u, r)
  BY <1>4 DEF Holds
<1>9. \A r \in Refs : ~Holds(t, r)'
  BY <1>4 DEF Holds
<1> QED BY <1>1, <1>2, <1>3, <1>6, <1>7, <1>8, <1>9, DialogStep

(* The inductive invariant of the dialogues.                                *)
LEMMA IInvStep == IInv /\ [Next]_vars => IInv'
<1> SUFFICES ASSUME IInv, [Next]_vars, EngineInv' PROVE DialogInv'
  BY DrivesEngine, EngineInvStep DEF IInv
<1>1. ASSUME NEW c \in GyConns,
             \/ CCR_Initial(c) \/ CCR_Update(c) \/ CCR_Termination(c)
             \/ CCR_Refused(c) \/ GyHandler(c)
      PROVE  DialogInv'
  <2>1. c \in Threads
    BY DialogueThreads
  <2> QED BY <1>1, <2>1, OpensDialog, HandlerDialog, EngineDialog, ClosesDialog DEF GyHandler
<1>2. ASSUME NEW a \in CapAssocs,
             \/ InitialDP(a) \/ ReportLegActive(a) \/ ReportFinal(a)
             \/ CapIgnored(a) \/ CapHandler(a)
      PROVE  DialogInv'
  <2>1. a \in Threads
    BY DialogueThreads
  <2> QED BY <1>2, <2>1, OpensDialog, HandlerDialog, EngineDialog, ClosesDialog DEF CapHandler
<1>3. CASE Restart
  <2>1. /\ \A c \in GyConns, i \in SessionIds : session_to_ref'[c][i] = 0
        /\ \A a \in CapAssocs : current_ref'[a] = 0
        /\ \A t \in Threads : job'[t] = Idle
    BY <1>3 DEF Restart, Crash, NoSessions
  <2>2. DialogTypeOK' /\ OwnEntries'
    BY <1>3, <2>1 DEF DialogTypeOK, OwnEntries, Restart, NoSessions
  <2>3. \A t \in Threads : \A r : ~Holds(t, r)'
    BY <2>1 DEF Holds
  <2>4. \A t \in Threads : job'[t].pc \notin Finals
    BY <2>1 DEF Idle, Finals
  <2> QED BY <2>2, <2>3, <2>4 DEF DialogInv
<1>4. CASE Environment \/ Rest \/ UNCHANGED vars
  <2>1. UNCHANGED <<session_to_ref, current_ref, job, active, nextId>>
    BY <1>4 DEF Environment, TopUp, CareDebit, Rest, vars, engineVars, dialogVars, storeVars
  <2> QED BY <2>1 DEF IInv, DialogInv, DialogTypeOK, OwnEntries, Holds, Settles
<1> QED BY <1>1, <1>2, <1>3, <1>4, DropsDialogs DEF Next

LEMMA IInvInit == Init => IInv
<1> SUFFICES ASSUME Init PROVE DialogInv
  BY EngineInitial DEF Init, IInv
<1>1. /\ \A c \in GyConns, i \in SessionIds : session_to_ref[c][i] = 0
      /\ \A a \in CapAssocs : current_ref[a] = 0
      /\ \A t \in Threads : job[t] = Idle
  BY DEF Init, EngineInit, NoSessions
<1>2. DialogTypeOK /\ OwnEntries
  BY <1>1 DEF DialogTypeOK, OwnEntries, Init, NoSessions
<1>3. \A t \in Threads : \A r : ~Holds(t, r)
  BY <1>1 DEF Holds
<1>4. \A t \in Threads : job[t].pc \notin Finals
  BY <1>1 DEF Idle, Finals
<1> QED BY <1>2, <1>3, <1>4 DEF DialogInv

(* The stores and the session tables of the connections keep their types.   *)
THEOREM TypeCorrect == Spec => []LegacyTypeOK
<1>1. IInv => LegacyTypeOK
  BY DEF IInv, EngineInv, DialogInv, DialogTypeOK, LegacyTypeOK
<1> QED BY <1>1, IInvInit, IInvStep, PTL DEF Spec

(* For any number of connections, associations and Session-Ids, with        *)
(* INITIALs that reuse a Session-Id, disconnects and restarts at any step:  *)
(* no two entries lead to one resource, and an entry leads to an active     *)
(* resource until its own thread ends it.                                   *)
THEOREM KeepsDialoguesApart == Spec => []DialoguesDisjoint
<1>1. IInv => DialoguesDisjoint
  BY DisjointFollows
<1> QED BY <1>1, IInvInit, IInvStep, PTL DEF Spec

(* The whole invariant.                                                     *)
Inv == IInv /\ SettleInv /\ MoneyInv

LEMMA InvInit == Init => Inv
BY IInvInit, SettleInitial, MoneyInitial DEF Init, Inv

LEMMA InvStep == Inv /\ [Next]_vars => Inv'
BY IInvStep, DrivesEngine, SettleInvStep, MoneyInvStep DEF Inv, IInv

(* The SREM that Gy and CAP do not check settles no session twice.          *)
THEOREM SettlesOnce == Spec => []SettledOnce
<1>1. Inv => SettledOnce
  BY DEF Inv, SettleInv
<1> QED BY <1>1, InvInit, InvStep, PTL DEF Spec

(* Nor does a Gy or CAP session ever cost more than was held for it, is its *)
(* refund refused, or are units granted that its total does not include:    *)
(* the proportioning of one dimension only and the missing Release row of   *)
(* CAP do not change that.                                                  *)
THEOREM MoneyAddsUp ==
    Spec => [](NeverOvercharged /\ RefundNeverRefused /\ GrantsBacked)
<1>1. Inv => NeverOvercharged /\ RefundNeverRefused /\ GrantsBacked
  BY MoneyFollows DEF Inv, IInv
<1> QED BY <1>1, InvInit, InvStep, PTL DEF Spec

(* The Gy and CAP front ends implement the abstract charging session.       *)
THEOREM ImplementsSession == Spec => RefinesSession
<1>1. Init => Session!Init
  BY SessionInitial DEF Init
<1>2. Inv /\ [Next]_vars => [Session!Next]_(Session!svars)
  BY DrivesEngine, SessionStep DEF Inv, IInv
<1> QED BY <1>1, <1>2, InvInit, InvStep, PTL DEF Spec, RefinesSession, Session!Spec
===========================================================================
