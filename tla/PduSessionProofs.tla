-------------------------- MODULE PduSessionProofs --------------------------
(***************************************************************************)
(* What the SMF and the UPF promise each other over N4, and the SMF to the *)
(* CHF, for any number of sessions, packets, repeated requests, usage      *)
(* reports and map entries: the latches of a usage reporting rule bound    *)
(* its reports, a released context stays released, no invocation number is *)
(* used twice, no two PDU sessions share a UPF session, and a report finds *)
(* its session.                                                            *)
(***************************************************************************)
EXTENDS PduSession, FiniteSetTheorems, TLAPS

Latches == {0, 1}

(* Reports the latches of an entry still allow.                             *)
Unreported(u) == 2 - (u.thresholdReported + u.quotaReported)

StormType ==
    /\ nextTeid \in Nat \ {0}
    /\ urrMap \subseteq Teids
    /\ DOMAIN urr = Teids
    /\ \A t \in Teids : urr[t].thresholdReported \in Latches
                       /\ urr[t].quotaReported \in Latches
    /\ crossings \in [Teids -> Nat]
    /\ provisioned \in [Teids -> Nat]

(* Only TEIDs allocated have an entry, and only they were ever provisioned. *)
Entries ==
    /\ \A t \in urrMap : t < nextTeid
    /\ \A t \in Teids \ urrMap : crossings[t] = 0 /\ provisioned[t] = 0

(* The PFCP thread updates a TEID that has an entry.                        *)
UpdateInFlight == updating # NoUpdate => updating.teid \in urrMap

(* Each provisioning allows two reports: those made, and those the latches  *)
(* still allow.                                                             *)
Budget == \A t \in urrMap : crossings[t] + Unreported(urr[t]) <= 2 * provisioned[t]

StormInv == StormType /\ Entries /\ UpdateInFlight /\ Budget

(* One entry changed with its two counts: what every step that touches a    *)
(* rule amounts to.                                                         *)
OnlyChanges(w) ==
    \A t \in Teids : t # w => /\ urr'[t] = urr[t]
                             /\ crossings'[t] = crossings[t]
                             /\ provisioned'[t] = provisioned[t]

LatchesTyped(u) == u.thresholdReported \in Latches /\ u.quotaReported \in Latches

LEMMA OneEntryKeeps ==
    ASSUME StormInv, UpdateInFlight', NEW w \in Teids, OnlyChanges(w),
           DOMAIN urr' = Teids, LatchesTyped(urr'[w]),
           crossings' \in [Teids -> Nat], provisioned' \in [Teids -> Nat],
           urrMap' = urrMap \cup {w},
           nextTeid' \in Nat, nextTeid <= nextTeid', w < nextTeid',
           crossings'[w] + Unreported(urr'[w]) <= 2 * provisioned'[w]
    PROVE  StormInv'
<1>1. StormType'
  <2>1. \A t \in Teids : LatchesTyped(urr'[t])
    BY DEF StormInv, StormType, OnlyChanges, LatchesTyped
  <2>2. nextTeid' \in Nat \ {0} /\ urrMap' \subseteq Teids
    BY UserPlaneAssumption DEF StormInv, StormType, Teids
  <2> QED BY <2>1, <2>2 DEF StormType, LatchesTyped
<1>2. Entries'
  BY UserPlaneAssumption DEF StormInv, StormType, Entries, OnlyChanges, Teids
<1>3. Budget'
  <2> SUFFICES ASSUME NEW t \in urrMap', t # w
               PROVE  crossings'[t] + Unreported(urr'[t]) <= 2 * provisioned'[t]
    BY DEF Budget
  <2> QED BY DEF StormInv, StormType, Budget, OnlyChanges
<1> QED BY <1>1, <1>2, <1>3 DEF StormInv

(* Everything else leaves the rules and the counts alone.                   *)
LEMMA OthersKeep ==
    ASSUME StormInv, UNCHANGED <<urrMap, urr, crossings, provisioned>>,
           nextTeid' \in Nat, nextTeid <= nextTeid', UpdateInFlight'
    PROVE  StormInv'
<1>1. StormType'
  BY DEF StormInv, StormType
<1>2. Entries'
  BY UserPlaneAssumption DEF StormInv, StormType, Entries, Teids
<1>3. Budget'
  BY DEF StormInv, Budget
<1> QED BY <1>1, <1>2, <1>3 DEF StormInv

(* Establishment writes a fresh entry for a TEID nobody used.               *)
LEMMA EstablishmentKeeps ==
    ASSUME StormInv, NEW m, SessionEstablishment(m)
    PROVE  StormInv'
<1>1. nextTeid \in Teids /\ nextTeid \notin urrMap /\ nextTeid' = nextTeid + 1
  BY UserPlaneAssumption DEF StormInv, StormType, Entries, SessionEstablishment, Teids
<1>2. UpdateInFlight' /\ crossings' = crossings
  BY DEF SessionEstablishment, UpdateInFlight
<1>3. CASE UNCHANGED <<urrMap, urr, provisioned>>
  BY <1>1, <1>2, <1>3, OthersKeep, UserPlaneAssumption DEF Teids
<1>4. CASE ~UNCHANGED <<urrMap, urr, provisioned>>
  <2>1. /\ urrMap' = urrMap \cup {nextTeid}
        /\ urr' = [urr EXCEPT ![nextTeid] = Provision(m, 0)]
        /\ provisioned' = [provisioned EXCEPT ![nextTeid] = 1]
    BY <1>4 DEF SessionEstablishment, register_urr
  <2>2. OnlyChanges(nextTeid) /\ DOMAIN urr' = Teids /\ urr'[nextTeid] = Provision(m, 0)
    BY <1>1, <1>2, <2>1 DEF OnlyChanges, StormInv, StormType
  <2>3. LatchesTyped(urr'[nextTeid]) /\ Unreported(urr'[nextTeid]) = 2
    BY <2>2 DEF Provision, LatchesTyped, Unreported, Latches
  <2>4. /\ crossings' \in [Teids -> Nat] /\ provisioned' \in [Teids -> Nat]
        /\ crossings'[nextTeid] = 0 /\ provisioned'[nextTeid] = 1
    BY <1>1, <1>2, <2>1 DEF StormInv, StormType, Entries
  <2>5. crossings'[nextTeid] + Unreported(urr'[nextTeid]) <= 2 * provisioned'[nextTeid]
    BY <2>3, <2>4
  <2>6. nextTeid' \in Nat /\ nextTeid <= nextTeid' /\ nextTeid < nextTeid'
    BY <1>1 DEF StormInv, StormType
  <2> QED BY <1>1, <1>2, <2>1, <2>2, <2>3, <2>4, <2>5, <2>6, OneEntryKeeps
<1> QED BY <1>3, <1>4

(* Reading the entry changes no counter.                                    *)
LEMMA ModificationKeeps ==
    ASSUME StormInv, NEW m, SessionModification(m)
    PROVE  StormInv'
<1>1. UNCHANGED <<nextTeid, urrMap, urr, crossings, provisioned>>
  BY DEF SessionModification
<1>2. UpdateInFlight'
  <2>1. CASE updating' = updating
    BY <1>1, <2>1 DEF StormInv, UpdateInFlight
  <2>2. CASE updating' = [teid |-> m.seid, read |-> urr[m.seid], request |-> m]
             /\ m.seid \in urrMap
    BY <1>1, <2>2 DEF StormInv, StormType, UpdateInFlight
  <2> QED BY <2>1, <2>2 DEF SessionModification
<1> QED BY <1>1, <1>2, OthersKeep DEF StormInv, StormType

(* Writing it back opens both latches and counts one provisioning more,     *)
(* whatever was counted or reported since it was read.                      *)
LEMMA UpdateKeeps ==
    ASSUME StormInv, update_urr_thresholds
    PROVE  StormInv'
<1> DEFINE w == updating.teid
           e == Provision(updating.request, updating.read.total)
<1>1. /\ w \in urrMap /\ w \in Teids
      /\ urr' = [urr EXCEPT ![w] = e]
      /\ provisioned' = [provisioned EXCEPT ![w] = @ + 1]
      /\ UpdateInFlight' /\ UNCHANGED <<nextTeid, urrMap, crossings>>
  BY DEF StormInv, StormType, UpdateInFlight, update_urr_thresholds
<1>2. LatchesTyped(e) /\ Unreported(e) = 2
  BY DEF Provision, LatchesTyped, Unreported, Latches
<1> HIDE DEF w, e
<1>3. OnlyChanges(w) /\ DOMAIN urr' = Teids /\ urr'[w] = e
  BY <1>1 DEF OnlyChanges, StormInv, StormType
<1>4. /\ crossings' \in [Teids -> Nat] /\ provisioned' \in [Teids -> Nat]
      /\ crossings'[w] = crossings[w] /\ provisioned'[w] = provisioned[w] + 1
  BY <1>1 DEF StormInv, StormType
<1>5. crossings[w] <= 2 * provisioned[w] /\ crossings[w] \in Nat /\ provisioned[w] \in Nat
  <2>1. urr[w].thresholdReported \in {0, 1} /\ urr[w].quotaReported \in {0, 1}
    BY <1>1 DEF StormInv, StormType, Latches
  <2> QED BY <1>1, <2>1 DEF StormInv, StormType, Budget, Unreported
<1>6. crossings'[w] + Unreported(urr'[w]) <= 2 * provisioned'[w]
  BY <1>2, <1>3, <1>4, <1>5
<1>7. /\ nextTeid' \in Nat /\ nextTeid <= nextTeid' /\ w < nextTeid'
      /\ urrMap' = urrMap \cup {w}
  BY <1>1 DEF StormInv, StormType, Entries
<1> QED BY <1>1, <1>2, <1>3, <1>4, <1>6, <1>7, OneEntryKeeps

(* A packet reports only by closing a latch that was open.                  *)
LEMMA PacketKeeps ==
    ASSUME StormInv, NEW p, NEW n, gtpu_decap(p, n)
    PROVE  StormInv'
<1> DEFINE u == urr[p]
           total == u.total + n
           Entry(x, y) == [threshold |-> u.threshold, quota |-> u.quota, total |-> total,
                           thresholdReported |-> x, quotaReported |-> y]
<1>1. /\ p \in urrMap /\ p \in Teids /\ DOMAIN urr = Teids
      /\ u.thresholdReported \in {0, 1} /\ u.quotaReported \in {0, 1}
      /\ crossings \in [Teids -> Nat] /\ provisioned \in [Teids -> Nat]
      /\ crossings[p] + Unreported(u) <= 2 * provisioned[p]
      /\ UNCHANGED <<nextTeid, urrMap, updating, provisioned>>
  BY DEF StormInv, StormType, Budget, gtpu_decap, Latches
<1>2. ASSUME NEW x \in {0, 1}, NEW y \in {0, 1}, NEW made \in {0, 1},
             x + y = u.thresholdReported + u.quotaReported + made,
             urr' = [urr EXCEPT ![p] = Entry(x, y)],
             crossings' = [crossings EXCEPT ![p] = @ + made]
      PROVE  StormInv'
  <2>1. Entry(x, y).thresholdReported = x /\ Entry(x, y).quotaReported = y
    OBVIOUS
  <2> HIDE DEF Entry, u, total
  <2>2. OnlyChanges(p) /\ DOMAIN urr' = Teids /\ urr'[p] = Entry(x, y)
    BY <1>1, <1>2 DEF OnlyChanges
  <2>3. LatchesTyped(urr'[p]) /\ Unreported(urr'[p]) + made = Unreported(u)
    <3>1. LatchesTyped(urr'[p])
      BY <1>2, <2>1, <2>2 DEF LatchesTyped, Latches
    <3>2. Unreported(urr'[p]) = 2 - (x + y)
      BY <2>1, <2>2 DEF Unreported
    <3> QED BY <1>1, <1>2, <3>1, <3>2 DEF Unreported
  <2>4. /\ crossings' \in [Teids -> Nat] /\ provisioned' \in [Teids -> Nat]
        /\ crossings'[p] = crossings[p] + made /\ provisioned'[p] = provisioned[p]
    <3>1. made \in Nat /\ crossings[p] \in Nat
      BY <1>1
    <3>2. crossings' \in [Teids -> Nat] /\ crossings'[p] = crossings[p] + made
      <4>1. crossings[p] + made \in Nat
        BY <3>1
      <4>2. crossings' = [crossings EXCEPT ![p] = crossings[p] + made]
        BY <1>2
      <4> QED BY <1>1, <4>1, <4>2
    <3>3. provisioned' = provisioned
      BY <1>1
    <3> QED BY <1>1, <3>2, <3>3
  <2>5. crossings'[p] + Unreported(urr'[p]) <= 2 * provisioned'[p]
    <3>1. Unreported(urr'[p]) \in 0..2 /\ Unreported(u) \in 0..2
      <4>1. Unreported(urr'[p]) = 2 - (x + y)
        BY <2>1, <2>2 DEF Unreported
      <4>2. Unreported(u) \in 0..2
        BY <1>1 DEF Unreported
      <4> QED BY <4>1, <4>2
    <3>2. crossings[p] \in Nat /\ provisioned[p] \in Nat
      BY <1>1
    <3> QED BY <1>1, <1>2, <2>3, <2>4, <3>1, <3>2
  <2>6. /\ nextTeid' \in Nat /\ nextTeid <= nextTeid' /\ p < nextTeid'
        /\ urrMap' = urrMap \cup {p} /\ UpdateInFlight'
    BY <1>1 DEF StormInv, StormType, Entries, UpdateInFlight
  <2> QED BY <1>1, <2>2, <2>3, <2>4, <2>5, <2>6, OneEntryKeeps
<1>3. CASE QuotaCrossed(u, total)
  <2>1. u.quotaReported = 0
    BY <1>3 DEF QuotaCrossed
  <2>2. /\ urr' = [urr EXCEPT ![p] = Entry(u.thresholdReported, 1)]
        /\ crossings' = [crossings EXCEPT ![p] = @ + 1]
    BY <1>3 DEF gtpu_decap, Measure, Report
  <2>3. u.thresholdReported + 1 = u.thresholdReported + u.quotaReported + 1
    BY <1>1, <2>1
  <2> HIDE DEF Entry, u, total
  <2> QED BY <1>1, <1>2, <2>2, <2>3
<1>4. CASE ~QuotaCrossed(u, total) /\ ThresholdCrossed(u, total)
  <2>1. u.thresholdReported = 0
    BY <1>4 DEF ThresholdCrossed
  <2>2. /\ urr' = [urr EXCEPT ![p] = Entry(1, u.quotaReported)]
        /\ crossings' = [crossings EXCEPT ![p] = @ + 1]
    BY <1>4 DEF gtpu_decap, Measure, Report
  <2>3. 1 + u.quotaReported = u.thresholdReported + u.quotaReported + 1
    BY <1>1, <2>1
  <2> HIDE DEF Entry, u, total
  <2> QED BY <1>1, <1>2, <2>2, <2>3
<1>5. CASE ~QuotaCrossed(u, total) /\ ~ThresholdCrossed(u, total)
  <2>1. /\ urr' = [urr EXCEPT ![p] = Entry(u.thresholdReported, u.quotaReported)]
        /\ crossings' = crossings
    BY <1>5 DEF gtpu_decap, Measure
  <2>2. crossings' = [crossings EXCEPT ![p] = @ + 0]
    BY <1>1, <2>1
  <2>3. u.thresholdReported + u.quotaReported = u.thresholdReported + u.quotaReported + 0
    BY <1>1
  <2> HIDE DEF Entry, u, total
  <2> QED BY <1>1, <1>2, <2>1, <2>2, <2>3
<1> QED BY <1>3, <1>4, <1>5

LEMMA StormInitial == Init => StormInv
<1> SUFFICES ASSUME Init PROVE StormInv
  OBVIOUS
<1> USE UserPlaneAssumption DEF Teids, Init, UpfInit
<1>2. StormType
  BY DEF StormType, Provision, Latches
<1>3. Entries /\ UpdateInFlight /\ Budget
  BY DEF Entries, UpdateInFlight, Budget
<1> QED BY <1>2, <1>3 DEF StormInv

LEMMA StormStep == StormInv /\ [Next]_vars => StormInv'
<1> SUFFICES ASSUME StormInv, [Next]_vars PROVE StormInv'
  OBVIOUS
<1>1. ASSUME UNCHANGED <<nextTeid, urrMap, urr, updating, crossings, provisioned>>
      PROVE  StormInv'
  <2>1. UpdateInFlight'
    BY <1>1 DEF StormInv, UpdateInFlight
  <2> QED BY <1>1, <2>1, OthersKeep DEF StormInv, StormType
<1>2. CASE Upf
  <2>1. ASSUME NEW m, SessionEstablishment(m) PROVE StormInv'
    BY <2>1, EstablishmentKeeps
  <2>2. ASSUME NEW m, SessionModification(m) PROVE StormInv'
    BY <2>2, ModificationKeeps
  <2>3. CASE update_urr_thresholds
    BY <2>3, UpdateKeeps
  <2>4. CASE usage_report_handler
    BY <2>4, <1>1 DEF usage_report_handler
  <2>5. CASE Traffic
    BY <2>5, PacketKeeps DEF Traffic
  <2> QED BY <1>2, <2>1, <2>2, <2>3, <2>4, <2>5 DEF Upf
<1>3. CASE UNCHANGED upfVars
  BY <1>1, <1>3 DEF upfVars
<1> QED BY <1>2, <1>3 DEF Next, Rest, vars

(* Usage reports (gtpu_decap.bpf.c, Datapath::update_urr_thresholds): at    *)
(* most one for the threshold and one for the quota each time they are      *)
(* provisioned, with the XDP program running between the read and the write *)
(* of an Update URR, and whatever requests are lost, repeated or delayed.   *)
THEOREM ReportsBounded == Spec => []NoReportStorm
<1>1. StormInv => NoReportStorm
  <2> SUFFICES ASSUME StormInv, NEW t \in Teids
               PROVE  crossings[t] <= 2 * provisioned[t]
    BY DEF NoReportStorm
  <2>1. CASE t \in urrMap
    BY <2>1 DEF StormInv, StormType, Budget, Unreported, Latches
  <2>2. CASE t \notin urrMap
    BY <2>2 DEF StormInv, Entries
  <2> QED BY <2>1, <2>2
<1> QED BY StormInitial, StormStep, <1>1, PTL DEF Spec

---------------------------------------------------------------------------
(* A released SM context does not come back (SmContextStore::update,        *)
(* POST /sm-contexts): whatever handlers had read the context before the    *)
(* Release and write it after, only the POST that made the reference stores *)
(* something under it.                                                      *)
THEOREM ReleaseIsFinal == Spec => ReleasedStaysReleased
<1> DEFINE Kept == \A s \in contexts' \ contexts : At(s, "new")
<1>1. [Next]_vars => Kept
  <2> SUFFICES ASSUME [Next]_vars PROVE Kept
    OBVIOUS
  <2>1. CASE contexts' \subseteq contexts
    BY <2>1
  <2>2. CASE Smf
    <3>1. ASSUME NEW s \in Sessions, CreateSMContext(s) PROVE Kept
      BY <3>1 DEF CreateSMContext
    <3>2. ASSUME NEW s \in Sessions, CreateStep(s) PROVE contexts' \subseteq contexts
      BY <3>2 DEF CreateStep, CreateSMPolicy, StoreDecision, ChargingDataCreate,
                  StoreChargingDataRef, N4Establish, AwaitEstablishment, RegisterSession,
                  StoreUpSeid, update, storeVars
    <3>3. ASSUME NEW w \in Inputs, pcf_notify(w) \/ modify(w) \/ WriteContext(w)
          PROVE  contexts' \subseteq contexts
      BY <3>3 DEF pcf_notify, modify, ReadContext, WriteContext, update, storeVars
    <3>4. ASSUME NEW r \in Inputs,
                 ReleaseSMContext(r) \/ ChargingDataRelease(r) \/ RemoveContext(r)
          PROVE  contexts' \subseteq contexts
      BY <3>4 DEF ReleaseSMContext, ChargingDataRelease, RemoveContext, storeVars
    <3>5. ASSUME NEW m \in net, ReceiveResponse(m) PROVE contexts' \subseteq contexts
      BY <3>5 DEF ReceiveResponse, storeVars
    <3>6. ASSUME NEW m \in net, NEW u \in Inputs, session_report_handler(m, u)
          PROVE  contexts' \subseteq contexts
      BY <3>6 DEF session_report_handler, storeVars
    <3>7. ASSUME NEW u \in Inputs, ChargingDataUpdate(u) \/ AwaitModification(u)
          PROVE  contexts' \subseteq contexts
      BY <3>7 DEF ChargingDataUpdate, AwaitModification, storeVars
    <3>8. Associate => contexts' \subseteq contexts
      BY DEF Associate, storeVars
    <3> QED BY <2>1, <2>2, <3>1, <3>2, <3>3, <3>4, <3>5, <3>6, <3>7, <3>8 DEF Smf
  <2>3. CASE UNCHANGED smfVars
    BY <2>1, <2>3 DEF smfVars
  <2> QED BY <2>2, <2>3 DEF Next, Rest, vars
<1>2. ReleasedStaysReleased <=> [][Kept]_vars
  BY DEF ReleasedStaysReleased
<1> QED BY <1>1, <1>2, PTL DEF Spec

---------------------------------------------------------------------------
(***************************************************************************)
(* The handlers of the SMF.  What a response carries is only known while   *)
(* no caller waits for a whole turn of the sequence numbers, so the UPF's  *)
(* SEID has some type U and no more is said of it here.                    *)
(***************************************************************************)
CreatePcs == {"new", "policy", "decided", "charging", "ref", "n4", "await",
              "register", "save", "done"}
Creating(U) == [pc : CreatePcs, copy : SUBSET Keys, grant : Nat, cpSeid : Nat,
                call : Nat, attempt : Nat, upSeid : U]
Writing == [pc : {"new", "done", "pcfPolicyUpdate", "hoState"},
            session : {0} \cup Sessions, copy : SUBSET Keys]
Releasing == [pc : {"new", "charging", "remove", "done"},
              session : {0} \cup Sessions, copy : SUBSET Keys]
Reauthorizing(U) == [pc : {"new", "update", "await", "done"},
                     session : {0} \cup Sessions, upSeid : U, invocation : Nat,
                     used : U, grant : Nat, call : Nat, attempt : Nat]

HandlersTyped ==
    /\ \E U : create \in [Sessions -> Creating(U)]
    /\ \E U : reauth \in [Inputs -> Reauthorizing(U)]
    /\ write \in [Inputs -> Writing]
    /\ release \in [Inputs -> Releasing]
    /\ ctx \in [Sessions -> SUBSET Keys]
    /\ contexts \subseteq Sessions
    /\ invocation \in [Sessions -> Nat]
    /\ nextCall \in Nat

(* Session s's handler goes on as c, the others stay.                       *)
Creates(s, c) ==
    /\ create' = [create EXCEPT ![s] = c]
    /\ create'[s] = c
    /\ \A z \in Sessions : z # s => create'[z] = create[z]

Reauthorizes(u, c) ==
    /\ reauth' = [reauth EXCEPT ![u] = c]
    /\ reauth'[u] = c
    /\ \A v \in Inputs : v # u => reauth'[v] = reauth[v]

LEMMA CreateEffect ==
    ASSUME HandlersTyped, NEW s \in Sessions, NEW c, create' = [create EXCEPT ![s] = c]
    PROVE  Creates(s, c)
<1>1. PICK U : create \in [Sessions -> Creating(U)]
  BY DEF HandlersTyped
<1> QED BY <1>1 DEF Creates

LEMMA ReauthEffect ==
    ASSUME HandlersTyped, NEW u \in Inputs, NEW c, reauth' = [reauth EXCEPT ![u] = c]
    PROVE  Reauthorizes(u, c)
<1>1. PICK U : reauth \in [Inputs -> Reauthorizing(U)]
  BY DEF HandlersTyped
<1> QED BY <1>1 DEF Reauthorizes

(* A handler's record, by its fields; EXCEPT replaces one at a time.        *)
Made(pc, copy, grant, cpSeid, call, attempt, upSeid) ==
    [pc |-> pc, copy |-> copy, grant |-> grant, cpSeid |-> cpSeid, call |-> call,
     attempt |-> attempt, upSeid |-> upSeid]

LEMMA CreatingMade ==
    ASSUME NEW U, NEW c \in Creating(U)
    PROVE  c = Made(c.pc, c.copy, c.grant, c.cpSeid, c.call, c.attempt, c.upSeid)
BY DEF Creating, Made

(* What becomes of it in each kind of step.                                 *)
LEMMA GoEffect ==
    ASSUME HandlersTyped, NEW s \in Sessions, NEW pc, Go(s, pc)
    PROVE  LET c == create[s] IN
           Creates(s, Made(pc, {}, c.grant, c.cpSeid, c.call, c.attempt, c.upSeid))
<1> DEFINE c == create[s]
           r == Made(c.pc, c.copy, c.grant, c.cpSeid, c.call, c.attempt, c.upSeid)
           r1 == Made(pc, c.copy, c.grant, c.cpSeid, c.call, c.attempt, c.upSeid)
           r2 == Made(pc, {}, c.grant, c.cpSeid, c.call, c.attempt, c.upSeid)
<1>1. create[s] = r
  BY CreatingMade DEF HandlersTyped
<1>2. create' = [create EXCEPT ![s] = [[create[s] EXCEPT !.pc = pc] EXCEPT !.copy = {}]]
  BY DEF Go, HandlersTyped
<1>3. [r EXCEPT !.pc = pc] = r1
  BY DEF Made
<1>4. [r1 EXCEPT !.copy = {}] = r2
  BY DEF Made
<1> HIDE DEF r, r1, r2
<1>5. [[create[s] EXCEPT !.pc = pc] EXCEPT !.copy = {}] = r2
  BY <1>1, <1>3, <1>4, Zenon
<1>6. create' = [create EXCEPT ![s] = r2]
  BY <1>2, <1>5, Zenon
<1> QED BY <1>6, CreateEffect DEF r2

LEMMA ReturnEffect ==
    ASSUME HandlersTyped, NEW s \in Sessions, Return(s)
    PROVE  Creates(s, Made("done", {}, 0, 0, 0, 0, create[s].upSeid))
<1> DEFINE t == create[s].upSeid
           r == Made("done", {}, 0, 0, 0, 0, 0)
           r1 == Made("done", {}, 0, 0, 0, 0, t)
<1>1. [NewCreate EXCEPT !.pc = "done"] = r
  BY DEF NewCreate, Made
<1>2. [r EXCEPT !.upSeid = t] = r1
  BY DEF Made
<1> HIDE DEF r, r1
<1>3. [[NewCreate EXCEPT !.pc = "done"] EXCEPT !.upSeid = t] = r1
  BY <1>1, <1>2, Zenon
<1>4. create' = [create EXCEPT ![s] = r1]
  BY <1>3, Zenon DEF Return
<1> QED BY <1>4, CreateEffect DEF r1

LEMMA GrantEffect ==
    ASSUME HandlersTyped, NEW s \in Sessions, NEW g, NEW k,
           create' = [create EXCEPT ![s].pc = "ref",
                   ![s].grant = g,
                   ![s].copy = k]
    PROVE  LET c == create[s] IN
           Creates(s, Made("ref", k, g, c.cpSeid, c.call, c.attempt, c.upSeid))
<1> DEFINE c == create[s]
           r0 == Made(c.pc, c.copy, c.grant, c.cpSeid, c.call, c.attempt, c.upSeid)
           r1 == Made("ref", c.copy, c.grant, c.cpSeid, c.call, c.attempt, c.upSeid)
           r2 == Made("ref", c.copy, g, c.cpSeid, c.call, c.attempt, c.upSeid)
           r3 == Made("ref", k, g, c.cpSeid, c.call, c.attempt, c.upSeid)
<1>1. create[s] = r0
  BY CreatingMade DEF HandlersTyped
<1>2. [r0 EXCEPT !.pc = "ref"] = r1
  BY DEF Made
<1>3. [r1 EXCEPT !.grant = g] = r2
  BY DEF Made
<1>4. [r2 EXCEPT !.copy = k] = r3
  BY DEF Made
<1>5. create' = [create EXCEPT ![s] =
          [[[create[s] EXCEPT !.pc = "ref"] EXCEPT !.grant = g] EXCEPT !.copy = k]]
  BY Zenon DEF HandlersTyped
<1> HIDE DEF r0, r1, r2, r3
<1>6. [[[create[s] EXCEPT !.pc = "ref"] EXCEPT !.grant = g] EXCEPT !.copy = k] = r3
  BY <1>1, <1>2, <1>3, <1>4, Zenon
<1>7. create' = [create EXCEPT ![s] = r3]
  BY <1>5, <1>6, Zenon
<1> QED BY <1>7, CreateEffect DEF r3

LEMMA AskEffect ==
    ASSUME HandlersTyped, NEW s \in Sessions, NEW q, NEW n,
           create' = [create EXCEPT ![s].pc = "await",
                   ![s].cpSeid = q,
                   ![s].call = n,
                   ![s].attempt = 1]
    PROVE  LET c == create[s] IN
           Creates(s, Made("await", c.copy, c.grant, q, n, 1, c.upSeid))
<1> DEFINE c == create[s]
           r0 == Made(c.pc, c.copy, c.grant, c.cpSeid, c.call, c.attempt, c.upSeid)
           r1 == Made("await", c.copy, c.grant, c.cpSeid, c.call, c.attempt, c.upSeid)
           r2 == Made("await", c.copy, c.grant, q, c.call, c.attempt, c.upSeid)
           r3 == Made("await", c.copy, c.grant, q, n, c.attempt, c.upSeid)
           r4 == Made("await", c.copy, c.grant, q, n, 1, c.upSeid)
<1>1. create[s] = r0
  BY CreatingMade DEF HandlersTyped
<1>2. [r0 EXCEPT !.pc = "await"] = r1
  BY DEF Made
<1>3. [r1 EXCEPT !.cpSeid = q] = r2
  BY DEF Made
<1>4. [r2 EXCEPT !.call = n] = r3
  BY DEF Made
<1>5. [r3 EXCEPT !.attempt = 1] = r4
  BY DEF Made
<1>6. create' = [create EXCEPT ![s] =
          [[[[create[s] EXCEPT !.pc = "await"] EXCEPT !.cpSeid = q] EXCEPT !.call = n] EXCEPT !.attempt = 1]]
  BY Zenon DEF HandlersTyped
<1> HIDE DEF r0, r1, r2, r3, r4
<1>7. [[[[create[s] EXCEPT !.pc = "await"] EXCEPT !.cpSeid = q] EXCEPT !.call = n] EXCEPT !.attempt = 1] = r4
  BY <1>1, <1>2, <1>3, <1>4, <1>5, Zenon
<1>8. create' = [create EXCEPT ![s] = r4]
  BY <1>6, <1>7, Zenon
<1> QED BY <1>8, CreateEffect DEF r4

LEMMA AnswerEffect ==
    ASSUME HandlersTyped, NEW s \in Sessions, NEW t,
           create' = [create EXCEPT ![s].pc = "register",
                   ![s].upSeid = t]
    PROVE  LET c == create[s] IN
           Creates(s, Made("register", c.copy, c.grant, c.cpSeid, c.call, c.attempt, t))
<1> DEFINE c == create[s]
           r0 == Made(c.pc, c.copy, c.grant, c.cpSeid, c.call, c.attempt, c.upSeid)
           r1 == Made("register", c.copy, c.grant, c.cpSeid, c.call, c.attempt, c.upSeid)
           r2 == Made("register", c.copy, c.grant, c.cpSeid, c.call, c.attempt, t)
<1>1. create[s] = r0
  BY CreatingMade DEF HandlersTyped
<1>2. [r0 EXCEPT !.pc = "register"] = r1
  BY DEF Made
<1>3. [r1 EXCEPT !.upSeid = t] = r2
  BY DEF Made
<1>4. create' = [create EXCEPT ![s] =
          [[create[s] EXCEPT !.pc = "register"] EXCEPT !.upSeid = t]]
  BY Zenon DEF HandlersTyped
<1> HIDE DEF r0, r1, r2
<1>5. [[create[s] EXCEPT !.pc = "register"] EXCEPT !.upSeid = t] = r2
  BY <1>1, <1>2, <1>3, Zenon
<1>6. create' = [create EXCEPT ![s] = r2]
  BY <1>4, <1>5, Zenon
<1> QED BY <1>6, CreateEffect DEF r2

LEMMA RepeatEffect ==
    ASSUME HandlersTyped, NEW s \in Sessions, NEW n,
           create' = [create EXCEPT ![s].attempt = n]
    PROVE  LET c == create[s] IN
           Creates(s, Made(c.pc, c.copy, c.grant, c.cpSeid, c.call, n, c.upSeid))
<1> DEFINE c == create[s]
           r0 == Made(c.pc, c.copy, c.grant, c.cpSeid, c.call, c.attempt, c.upSeid)
           r1 == Made(c.pc, c.copy, c.grant, c.cpSeid, c.call, n, c.upSeid)
<1>1. create[s] = r0
  BY CreatingMade DEF HandlersTyped
<1>2. [r0 EXCEPT !.attempt = n] = r1
  BY DEF Made
<1>3. create' = [create EXCEPT ![s] =
          [create[s] EXCEPT !.attempt = n]]
  BY Zenon DEF HandlersTyped
<1> HIDE DEF r0, r1
<1>4. [create[s] EXCEPT !.attempt = n] = r1
  BY <1>1, <1>2, Zenon
<1>5. create' = [create EXCEPT ![s] = r1]
  BY <1>3, <1>4, Zenon
<1> QED BY <1>5, CreateEffect DEF r1

LEMMA RegisterEffect ==
    ASSUME HandlersTyped, NEW s \in Sessions, NEW k,
           create' = [create EXCEPT ![s].pc = "save",
                   ![s].copy = k]
    PROVE  LET c == create[s] IN
           Creates(s, Made("save", k, c.grant, c.cpSeid, c.call, c.attempt, c.upSeid))
<1> DEFINE c == create[s]
           r0 == Made(c.pc, c.copy, c.grant, c.cpSeid, c.call, c.attempt, c.upSeid)
           r1 == Made("save", c.copy, c.grant, c.cpSeid, c.call, c.attempt, c.upSeid)
           r2 == Made("save", k, c.grant, c.cpSeid, c.call, c.attempt, c.upSeid)
<1>1. create[s] = r0
  BY CreatingMade DEF HandlersTyped
<1>2. [r0 EXCEPT !.pc = "save"] = r1
  BY DEF Made
<1>3. [r1 EXCEPT !.copy = k] = r2
  BY DEF Made
<1>4. create' = [create EXCEPT ![s] =
          [[create[s] EXCEPT !.pc = "save"] EXCEPT !.copy = k]]
  BY Zenon DEF HandlersTyped
<1> HIDE DEF r0, r1, r2
<1>5. [[create[s] EXCEPT !.pc = "save"] EXCEPT !.copy = k] = r2
  BY <1>1, <1>2, <1>3, Zenon
<1>6. create' = [create EXCEPT ![s] = r2]
  BY <1>4, <1>5, Zenon
<1> QED BY <1>6, CreateEffect DEF r2

Running(pc, session, upSeid, number, used, grant, call, attempt) ==
    [pc |-> pc, session |-> session, upSeid |-> upSeid, invocation |-> number,
     used |-> used, grant |-> grant, call |-> call, attempt |-> attempt]

LEMMA ReauthMade ==
    ASSUME NEW U, NEW c \in Reauthorizing(U)
    PROVE  c = Running(c.pc, c.session, c.upSeid, c.invocation, c.used, c.grant, c.call, c.attempt)
BY DEF Reauthorizing, Running

LEMMA ReportEffect ==
    ASSUME HandlersTyped, NEW u \in Inputs, NEW z, NEW t, NEW o, NEW n,
           reauth' = [reauth EXCEPT ![u] =
               [NewReauth EXCEPT !.pc = "update",
                   !.session = z,
                   !.upSeid = t,
                   !.used = o,
                   !.invocation = n]]
    PROVE  LET c == reauth[u] IN
           Reauthorizes(u, Running("update", z, t, n, o, 0, 0, 0))
<1> DEFINE c == reauth[u]
           r0 == Running("new", 0, 0, 0, 0, 0, 0, 0)
           r1 == Running("update", 0, 0, 0, 0, 0, 0, 0)
           r2 == Running("update", z, 0, 0, 0, 0, 0, 0)
           r3 == Running("update", z, t, 0, 0, 0, 0, 0)
           r4 == Running("update", z, t, 0, o, 0, 0, 0)
           r5 == Running("update", z, t, n, o, 0, 0, 0)
<1>1. NewReauth = r0
  BY DEF NewReauth, Running
<1>2. [r0 EXCEPT !.pc = "update"] = r1
  BY DEF Running
<1>3. [r1 EXCEPT !.session = z] = r2
  BY DEF Running
<1>4. [r2 EXCEPT !.upSeid = t] = r3
  BY DEF Running
<1>5. [r3 EXCEPT !.used = o] = r4
  BY DEF Running
<1>6. [r4 EXCEPT !.invocation = n] = r5
  BY DEF Running
<1>7. reauth' = [reauth EXCEPT ![u] =
          [[[[[NewReauth EXCEPT !.pc = "update"] EXCEPT !.session = z] EXCEPT !.upSeid = t] EXCEPT !.used = o] EXCEPT !.invocation = n]]
  BY Zenon DEF HandlersTyped
<1> HIDE DEF r0, r1, r2, r3, r4, r5
<1>8. [[[[[NewReauth EXCEPT !.pc = "update"] EXCEPT !.session = z] EXCEPT !.upSeid = t] EXCEPT !.used = o] EXCEPT !.invocation = n] = r5
  BY <1>1, <1>2, <1>3, <1>4, <1>5, <1>6, Zenon
<1>9. reauth' = [reauth EXCEPT ![u] = r5]
  BY <1>7, <1>8, Zenon
<1> QED BY <1>9, ReauthEffect DEF r5

LEMMA ReauthOverEffect ==
    ASSUME HandlersTyped, NEW u \in Inputs,
           reauth' = [reauth EXCEPT ![u] =
               [NewReauth EXCEPT !.pc = "done"]]
    PROVE  LET c == reauth[u] IN
           Reauthorizes(u, Running("done", 0, 0, 0, 0, 0, 0, 0))
<1> DEFINE c == reauth[u]
           r0 == Running("new", 0, 0, 0, 0, 0, 0, 0)
           r1 == Running("done", 0, 0, 0, 0, 0, 0, 0)
<1>1. NewReauth = r0
  BY DEF NewReauth, Running
<1>2. [r0 EXCEPT !.pc = "done"] = r1
  BY DEF Running
<1>3. reauth' = [reauth EXCEPT ![u] =
          [NewReauth EXCEPT !.pc = "done"]]
  BY Zenon DEF HandlersTyped
<1> HIDE DEF r0, r1
<1>4. [NewReauth EXCEPT !.pc = "done"] = r1
  BY <1>1, <1>2, Zenon
<1>5. reauth' = [reauth EXCEPT ![u] = r1]
  BY <1>3, <1>4, Zenon
<1> QED BY <1>5, ReauthEffect DEF r1

LEMMA ReauthAskEffect ==
    ASSUME HandlersTyped, NEW u \in Inputs, NEW g, NEW n,
           reauth' = [reauth EXCEPT ![u].pc = "await",
                   ![u].grant = g,
                   ![u].call = n,
                   ![u].attempt = 1]
    PROVE  LET c == reauth[u] IN
           Reauthorizes(u, Running("await", c.session, c.upSeid, c.invocation, c.used, g, n, 1))
<1> DEFINE c == reauth[u]
           r0 == Running(c.pc, c.session, c.upSeid, c.invocation, c.used, c.grant, c.call, c.attempt)
           r1 == Running("await", c.session, c.upSeid, c.invocation, c.used, c.grant, c.call, c.attempt)
           r2 == Running("await", c.session, c.upSeid, c.invocation, c.used, g, c.call, c.attempt)
           r3 == Running("await", c.session, c.upSeid, c.invocation, c.used, g, n, c.attempt)
           r4 == Running("await", c.session, c.upSeid, c.invocation, c.used, g, n, 1)
<1>1. reauth[u] = r0
  BY ReauthMade DEF HandlersTyped
<1>2. [r0 EXCEPT !.pc = "await"] = r1
  BY DEF Running
<1>3. [r1 EXCEPT !.grant = g] = r2
  BY DEF Running
<1>4. [r2 EXCEPT !.call = n] = r3
  BY DEF Running
<1>5. [r3 EXCEPT !.attempt = 1] = r4
  BY DEF Running
<1>6. reauth' = [reauth EXCEPT ![u] =
          [[[[reauth[u] EXCEPT !.pc = "await"] EXCEPT !.grant = g] EXCEPT !.call = n] EXCEPT !.attempt = 1]]
  BY Zenon DEF HandlersTyped
<1> HIDE DEF r0, r1, r2, r3, r4
<1>7. [[[[reauth[u] EXCEPT !.pc = "await"] EXCEPT !.grant = g] EXCEPT !.call = n] EXCEPT !.attempt = 1] = r4
  BY <1>1, <1>2, <1>3, <1>4, <1>5, Zenon
<1>8. reauth' = [reauth EXCEPT ![u] = r4]
  BY <1>6, <1>7, Zenon
<1> QED BY <1>8, ReauthEffect DEF r4

LEMMA ReauthRepeatEffect ==
    ASSUME HandlersTyped, NEW u \in Inputs, NEW n,
           reauth' = [reauth EXCEPT ![u].attempt = n]
    PROVE  LET c == reauth[u] IN
           Reauthorizes(u, Running(c.pc, c.session, c.upSeid, c.invocation, c.used, c.grant, c.call, n))
<1> DEFINE c == reauth[u]
           r0 == Running(c.pc, c.session, c.upSeid, c.invocation, c.used, c.grant, c.call, c.attempt)
           r1 == Running(c.pc, c.session, c.upSeid, c.invocation, c.used, c.grant, c.call, n)
<1>1. reauth[u] = r0
  BY ReauthMade DEF HandlersTyped
<1>2. [r0 EXCEPT !.attempt = n] = r1
  BY DEF Running
<1>3. reauth' = [reauth EXCEPT ![u] =
          [reauth[u] EXCEPT !.attempt = n]]
  BY Zenon DEF HandlersTyped
<1> HIDE DEF r0, r1
<1>4. [reauth[u] EXCEPT !.attempt = n] = r1
  BY <1>1, <1>2, Zenon
<1>5. reauth' = [reauth EXCEPT ![u] = r1]
  BY <1>3, <1>4, Zenon
<1> QED BY <1>5, ReauthEffect DEF r1

---------------------------------------------------------------------------
(***************************************************************************)
(* What the handlers rely on.  PairInv: a datagram carries 24 bits of its  *)
(* call's number.                                                          *)
(***************************************************************************)
Requests == {"establish", "modify"}
ResponseTypes == {"established", "modified"}
Numbered(m) == m.call \in Nat /\ m.call < nextCall /\ m.seq = Wire(m.call)

UpdateNumbered == updating # NoUpdate => Numbered(updating.request)

PairInv ==
    /\ \A m \in net : m.type \in Requests \cup ResponseTypes => Numbered(m)
    /\ \A p \in pending : p.type \in ResponseTypes /\ Numbered(p)
    /\ UpdateNumbered
    /\ \A s \in Sessions : At(s, "await") => create[s].call < nextCall
    /\ \A u \in Inputs : reauth[u].pc = "await" => reauth[u].call < nextCall

(* SeidInv: the SMF's SEIDs that travel to the UPF and back are its own.    *)
(* Each handler takes one at most.                                          *)
PastN4 == {s \in Sessions : create[s].pc \in {"await", "register", "save", "done"}}

SeidInv ==
    /\ nextCpSeid \in Nat \ {0} /\ nextCpSeid <= Cardinality(PastN4) + 1
    /\ \A s \in Sessions : create[s].pc \in {"await", "register"} => create[s].cpSeid \in CpSeids
    /\ \A m \in net : /\ m.type = "establish" => m.cpSeid \in CpSeids
                      /\ m.type = "report" => m.seid \in CpSeids
    /\ teidSession \in [Teids -> {0} \cup CpSeids]
    /\ DOMAIN cpSession = CpSeids

(* The events of the ring buffer carry a TEID and what was counted for it.  *)
Event == [teid : Teids, total : Nat]

RingInv ==
    /\ ring \in Seq(Event)
    /\ \A t \in Teids : urr[t].total \in Nat
    /\ updating # NoUpdate => updating.read.total \in Nat

(* NumbersInv: the invocation numbers handed out are behind the store's,    *)
(* and no two calls made or about to be made share one.                     *)
Known(s) == invocation[s] # 0
Outstanding(u) == reauth[u].pc = "update"

NumbersInv ==
    /\ \A s \in Sessions : invocation[s] # 1
    /\ \A c \in n40Calls : c[1] \in Sessions /\ c[2] \in Nat /\ c[2] < invocation[c[1]]
    /\ UniqueInvocation
    /\ \A u \in Inputs : Outstanding(u) =>
          /\ reauth[u].session \in Sessions
          /\ reauth[u].invocation < invocation[reauth[u].session]
          /\ \A c \in n40Calls : c[1] = reauth[u].session => c[2] # reauth[u].invocation
    /\ \A u, v \in Inputs : Outstanding(u) /\ Outstanding(v) /\ u # v
                            /\ reauth[u].session = reauth[v].session
                            => reauth[u].invocation # reauth[v].invocation

(* RefsInv: whoever may ask for a number, now or later, holds a reference   *)
(* to a resource the store knows; before Create has asked nobody does.      *)
Ref == "chargingDataRef"

RefsInv ==
    /\ \A s \in Sessions :
          /\ create[s].pc \in {"new", "policy", "decided", "charging"} => ~Known(s)
          /\ create[s].pc = "ref" \/ create[s].grant # 0 => Known(s)
          /\ Ref \in ctx[s] \/ Ref \in create[s].copy => Known(s)
    /\ \A w \in Inputs : write[w].pc \in {"pcfPolicyUpdate", "hoState"} =>
          /\ write[w].session \in Sessions
          /\ Ref \in write[w].copy => Known(write[w].session)
    /\ \A r \in Inputs : release[r].pc = "charging" =>
          /\ release[r].session \in Sessions
          /\ Ref \in release[r].copy => Known(release[r].session)
    /\ \A c \in CpSeids : cpSession[c] # NoSession =>
          cpSession[c].session \in Sessions /\ Known(cpSession[c].session)

(***************************************************************************)
(* RouteInv: how a report finds its session.  The TEID an awaiting handler *)
(* will be told, is told or has stored was given, for its own SEID, by the *)
(* UPF; its SEID is free until it registers; and traffic, hence an event   *)
(* or a report, comes after that.                                          *)
(***************************************************************************)
Registered(t) ==
    teidSession[t] # 0 => /\ cpSession[teidSession[t]] # NoSession
                          /\ cpSession[teidSession[t]].upSeid = t

Allocated(t) == t \in Teids /\ t < nextTeid

(* TEID t is one the UPF allocated for the establishment of session s.      *)
AllocatedFor(t, s) ==
    Allocated(t) /\ teidSession[t] = IF create[s].grant = 0 THEN 0 ELSE create[s].cpSeid

Matches(m, s) ==
    \/ /\ m.type = "establish" /\ m.cpSeid = create[s].cpSeid
       /\ m.hasUrr <=> create[s].grant # 0
    \/ m.type = "established" /\ AllocatedFor(m.seid, s)

Busy(s) == create[s].pc \in {"await", "register"}

AwaitInv ==
    \A s \in Sessions : At(s, "await") =>
        /\ \A m \in net : m.type \in Requests \cup ResponseTypes /\ m.call = create[s].call
                            => Matches(m, s)
        /\ \A p \in pending : p.call = create[s].call => Matches(p, s)
        /\ updating # NoUpdate => updating.request.call # create[s].call
        /\ \A z \in Sessions : At(z, "await") /\ z # s => create[z].call # create[s].call
        /\ \A u \in Inputs : reauth[u].pc = "await" => reauth[u].call # create[s].call

FreeInv ==
    /\ \A s \in Sessions : Busy(s) => /\ create[s].cpSeid < nextCpSeid
                                      /\ cpSession[create[s].cpSeid] = NoSession
    /\ \A s, z \in Sessions : Busy(s) /\ Busy(z) /\ s # z => create[s].cpSeid # create[z].cpSeid
    /\ \A c \in CpSeids : cpSession[c] # NoSession => c < nextCpSeid

TrafficInv ==
    /\ \A s \in Sessions :
          /\ At(s, "register") => AllocatedFor(create[s].upSeid, s)
          /\ At(s, "save") => Allocated(create[s].upSeid) /\ Registered(create[s].upSeid)
          /\ At(s, "done") /\ create[s].upSeid # 0
                => Allocated(create[s].upSeid) /\ Registered(create[s].upSeid)
          /\ create[s].pc \notin {"register", "save", "done"} => create[s].upSeid = 0
    /\ \A i \in 1..Len(ring) : Allocated(ring[i].teid) /\ Registered(ring[i].teid)
    /\ \A m \in net : m.type = "report" =>
          /\ Allocated(m.teid) /\ Registered(m.teid)
          /\ m.seid = teidSession[m.teid] /\ m.seid # 0

(* PathInv: every TEID the UPF offers in an answer is offered once, and not *)
(* after a handler took it; the SEID's registration names the session that  *)
(* took the TEID and the TEID names the SEID.                               *)
Offer(m) == m.type = "established"

Apart == \A m \in net \cap pending : ~Offer(m)

TeidInv ==
    /\ \A m \in net \cup pending : Offer(m) =>
          /\ Allocated(m.seid)
          /\ \A s \in Sessions : create[s].upSeid # m.seid
    /\ \A m, n \in net \cup pending : Offer(m) /\ Offer(n) /\ m.seid = n.seid => m = n
    /\ \A s \in Sessions : create[s].upSeid # 0 => Allocated(create[s].upSeid)
    /\ \A s, z \in Sessions :
          create[s].upSeid # 0 /\ create[z].upSeid = create[s].upSeid => s = z

Linked(c, s, t) ==
    /\ cpSession[c].session = s /\ cpSession[c].upSeid = t
    /\ create[s].pc \in {"save", "done"} /\ create[s].upSeid = t
    /\ Allocated(t) /\ teidSession[t] = c

LinkInv == \A c \in CpSeids : cpSession[c] # NoSession =>
               \E s \in Sessions, t \in Teids : Linked(c, s, t)

PathInv == Apart /\ TeidInv /\ LinkInv

RouteInv == AwaitInv /\ FreeInv /\ TrafficInv /\ PathInv

---------------------------------------------------------------------------
(* Types of the handlers' records.                                          *)
LEMMA CreateTyped ==
    ASSUME HandlersTyped, NEW s \in Sessions, NEW V, NEW c \in Creating(V),
           create' = [create EXCEPT ![s] = c]
    PROVE  \E U : create' \in [Sessions -> Creating(U)]
<1>1. PICK U : create \in [Sessions -> Creating(U)]
  BY DEF HandlersTyped
<1>2. Creating(U) \subseteq Creating(U \cup V) /\ Creating(V) \subseteq Creating(U \cup V)
  BY DEF Creating
<1>3. create' \in [Sessions -> Creating(U \cup V)]
  BY <1>1, <1>2
<1> QED BY <1>3

LEMMA ReauthTyped ==
    ASSUME HandlersTyped, NEW u \in Inputs, NEW V, NEW c \in Reauthorizing(V),
           reauth' = [reauth EXCEPT ![u] = c]
    PROVE  \E U : reauth' \in [Inputs -> Reauthorizing(U)]
<1>1. PICK U : reauth \in [Inputs -> Reauthorizing(U)]
  BY DEF HandlersTyped
<1>2. /\ Reauthorizing(U) \subseteq Reauthorizing(U \cup V)
      /\ Reauthorizing(V) \subseteq Reauthorizing(U \cup V)
  BY DEF Reauthorizing
<1>3. reauth' \in [Inputs -> Reauthorizing(U \cup V)]
  BY <1>1, <1>2
<1> QED BY <1>3

LEMMA FieldsTyped ==
    ASSUME HandlersTyped
    PROVE  /\ \A s \in Sessions :
                 /\ create[s].pc \in CreatePcs /\ create[s].copy \subseteq Keys
                 /\ create[s].grant \in Nat /\ create[s].cpSeid \in Nat
                 /\ create[s].call \in Nat /\ create[s].attempt \in Nat
           /\ \A u \in Inputs :
                 /\ reauth[u].pc \in {"new", "update", "await", "done"}
                 /\ reauth[u].session \in {0} \cup Sessions /\ reauth[u].invocation \in Nat
                 /\ reauth[u].grant \in Nat
                 /\ reauth[u].call \in Nat /\ reauth[u].attempt \in Nat
<1>1. PICK U : create \in [Sessions -> Creating(U)]
  BY DEF HandlersTyped
<1>2. PICK V : reauth \in [Inputs -> Reauthorizing(V)]
  BY DEF HandlersTyped
<1>3. ASSUME NEW s \in Sessions PROVE create[s] \in Creating(U)
  BY <1>1
<1>4. ASSUME NEW u \in Inputs PROVE reauth[u] \in Reauthorizing(V)
  BY <1>2
<1>5. ASSUME NEW c \in Creating(U)
      PROVE  /\ c.pc \in CreatePcs /\ c.copy \subseteq Keys
             /\ c.grant \in Nat /\ c.cpSeid \in Nat /\ c.call \in Nat /\ c.attempt \in Nat
  BY <1>5 DEF Creating
<1>6. ASSUME NEW c \in Reauthorizing(V)
      PROVE  /\ c.pc \in {"new", "update", "await", "done"}
             /\ c.session \in {0} \cup Sessions /\ c.invocation \in Nat
             /\ c.grant \in Nat /\ c.call \in Nat /\ c.attempt \in Nat
  BY <1>6 DEF Reauthorizing
<1> QED BY <1>3, <1>4, <1>5, <1>6

LEMMA MadeTyped ==
    ASSUME NEW pc \in CreatePcs, NEW copy \in SUBSET Keys, NEW grant \in Nat,
           NEW cpSeid \in Nat, NEW call \in Nat, NEW attempt \in Nat, NEW t
    PROVE  Made(pc, copy, grant, cpSeid, call, attempt, t) \in Creating({t})
BY DEF Made, Creating

LEMMA RunningTyped ==
    ASSUME NEW pc \in {"new", "update", "await", "done"}, NEW s \in {0} \cup Sessions,
           NEW t, NEW number \in Nat, NEW used, NEW grant \in Nat, NEW call \in Nat,
           NEW attempt \in Nat
    PROVE  Running(pc, s, t, number, used, grant, call, attempt) \in Reauthorizing({t, used})
BY DEF Running, Reauthorizing

LEMMA UpdateEffect ==
    ASSUME HandlersTyped, NEW s \in Sessions, NEW keys \in SUBSET Keys, update(s, keys)
    PROVE  /\ ctx' \in [Sessions -> SUBSET Keys] /\ contexts' = contexts
           /\ \A z \in Sessions : ctx'[z] = ctx[z] \/ (z = s /\ ctx'[z] = keys)
BY DEF HandlersTyped, update

(* A known resource's next number, and the store after it.                  *)
LEMMA AdvanceEffect ==
    ASSUME HandlersTyped, NEW s \in Sessions, Known(s), get_and_advance(s)
    PROVE  /\ Invocation(s) = invocation[s]
           /\ invocation' \in [Sessions -> Nat] /\ invocation'[s] = invocation[s] + 1
           /\ \A z \in Sessions : z # s => invocation'[z] = invocation[z]
BY DEF HandlersTyped, Known, get_and_advance, Invocation

LEMMA SessionsPositive == 0 \notin Sessions /\ Sessions \subseteq Nat
BY SessionManagementAssumption DEF Sessions

---------------------------------------------------------------------------
(* Invocation numbers: a step that asks for none, the Create, a Release, a  *)
(* report, and the Update that sends the number a report was given.         *)
LEMMA NumbersIdle ==
    ASSUME NumbersInv, UNCHANGED <<invocation, n40Calls>>,
           \A u \in Inputs : Outstanding(u)' => Outstanding(u) /\ reauth'[u] = reauth[u]
    PROVE  NumbersInv'
BY DEF NumbersInv, UniqueInvocation, Outstanding

LEMMA NumbersCreated ==
    ASSUME NumbersInv, HandlersTyped, NEW s \in Sessions, ~Known(s), NEW x,
           invocation' = [invocation EXCEPT ![s] = 2],
           n40Calls' = n40Calls \cup {<<s, 1, x>>}, UNCHANGED reauth
    PROVE  NumbersInv'
<1>1. /\ invocation \in [Sessions -> Nat] /\ invocation[s] = 0
      /\ invocation' \in [Sessions -> Nat] /\ invocation'[s] = 2
      /\ \A z \in Sessions : z # s => invocation'[z] = invocation[z]
  BY DEF HandlersTyped, Known
<1>2. \A c \in n40Calls : c[1] # s
  BY <1>1 DEF NumbersInv
<1>3. \A u \in Inputs : Outstanding(u) => reauth[u].session # s
  BY <1>1, FieldsTyped DEF NumbersInv
<1> DEFINE n == <<s, 1, x>>
<1>4. n[1] = s /\ n[2] = 1
  OBVIOUS
<1>5. n40Calls' = n40Calls \cup {n}
  OBVIOUS
<1> HIDE DEF n
<1>6. UniqueInvocation'
  BY <1>2, <1>4, <1>5 DEF NumbersInv, UniqueInvocation
<1>7. \A c \in n40Calls' : c[1] \in Sessions /\ c[2] \in Nat /\ c[2] < invocation'[c[1]]
  BY <1>1, <1>2, <1>4, <1>5 DEF NumbersInv
<1>8. \A u \in Inputs : Outstanding(u) =>
          /\ reauth[u].session \in Sessions
          /\ reauth[u].invocation < invocation'[reauth[u].session]
          /\ \A c \in n40Calls' : c[1] = reauth[u].session => c[2] # reauth[u].invocation
  BY <1>1, <1>3, <1>4, <1>5 DEF NumbersInv
<1>9. \A z \in Sessions : invocation'[z] # 1
  BY <1>1 DEF NumbersInv
<1> QED BY <1>6, <1>7, <1>8, <1>9 DEF NumbersInv, Outstanding

LEMMA NumbersReleased ==
    ASSUME NumbersInv, HandlersTyped, NEW s \in Sessions, Known(s), NEW x, get_and_advance(s),
           n40Calls' = n40Calls \cup {<<s, Invocation(s), x>>}, UNCHANGED reauth
    PROVE  NumbersInv'
<1>1. /\ Invocation(s) = invocation[s] /\ invocation \in [Sessions -> Nat]
      /\ invocation' \in [Sessions -> Nat] /\ invocation'[s] = invocation[s] + 1
      /\ \A z \in Sessions : z # s => invocation'[z] = invocation[z]
  BY AdvanceEffect DEF HandlersTyped
<1> DEFINE n == <<s, Invocation(s), x>>
<1>2. n[1] = s /\ n[2] = invocation[s]
  BY <1>1
<1>3. n40Calls' = n40Calls \cup {n} /\ invocation[s] \in Nat /\ invocation[s] # 0
  BY <1>1 DEF Known
<1> HIDE DEF n
<1>4. \A z \in Sessions : invocation[z] \in Nat /\ invocation'[z] \in Nat
                          /\ invocation'[z] >= invocation[z]
  BY <1>1
<1>5. UniqueInvocation'
  <2>1. \A c \in n40Calls : c[1] = s => c[2] # invocation[s]
    BY <1>3 DEF NumbersInv
  <2> QED BY <1>2, <1>3, <2>1 DEF NumbersInv, UniqueInvocation
<1>6. \A c \in n40Calls' : c[1] \in Sessions /\ c[2] \in Nat /\ c[2] < invocation'[c[1]]
  BY <1>1, <1>2, <1>3, <1>4 DEF NumbersInv
<1>7. ASSUME NEW u \in Inputs, Outstanding(u)
      PROVE  /\ reauth[u].session \in Sessions
             /\ reauth[u].invocation < invocation'[reauth[u].session]
             /\ \A c \in n40Calls' : c[1] = reauth[u].session => c[2] # reauth[u].invocation
  <2>1. /\ reauth[u].session \in Sessions /\ reauth[u].invocation \in Nat
        /\ reauth[u].invocation < invocation[reauth[u].session]
    BY <1>7, FieldsTyped DEF NumbersInv
  <2>2. \A c \in n40Calls : c[1] = reauth[u].session => c[2] # reauth[u].invocation
    BY <1>7 DEF NumbersInv
  <2>3. n[1] = reauth[u].session => n[2] # reauth[u].invocation
    BY <1>2, <2>1, <1>3
  <2>4. reauth[u].invocation < invocation'[reauth[u].session]
    BY <1>4, <2>1
  <2> QED BY <1>3, <2>1, <2>2, <2>3, <2>4
<1>8. \A z \in Sessions : invocation'[z] # 1
  BY <1>1, <1>3 DEF NumbersInv
<1> QED BY <1>5, <1>6, <1>7, <1>8 DEF NumbersInv, Outstanding

LEMMA NumbersReported ==
    ASSUME NumbersInv, HandlersTyped, NEW s \in Sessions, Known(s), get_and_advance(s),
           UNCHANGED n40Calls, NEW u \in Inputs, NEW c, Reauthorizes(u, c),
           c.pc = "update", c.session = s, c.invocation = Invocation(s)
    PROVE  NumbersInv'
<1>1. /\ Invocation(s) = invocation[s] /\ invocation \in [Sessions -> Nat]
      /\ invocation' \in [Sessions -> Nat] /\ invocation'[s] = invocation[s] + 1
      /\ \A z \in Sessions : z # s => invocation'[z] = invocation[z]
  BY AdvanceEffect DEF HandlersTyped
<1>2. reauth'[u] = c /\ \A v \in Inputs : v # u => reauth'[v] = reauth[v]
  BY DEF Reauthorizes
<1>3. c.invocation = invocation[s] /\ invocation[s] \in Nat /\ invocation[s] # 0
  BY <1>1 DEF Known
<1>4. \A z \in Sessions : invocation[z] \in Nat /\ invocation'[z] \in Nat
                          /\ invocation'[z] >= invocation[z]
  BY <1>1
<1>5. \A d \in n40Calls : d[1] \in Sessions /\ d[2] \in Nat /\ d[2] < invocation'[d[1]]
  BY <1>4 DEF NumbersInv
<1>6. ASSUME NEW v \in Inputs, Outstanding(v)'
      PROVE  /\ reauth'[v].session \in Sessions
             /\ reauth'[v].invocation < invocation'[reauth'[v].session]
             /\ \A d \in n40Calls : d[1] = reauth'[v].session => d[2] # reauth'[v].invocation
  <2>1. CASE v = u
    <3>1. reauth'[v].session = s /\ reauth'[v].invocation = invocation[s]
      BY <1>2, <1>3, <2>1
    <3>2. \A d \in n40Calls : d[1] = s => d[2] # invocation[s]
      BY <1>3 DEF NumbersInv
    <3>3. invocation[s] < invocation'[s]
      BY <1>1, <1>3
    <3> QED BY <3>1, <3>2, <3>3
  <2>2. CASE v # u
    <3>1. reauth'[v] = reauth[v] /\ Outstanding(v)
      BY <1>2, <1>6, <2>2 DEF Outstanding
    <3>2. /\ reauth[v].session \in Sessions /\ reauth[v].invocation \in Nat
          /\ reauth[v].invocation < invocation[reauth[v].session]
          /\ \A d \in n40Calls : d[1] = reauth[v].session => d[2] # reauth[v].invocation
      BY <3>1, FieldsTyped DEF NumbersInv
    <3>3. reauth[v].invocation < invocation'[reauth[v].session]
      BY <1>4, <3>2
    <3> QED BY <3>1, <3>2, <3>3
  <2> QED BY <2>1, <2>2
<1>7. \A v \in Inputs : Outstanding(v) /\ reauth[v].session = s
                          => reauth[v].invocation # invocation[s]
  BY <1>3, FieldsTyped DEF NumbersInv
<1>8. ASSUME NEW v \in Inputs, NEW w \in Inputs, Outstanding(v)', Outstanding(w)', v # w,
             reauth'[v].session = reauth'[w].session
      PROVE  reauth'[v].invocation # reauth'[w].invocation
  <2>1. \A z \in Inputs : z # u /\ Outstanding(z)' => Outstanding(z) /\ reauth'[z] = reauth[z]
    BY <1>2 DEF Outstanding
  <2>2. CASE v # u /\ w # u
    BY <1>8, <2>1, <2>2 DEF NumbersInv
  <2>3. CASE v = u
    BY <1>2, <1>3, <1>7, <1>8, <2>1, <2>3
  <2>4. CASE w = u
    BY <1>2, <1>3, <1>7, <1>8, <2>1, <2>4
  <2> QED BY <2>2, <2>3, <2>4
<1>9. \A z \in Sessions : invocation'[z] # 1
  BY <1>1, <1>3 DEF NumbersInv
<1>10. UniqueInvocation'
  BY DEF NumbersInv, UniqueInvocation
<1> QED BY <1>5, <1>6, <1>8, <1>9, <1>10 DEF NumbersInv

LEMMA NumbersSent ==
    ASSUME NumbersInv, HandlersTyped, NEW u \in Inputs, Outstanding(u), NEW x,
           n40Calls' = n40Calls \cup {<<reauth[u].session, reauth[u].invocation, x>>},
           UNCHANGED invocation, NEW c, Reauthorizes(u, c), c.pc # "update"
    PROVE  NumbersInv'
<1> DEFINE n == <<reauth[u].session, reauth[u].invocation, x>>
<1>1. n[1] = reauth[u].session /\ n[2] = reauth[u].invocation
  OBVIOUS
<1>2. n40Calls' = n40Calls \cup {n}
  OBVIOUS
<1> HIDE DEF n
<1>3. /\ n[1] \in Sessions /\ n[2] \in Nat /\ n[2] < invocation[n[1]]
      /\ \A d \in n40Calls : d[1] = n[1] => d[2] # n[2]
  BY <1>1, FieldsTyped DEF NumbersInv
<1>4. UniqueInvocation'
  BY <1>2, <1>3 DEF NumbersInv, UniqueInvocation
<1>5. \A v \in Inputs : Outstanding(v)' => Outstanding(v) /\ v # u /\ reauth'[v] = reauth[v]
  BY DEF Reauthorizes, Outstanding
<1>6. \A v \in Inputs : Outstanding(v) /\ v # u /\ n[1] = reauth[v].session
                          => n[2] # reauth[v].invocation
  BY <1>1 DEF NumbersInv
<1>7. \A d \in n40Calls' : d[1] \in Sessions /\ d[2] \in Nat /\ d[2] < invocation[d[1]]
  BY <1>2, <1>3 DEF NumbersInv
<1>8. ASSUME NEW v \in Inputs, Outstanding(v)'
      PROVE  /\ reauth'[v].session \in Sessions
             /\ reauth'[v].invocation < invocation[reauth'[v].session]
             /\ \A d \in n40Calls' : d[1] = reauth'[v].session => d[2] # reauth'[v].invocation
  BY <1>2, <1>5, <1>6, <1>8 DEF NumbersInv
<1>9. ASSUME NEW v \in Inputs, NEW w \in Inputs, Outstanding(v)', Outstanding(w)', v # w,
             reauth'[v].session = reauth'[w].session
      PROVE  reauth'[v].invocation # reauth'[w].invocation
  BY <1>5, <1>9 DEF NumbersInv
<1> QED BY <1>4, <1>7, <1>8, <1>9 DEF NumbersInv

---------------------------------------------------------------------------
SmfInv == HandlersTyped /\ PairInv /\ SeidInv /\ NumbersInv /\ RefsInv

(* Numbers stay those of their calls.                                       *)
LEMMA PairsKept ==
    ASSUME PairInv, HandlersTyped, nextCall' \in Nat, nextCall <= nextCall',
           \A s \in Sessions : At(s, "await")' =>
                 create'[s].call < nextCall' \/ (At(s, "await") /\ create'[s] = create[s]),
           \A u \in Inputs : reauth'[u].pc = "await" =>
              reauth'[u].call < nextCall' \/ reauth'[u] = reauth[u],
           \A m \in net' : m \in net \/ Numbered(m)' \/ m.type = "report",
           \A p \in pending' : \/ p \in pending
                               \/ p.type \in ResponseTypes /\ p \in net,
           updating' = updating \/ updating' = NoUpdate \/ UpdateNumbered'
    PROVE  PairInv'
<1>0. nextCall \in Nat
  BY DEF HandlersTyped
<1>1. \A m : Numbered(m) => Numbered(m)'
  BY <1>0 DEF Numbered
<1>2. \A m \in net' : m.type \in Requests \cup ResponseTypes => Numbered(m)'
  BY <1>1 DEF PairInv, Requests, ResponseTypes
<1>3. \A p \in pending' : p.type \in ResponseTypes /\ Numbered(p)'
  BY <1>1 DEF PairInv
<1>4. UpdateNumbered'
  BY <1>1 DEF PairInv, UpdateNumbered
<1>5. \A s \in Sessions : At(s, "await")' => create'[s].call < nextCall'
  BY <1>0, FieldsTyped DEF PairInv
<1>6. \A u \in Inputs : reauth'[u].pc = "await" => reauth'[u].call < nextCall'
  BY <1>0, FieldsTyped DEF PairInv
<1> QED BY <1>2, <1>3, <1>4, <1>5, <1>6 DEF PairInv, At

(* SEIDs are counted against the handlers that have asked for one.          *)
LEMMA PastCounted ==
    ASSUME PastN4 \subseteq PastN4'
    PROVE  /\ Cardinality(PastN4) \in Nat /\ Cardinality(PastN4') \in Nat
           /\ Cardinality(PastN4) <= Cardinality(PastN4')
           /\ IsFiniteSet(PastN4)
<1> DEFINE A == PastN4
           B == PastN4'
<1>1. IsFiniteSet(Sessions)
  BY SessionManagementAssumption, FS_Interval DEF Sessions
<1>2. A \subseteq Sessions /\ B \subseteq Sessions /\ A \subseteq B
  BY DEF PastN4
<1> HIDE DEF A, B
<1>3. IsFiniteSet(B) /\ IsFiniteSet(A)
  BY <1>1, <1>2, FS_Subset
<1>4. Cardinality(A) \in Nat /\ Cardinality(B) \in Nat /\ Cardinality(A) <= Cardinality(B)
  BY <1>2, <1>3, FS_Subset, FS_CardinalityType
<1> QED BY <1>3, <1>4 DEF A, B

LEMMA SeidsKept ==
    ASSUME SeidInv, UNCHANGED <<nextCpSeid, teidSession, create>>, DOMAIN cpSession' = CpSeids,
           \A m \in net' : m \in net \/ m.type \notin {"establish", "report"}
    PROVE  SeidInv'
BY DEF SeidInv, PastN4

LEMMA SeidsCreate ==
    ASSUME SeidInv, NEW s \in Sessions, NEW c, Creates(s, c),
           UNCHANGED <<nextCpSeid, teidSession>>, DOMAIN cpSession' = CpSeids,
           s \in PastN4 => c.pc \in {"await", "register", "save", "done"},
           c.pc \in {"await", "register"} => c.cpSeid \in CpSeids,
           \A m \in net' : m \in net \/ (m.type = "establish" /\ m.cpSeid \in CpSeids)
    PROVE  SeidInv'
<1>1. PastN4 \subseteq PastN4'
  BY DEF PastN4, Creates
<1>2. Cardinality(PastN4) \in Nat /\ Cardinality(PastN4') \in Nat
      /\ Cardinality(PastN4) <= Cardinality(PastN4')
  BY <1>1, PastCounted
<1>3. nextCpSeid' \in Nat \ {0} /\ nextCpSeid' <= Cardinality(PastN4') + 1
  BY <1>2 DEF SeidInv
<1>4. \A z \in Sessions : create'[z].pc \in {"await", "register"} => create'[z].cpSeid \in CpSeids
  BY DEF SeidInv, Creates
<1>5. \A m \in net' : /\ m.type = "establish" => m.cpSeid \in CpSeids
                      /\ m.type = "report" => m.seid \in CpSeids
  BY DEF SeidInv
<1>6. teidSession' \in [Teids -> {0} \cup CpSeids]
  BY DEF SeidInv
<1>7. Cardinality(PastN4)' = Cardinality(PastN4')
  OBVIOUS
<1> QED BY <1>3, <1>4, <1>5, <1>6, <1>7 DEF SeidInv

(* A handler that is about to ask takes an SEID of its own.                 *)
LEMMA SeidsTaken ==
    ASSUME SeidInv, NEW s \in Sessions, NEW c, Creates(s, c), s \notin PastN4,
           nextCpSeid' = nextCpSeid + 1, UNCHANGED <<teidSession, cpSession>>,
           c.pc = "await", c.cpSeid = nextCpSeid,
           \A m \in net' : m \in net \/ (m.type = "establish" /\ m.cpSeid = nextCpSeid)
    PROVE  SeidInv' /\ nextCpSeid \in CpSeids
<1> DEFINE A == PastN4
           B == PastN4'
<1>1. B = A \cup {s} /\ s \notin A /\ A \subseteq Sessions /\ B \subseteq Sessions
  BY DEF PastN4, Creates
<1>2. IsFiniteSet(A) /\ Cardinality(A) \in Nat
  BY <1>1, PastCounted
<1> HIDE DEF A, B
<1>3. Cardinality(B) = Cardinality(A) + 1
  BY <1>1, <1>2, FS_AddElement
<1>4. Cardinality(B) <= MaxSessions
  <2>1. IsFiniteSet(1..MaxSessions) /\ Cardinality(1..MaxSessions) = MaxSessions
    BY SessionManagementAssumption, FS_Interval
  <2> QED BY <1>1, <2>1, FS_Subset DEF Sessions
<1>5. nextCpSeid \in Nat \ {0} /\ nextCpSeid <= Cardinality(A) + 1
  BY DEF SeidInv, A
<1>6. nextCpSeid \in CpSeids
  BY <1>2, <1>3, <1>4, <1>5, SessionManagementAssumption DEF CpSeids, Sessions
<1>7. nextCpSeid' \in Nat \ {0} /\ nextCpSeid' <= Cardinality(B) + 1
  BY <1>2, <1>3, <1>5
<1>8. \A z \in Sessions : create'[z].pc \in {"await", "register"} => create'[z].cpSeid \in CpSeids
  BY <1>6 DEF SeidInv, Creates
<1>9. \A m \in net' : /\ m.type = "establish" => m.cpSeid \in CpSeids
                      /\ m.type = "report" => m.seid \in CpSeids
  BY <1>6 DEF SeidInv
<1>10. teidSession' \in [Teids -> {0} \cup CpSeids] /\ DOMAIN cpSession' = CpSeids
  BY DEF SeidInv
<1>11. Cardinality(PastN4)' = Cardinality(B)
  BY DEF B
<1> QED BY <1>6, <1>7, <1>8, <1>9, <1>10, <1>11 DEF SeidInv

(* A handler of Create goes on as c; its context may have been written.     *)
LEMMA RefsCreate ==
    ASSUME RefsInv, NEW s \in Sessions, NEW c, Creates(s, c),
           UNCHANGED <<write, release, cpSession, invocation>>,
           \A z \in Sessions : ctx'[z] = ctx[z] \/ (z = s /\ (Ref \in ctx'[z] => Known(s))),
           c.pc \in {"new", "policy", "decided", "charging"} => ~Known(s),
           c.pc = "ref" \/ c.grant # 0 \/ Ref \in c.copy => Known(s)
    PROVE  RefsInv'
<1>1. ASSUME NEW z \in Sessions
      PROVE  /\ create'[z].pc \in {"new", "policy", "decided", "charging"} => ~Known(z)'
             /\ create'[z].pc = "ref" \/ create'[z].grant # 0 => Known(z)'
             /\ Ref \in ctx'[z] \/ Ref \in create'[z].copy => Known(z)'
  <2>1. Known(z)' <=> Known(z)
    BY DEF Known
  <2>2. CASE z = s
    BY <2>1, <2>2 DEF RefsInv, Creates
  <2>3. CASE z # s
    BY <2>1, <2>3 DEF RefsInv, Creates
  <2> QED BY <2>2, <2>3
<1> QED BY <1>1 DEF RefsInv, Known

(* A handler of Create moves on without asking for a number or an SEID.     *)
LEMMA MovesOn ==
    ASSUME SmfInv, NEW s \in Sessions, NEW V, NEW c \in Creating(V), Creates(s, c),
           UNCHANGED <<updating, teidSession, write, release, reauth, nextCpSeid,
                       cpSession, nextCall, invocation, n40Calls>>,
           pending' \subseteq pending, contexts' \subseteq Sessions,
           ctx' \in [Sessions -> SUBSET Keys],
           \A m \in net' : m \in net \/ /\ m.type = "establish" /\ m.cpSeid \in CpSeids
                                        /\ Numbered(m),
           \A z \in Sessions : ctx'[z] = ctx[z] \/ (z = s /\ (Ref \in ctx'[z] => Known(s))),
           s \in PastN4 => c.pc \in {"await", "register", "save", "done"},
           c.pc \in {"await", "register"} => c.cpSeid \in CpSeids,
           c.pc = "await" => c.call < nextCall,
           c.pc \in {"new", "policy", "decided", "charging"} => ~Known(s),
           c.pc = "ref" \/ c.grant # 0 \/ Ref \in c.copy => Known(s)
    PROVE  SmfInv'
<1>1. \E U : create' \in [Sessions -> Creating(U)]
  BY CreateTyped DEF SmfInv, Creates
<1>2. HandlersTyped'
  BY <1>1 DEF SmfInv, HandlersTyped
<1>3. PairInv'
  <2>1. \A m : Numbered(m)' <=> Numbered(m)
    BY DEF Numbered
  <2>2. nextCall \in Nat /\ nextCall' = nextCall /\ nextCall <= nextCall'
    BY DEF SmfInv, HandlersTyped
  <2>3. \A z \in Sessions : At(z, "await")' =>
               create'[z].call < nextCall' \/ (At(z, "await") /\ create'[z] = create[z])
    BY DEF Creates, At
  <2> QED BY <2>1, <2>2, <2>3, PairsKept DEF SmfInv
<1>4. SeidInv'
  BY SeidsCreate DEF SmfInv, SeidInv
<1>5. NumbersInv'
  BY NumbersIdle DEF SmfInv, Outstanding
<1>6. RefsInv'
  BY RefsCreate DEF SmfInv
<1> QED BY <1>2, <1>3, <1>4, <1>5, <1>6 DEF SmfInv

(* Fields of the record a handler goes on with.                             *)
LEMMA MadeFields ==
    ASSUME NEW pc, NEW copy, NEW grant, NEW cpSeid, NEW call, NEW attempt, NEW t,
           NEW c, c = Made(pc, copy, grant, cpSeid, call, attempt, t)
    PROVE  /\ c.pc = pc /\ c.copy = copy /\ c.grant = grant /\ c.cpSeid = cpSeid
           /\ c.call = call /\ c.attempt = attempt /\ c.upSeid = t
BY DEF Made

(* What the rest of SMF's and UPF's state is while only Create moves.       *)
OnlyCreate ==
    UNCHANGED <<net, updating, teidSession, write, release, reauth, nextCpSeid,
                cpSession, nextCall, pending, invocation, n40Calls>>

LEMMA GoesOn ==
    ASSUME SmfInv, NEW s \in Sessions, NEW pc \in CreatePcs, Go(s, pc), OnlyCreate,
           contexts' \subseteq Sessions, ctx' \in [Sessions -> SUBSET Keys],
           \A z \in Sessions : ctx'[z] = ctx[z] \/ (z = s /\ (Ref \in ctx'[z] => Known(s))),
           s \notin PastN4, pc \notin {"await", "register", "ref"},
           pc \in {"new", "policy", "decided", "charging"} => ~Known(s)
    PROVE  SmfInv'
<1> DEFINE d == create[s]
<1>1. PICK c : /\ c = Made(pc, {}, d.grant, d.cpSeid, d.call, d.attempt, d.upSeid)
               /\ Creates(s, c)
  BY GoEffect DEF SmfInv
<1>2. c.pc = pc /\ c.copy = {} /\ c.grant = d.grant
  BY <1>1, MadeFields
<1>3. c \in Creating({d.upSeid})
  BY <1>1, MadeTyped, FieldsTyped DEF SmfInv
<1>4. c.grant # 0 => Known(s)
  BY <1>2 DEF SmfInv, RefsInv
<1> HIDE DEF d
<1> QED BY <1>1, <1>2, <1>3, <1>4, MovesOn DEF OnlyCreate

LEMMA Returns ==
    ASSUME SmfInv, NEW s \in Sessions, Return(s), OnlyCreate,
           contexts' \subseteq Sessions, ctx' \in [Sessions -> SUBSET Keys],
           \A z \in Sessions : ctx'[z] = ctx[z] \/ (z = s /\ (Ref \in ctx'[z] => Known(s)))
    PROVE  SmfInv'
<1> DEFINE d == create[s]
<1>1. PICK c : c = Made("done", {}, 0, 0, 0, 0, d.upSeid) /\ Creates(s, c)
  BY ReturnEffect DEF SmfInv
<1>2. c.pc = "done" /\ c.copy = {} /\ c.grant = 0
  BY <1>1, MadeFields
<1>3. "done" \in CreatePcs
  BY DEF CreatePcs
<1>4. c \in Creating({d.upSeid})
  BY <1>1, <1>3, MadeTyped
<1> HIDE DEF d
<1> QED BY <1>1, <1>2, <1>4, MovesOn DEF OnlyCreate

LEMMA EarlyStep ==
    ASSUME SmfInv, UNCHANGED upfVars, NEW s \in Sessions,
           CreateSMContext(s) \/ CreateSMPolicy(s) \/ StoreDecision(s)
    PROVE  SmfInv'
<1>1. OnlyCreate
  BY DEF CreateSMContext, CreateSMPolicy, StoreDecision, OnlyCreate, upfVars, callVars, chargeVars
<1>2. contexts \subseteq Sessions /\ ctx \in [Sessions -> SUBSET Keys]
  BY DEF SmfInv, HandlersTyped
<1>3. /\ s \notin PastN4 /\ ~Known(s)
      /\ "policy" \in CreatePcs /\ "decided" \in CreatePcs /\ "charging" \in CreatePcs
  BY DEF CreateSMContext, CreateSMPolicy, StoreDecision, At, PastN4, SmfInv, RefsInv, CreatePcs
<1>4. CASE CreateSMContext(s)
  <2>1. contexts' \subseteq Sessions /\ ctx' = ctx /\ (Go(s, "policy") \/ Return(s))
    BY <1>2, <1>4 DEF CreateSMContext
  <2> QED BY <1>1, <1>2, <1>3, <2>1, GoesOn, Returns
<1>5. CASE CreateSMPolicy(s)
  <2>1. contexts' \subseteq Sessions /\ ctx' = ctx /\ (Go(s, "decided") \/ Return(s))
    BY <1>2, <1>5 DEF CreateSMPolicy
  <2> QED BY <1>1, <1>2, <1>3, <2>1, GoesOn, Returns
<1>6. CASE StoreDecision(s)
  <2>1. update(s, {"smPolicyId"}) /\ Go(s, "charging")
    BY <1>6 DEF StoreDecision
  <2>2. {"smPolicyId"} \in SUBSET Keys /\ Ref \notin {"smPolicyId"}
    BY DEF Keys, Ref
  <2>3. /\ ctx' \in [Sessions -> SUBSET Keys] /\ contexts' = contexts
        /\ \A z \in Sessions : ctx'[z] = ctx[z] \/ (z = s /\ ctx'[z] = {"smPolicyId"})
    BY <2>1, <2>2, UpdateEffect DEF SmfInv
  <2> QED BY <1>1, <1>2, <1>3, <2>1, <2>2, <2>3, GoesOn
<1> QED BY <1>4, <1>5, <1>6

(* The charging resource is created: its number starts.                     *)
LEMMA ChargingStep ==
    ASSUME SmfInv, UNCHANGED upfVars, NEW s \in Sessions, ChargingDataCreate(s)
    PROVE  SmfInv'
<1> DEFINE d == create[s]
<1>1. /\ contexts \subseteq Sessions /\ ctx \in [Sessions -> SUBSET Keys] /\ ctx[s] \subseteq Keys
      /\ UNCHANGED storeVars
  BY DEF SmfInv, HandlersTyped, ChargingDataCreate
<1>2. s \notin PastN4 /\ ~Known(s)
  BY DEF ChargingDataCreate, At, PastN4, SmfInv, RefsInv
<1>3. CASE Go(s, "n4") /\ UNCHANGED chargeVars
  <2>1. OnlyCreate
    BY <1>3 DEF ChargingDataCreate, OnlyCreate, upfVars, callVars, chargeVars
  <2>2. "n4" \in CreatePcs
    BY DEF CreatePcs
  <2> QED BY <1>1, <1>2, <1>3, <2>1, <2>2, GoesOn DEF storeVars
<1>4. ASSUME NEW g \in Grants \cup {0},
             create' = [create EXCEPT ![s].pc = "ref", ![s].grant = g, ![s].copy = ctx[s]],
             invocation' = [invocation EXCEPT ![s] = 2],
             n40Calls' = n40Calls \cup {<<s, 1, <<"create", 1>>>>}
      PROVE  SmfInv'
  <2>1. PICK c : /\ c = Made("ref", ctx[s], g, d.cpSeid, d.call, d.attempt, d.upSeid)
                 /\ Creates(s, c)
    BY <1>4, GrantEffect DEF SmfInv
  <2>2. c.pc = "ref" /\ c.copy = ctx[s] /\ c.grant = g
    BY <2>1, MadeFields
  <2>3. g \in Nat /\ "ref" \in CreatePcs
    BY SessionManagementAssumption DEF CreatePcs
  <2>4. c \in Creating({d.upSeid})
    BY <1>1, <2>1, <2>3, MadeTyped, FieldsTyped DEF SmfInv
  <2>5. /\ UNCHANGED <<net, updating, teidSession, write, release, reauth, nextCpSeid,
                       cpSession, nextCall, pending, ctx, contexts>>
    BY DEF ChargingDataCreate, upfVars, callVars, storeVars
  <2>6. \E U : create' \in [Sessions -> Creating(U)]
    BY <2>1, <2>4, CreateTyped DEF SmfInv, Creates
  <2>7. /\ invocation' \in [Sessions -> Nat] /\ invocation'[s] = 2
        /\ \A z \in Sessions : z # s => invocation'[z] = invocation[z]
    BY <1>4 DEF SmfInv, HandlersTyped
  <2>8. HandlersTyped'
    BY <2>5, <2>6, <2>7 DEF SmfInv, HandlersTyped
  <2>9. PairInv'
    <3>1. \A z \in Sessions : At(z, "await")' => At(z, "await") /\ create'[z] = create[z]
      BY <2>1, <2>2 DEF Creates, At
    <3>2. nextCall' \in Nat /\ nextCall <= nextCall'
      BY <2>5 DEF SmfInv, HandlersTyped
    <3> QED BY <2>5, <3>1, <3>2, PairsKept DEF SmfInv
  <2>10. SeidInv'
    BY <1>2, <2>1, <2>2, <2>5, SeidsCreate DEF SmfInv, SeidInv
  <2>11. NumbersInv'
    BY <1>2, <1>4, <2>5, NumbersCreated DEF SmfInv
  <2>12. RefsInv'
    <3>1. \A z \in Sessions : Known(z) => Known(z)'
      BY <2>7 DEF Known
    <3>2. \A z \in Sessions : z # s => (Known(z)' <=> Known(z)) /\ create'[z] = create[z]
      BY <2>1, <2>7 DEF Known, Creates
    <3>3. Known(s)' /\ create'[s].pc = "ref"
      BY <2>1, <2>2, <2>7 DEF Known, Creates
    <3>4. ASSUME NEW z \in Sessions
          PROVE  /\ create'[z].pc \in {"new", "policy", "decided", "charging"} => ~Known(z)'
                 /\ create'[z].pc = "ref" \/ create'[z].grant # 0 => Known(z)'
                 /\ Ref \in ctx'[z] \/ Ref \in create'[z].copy => Known(z)'
      BY <2>5, <3>2, <3>3 DEF SmfInv, RefsInv
    <3>5. \A w \in Inputs : write'[w].pc \in {"pcfPolicyUpdate", "hoState"} =>
            /\ write'[w].session \in Sessions
            /\ Ref \in write'[w].copy => invocation'[write'[w].session] # 0
      BY <2>5, <3>1 DEF SmfInv, RefsInv, Known
    <3>6. \A r \in Inputs : release'[r].pc = "charging" =>
            /\ release'[r].session \in Sessions
            /\ Ref \in release'[r].copy => invocation'[release'[r].session] # 0
      BY <2>5, <3>1 DEF SmfInv, RefsInv, Known
    <3>7. \A k \in CpSeids : cpSession'[k] # NoSession =>
            cpSession'[k].session \in Sessions /\ invocation'[cpSession'[k].session] # 0
      BY <2>5, <3>1 DEF SmfInv, RefsInv, Known
    <3> QED BY <3>4, <3>5, <3>6, <3>7 DEF RefsInv, Known
  <2> QED BY <2>8, <2>9, <2>10, <2>11, <2>12 DEF SmfInv
<1> QED BY <1>3, <1>4 DEF ChargingDataCreate

LEMMA StoreStep ==
    ASSUME SmfInv, UNCHANGED upfVars, NEW s \in Sessions,
           StoreChargingDataRef(s) \/ StoreUpSeid(s)
    PROVE  SmfInv'
<1>1. OnlyCreate
  BY DEF StoreChargingDataRef, StoreUpSeid, OnlyCreate, upfVars, callVars, chargeVars
<1>2. contexts \subseteq Sessions /\ ctx \in [Sessions -> SUBSET Keys] /\ create[s].copy \subseteq Keys
  BY FieldsTyped DEF SmfInv, HandlersTyped
<1>3. CASE StoreChargingDataRef(s)
  <2>1. update(s, create[s].copy \cup {Ref}) /\ Go(s, "n4") /\ Known(s) /\ s \notin PastN4
    BY <1>3 DEF StoreChargingDataRef, Ref, At, SmfInv, RefsInv, PastN4
  <2>2. create[s].copy \cup {Ref} \in SUBSET Keys /\ "n4" \in CreatePcs
    BY <1>2 DEF Keys, Ref, CreatePcs
  <2>3. /\ ctx' \in [Sessions -> SUBSET Keys] /\ contexts' = contexts
        /\ \A z \in Sessions : ctx'[z] = ctx[z] \/ (z = s /\ ctx'[z] = create[s].copy \cup {Ref})
    BY <2>1, <2>2, UpdateEffect DEF SmfInv
  <2> QED BY <1>1, <1>2, <2>1, <2>2, <2>3, GoesOn
<1>4. CASE StoreUpSeid(s)
  <2>1. update(s, create[s].copy \cup {"upSeid"}) /\ Return(s)
    BY <1>4 DEF StoreUpSeid
  <2>2. create[s].copy \cup {"upSeid"} \in SUBSET Keys /\ Ref # "upSeid"
    BY <1>2 DEF Keys, Ref
  <2>3. /\ ctx' \in [Sessions -> SUBSET Keys] /\ contexts' = contexts
        /\ \A z \in Sessions :
              ctx'[z] = ctx[z] \/ (z = s /\ ctx'[z] = create[s].copy \cup {"upSeid"})
    BY <2>1, <2>2, UpdateEffect DEF SmfInv
  <2>4. Ref \in create[s].copy => Known(s)
    BY DEF SmfInv, RefsInv
  <2> QED BY <1>1, <1>2, <2>1, <2>2, <2>3, <2>4, Returns
<1> QED BY <1>3, <1>4

LEMMA EstablishFields ==
    ASSUME NEW c, NEW m, m = EstablishRequest(c)
    PROVE  /\ m.type = "establish" /\ m.cpSeid = c.cpSeid /\ m.call = c.call
           /\ m.seq = Wire(c.call) /\ m.hasUrr = (c.grant # 0)
BY DEF EstablishRequest

LEMMA EstablishStep ==
    ASSUME SmfInv, UNCHANGED upfVars, NEW s \in Sessions, N4Establish(s)
    PROVE  SmfInv'
<1> DEFINE d == create[s]
<1>1. /\ contexts \subseteq Sessions /\ ctx \in [Sessions -> SUBSET Keys]
      /\ UNCHANGED storeVars /\ nextCall \in Nat /\ s \notin PastN4
  BY DEF SmfInv, HandlersTyped, N4Establish, PastN4, At
<1>2. CASE Return(s) /\ UNCHANGED <<net, nextCpSeid, nextCall>>
  <2>1. OnlyCreate
    BY <1>2 DEF N4Establish, OnlyCreate, upfVars, chargeVars
  <2> QED BY <1>1, <1>2, <2>1, Returns DEF storeVars
<1>3. ASSUME create' = [create EXCEPT ![s].pc = "await", ![s].cpSeid = nextCpSeid,
                                      ![s].call = nextCall, ![s].attempt = 1],
             nextCpSeid' = nextCpSeid + 1, nextCall' = nextCall + 1,
             net' = net \cup {EstablishRequest(create'[s])}
      PROVE  SmfInv'
  <2>1. PICK c : /\ c = Made("await", d.copy, d.grant, nextCpSeid, nextCall, 1, d.upSeid)
                 /\ Creates(s, c)
    BY <1>3, AskEffect DEF SmfInv
  <2>2. /\ c.pc = "await" /\ c.copy = d.copy /\ c.grant = d.grant /\ c.cpSeid = nextCpSeid
        /\ c.call = nextCall
    BY <2>1, MadeFields
  <2>3. "await" \in CreatePcs /\ 1 \in Nat /\ nextCpSeid \in Nat
    BY DEF CreatePcs, SmfInv, SeidInv
  <2>4. c \in Creating({d.upSeid})
    BY <1>1, <2>1, <2>3, MadeTyped, FieldsTyped DEF SmfInv
  <2>5. UNCHANGED <<updating, teidSession, write, release, reauth, cpSession, pending,
                    ctx, contexts, invocation, n40Calls>>
    BY DEF N4Establish, upfVars, storeVars, chargeVars
  <2>6. \E U : create' \in [Sessions -> Creating(U)]
    BY <2>1, <2>4, CreateTyped DEF SmfInv, Creates
  <2>7. PICK m : m = EstablishRequest(c) /\ net' = net \cup {m}
    BY <1>3, <2>1 DEF Creates
  <2>8. m.type = "establish" /\ m.cpSeid = nextCpSeid /\ m.call = nextCall /\ m.seq = Wire(nextCall)
    BY <2>2, <2>7, EstablishFields
  <2>9. HandlersTyped'
    BY <1>1, <1>3, <2>5, <2>6 DEF SmfInv, HandlersTyped
  <2>10. Numbered(m)' /\ nextCall' \in Nat /\ nextCall <= nextCall'
    BY <1>1, <1>3, <2>8 DEF Numbered
  <2>11. PairInv'
    <3>0. nextCall < nextCall'
      BY <1>1, <1>3
    <3>1. \A z \in Sessions : At(z, "await")' =>
                 create'[z].call < nextCall' \/ (At(z, "await") /\ create'[z] = create[z])
      BY <2>1, <2>2, <3>0 DEF Creates, At
    <3> QED BY <2>5, <2>7, <2>10, <3>1, PairsKept DEF SmfInv
  <2>12. SeidInv'
    BY <1>1, <1>3, <2>1, <2>2, <2>5, <2>7, <2>8, SeidsTaken DEF SmfInv
  <2>13. NumbersInv'
    BY <2>5, NumbersIdle DEF SmfInv, Outstanding
  <2>14. RefsInv'
    <3>1. d.grant # 0 \/ Ref \in d.copy => Known(s)
      BY DEF SmfInv, RefsInv
    <3> QED BY <2>1, <2>2, <2>5, <3>1, RefsCreate DEF SmfInv
  <2> QED BY <2>9, <2>11, <2>12, <2>13, <2>14 DEF SmfInv
<1> QED BY <1>2, <1>3 DEF N4Establish

LEMMA AwaitStep ==
    ASSUME SmfInv, UNCHANGED upfVars, NEW s \in Sessions, AwaitEstablishment(s)
    PROVE  SmfInv'
<1> DEFINE d == create[s]
<1>1. /\ contexts \subseteq Sessions /\ ctx \in [Sessions -> SUBSET Keys]
      /\ UNCHANGED storeVars /\ d.cpSeid \in CpSeids
  BY DEF SmfInv, HandlersTyped, AwaitEstablishment, At, SeidInv
<1>2. UNCHANGED <<updating, teidSession, write, release, reauth, nextCpSeid,
                  cpSession, nextCall, invocation, n40Calls, ctx, contexts>>
  BY DEF AwaitEstablishment, upfVars, storeVars, chargeVars
<1>3. /\ d.copy \in SUBSET Keys /\ d.grant \in Nat /\ d.cpSeid \in Nat /\ d.call \in Nat
      /\ d.attempt \in Nat /\ d.attempt + 1 \in Nat /\ d.pc = "await"
      /\ "await" \in CreatePcs /\ "register" \in CreatePcs
  BY FieldsTyped DEF SmfInv, CreatePcs, AwaitEstablishment, At
<1>4. d.grant # 0 \/ Ref \in d.copy => Known(s)
  BY DEF SmfInv, RefsInv
<1>5. ASSUME NEW p \in Responses(create[s].call), pending' = pending \ {p},
             create' = [create EXCEPT ![s].pc = "register", ![s].upSeid = p.seid],
             UNCHANGED net
      PROVE  SmfInv'
  <2>1. PICK c : /\ c = Made("register", d.copy, d.grant, d.cpSeid, d.call, d.attempt, p.seid)
                 /\ Creates(s, c)
    BY <1>5, AnswerEffect DEF SmfInv
  <2>2. c.pc = "register" /\ c.copy = d.copy /\ c.grant = d.grant /\ c.cpSeid = d.cpSeid
    BY <2>1, MadeFields
  <2>3. c \in Creating({p.seid})
    BY <1>3, <2>1, MadeTyped
  <2>4. pending' \subseteq pending
    BY <1>5
  <2> HIDE DEF d
  <2> QED BY <1>1, <1>2, <1>4, <1>5, <2>1, <2>2, <2>3, <2>4, MovesOn
<1>6. ASSUME create' = [create EXCEPT ![s].attempt = @ + 1],
             Repeat(EstablishRequest(create'[s])), UNCHANGED pending
      PROVE  SmfInv'
  <2>1. create' = [create EXCEPT ![s].attempt = d.attempt + 1]
    BY <1>6, FieldsTyped DEF SmfInv, HandlersTyped
  <2>2. PICK c : /\ c = Made(d.pc, d.copy, d.grant, d.cpSeid, d.call, d.attempt + 1, d.upSeid)
                 /\ Creates(s, c)
    BY <2>1, RepeatEffect DEF SmfInv
  <2>3. /\ c.pc = "await" /\ c.copy = d.copy /\ c.grant = d.grant /\ c.cpSeid = d.cpSeid
        /\ c.call = d.call
    BY <1>3, <2>2, MadeFields
  <2>4. c \in Creating({d.upSeid})
    BY <1>3, <2>2, MadeTyped
  <2>5. PICK m : m = EstablishRequest(c) /\ net' \subseteq net \cup {m}
    BY <1>6, <2>2 DEF Creates, Repeat
  <2>6. m.type = "establish" /\ m.cpSeid = d.cpSeid /\ m.call = d.call /\ m.seq = Wire(d.call)
    BY <2>3, <2>5, EstablishFields
  <2>7. d.call < nextCall
    BY <1>3 DEF SmfInv, PairInv, At
  <2>8. Numbered(m)
    BY <1>3, <2>6, <2>7 DEF Numbered
  <2> HIDE DEF d
  <2> QED BY <1>1, <1>2, <1>4, <1>6, <2>2, <2>3, <2>4, <2>5, <2>6, <2>7, <2>8, MovesOn
<1>7. CASE Return(s) /\ UNCHANGED <<net, pending, repeats>>
  <2>1. OnlyCreate
    BY <1>2, <1>7 DEF OnlyCreate
  <2> QED BY <1>1, <1>2, <1>7, <2>1, Returns
<1> QED BY <1>5, <1>6, <1>7 DEF AwaitEstablishment

LEMMA RegisterStep ==
    ASSUME SmfInv, UNCHANGED upfVars, NEW s \in Sessions, RegisterSession(s)
    PROVE  SmfInv'
<1> DEFINE d == create[s]
<1>1. /\ contexts \subseteq Sessions /\ ctx \in [Sessions -> SUBSET Keys] /\ ctx[s] \in SUBSET Keys
      /\ d.cpSeid \in CpSeids /\ d.pc = "register"
  BY DEF SmfInv, HandlersTyped, RegisterSession, At, SeidInv
<1>2. /\ d.copy \in SUBSET Keys /\ d.grant \in Nat /\ d.cpSeid \in Nat /\ d.call \in Nat
      /\ d.attempt \in Nat /\ "save" \in CreatePcs
  BY FieldsTyped DEF SmfInv, CreatePcs
<1>3. (d.grant # 0 => Known(s)) /\ (Ref \in ctx[s] => Known(s))
  BY DEF SmfInv, RefsInv
<1>4. UNCHANGED <<net, updating, teidSession, write, release, reauth, nextCpSeid,
                  nextCall, pending, invocation, n40Calls, ctx, contexts>>
  BY DEF RegisterSession, upfVars, storeVars, callVars, chargeVars
<1>5. create' = [create EXCEPT ![s].pc = "save", ![s].copy = ctx[s]]
  BY DEF RegisterSession
<1>6. PICK c : /\ c = Made("save", ctx[s], d.grant, d.cpSeid, d.call, d.attempt, d.upSeid)
               /\ Creates(s, c)
  BY <1>5, RegisterEffect DEF SmfInv
<1>7. c.pc = "save" /\ c.copy = ctx[s] /\ c.grant = d.grant
  BY <1>6, MadeFields
<1>8. c \in Creating({d.upSeid})
  BY <1>1, <1>2, <1>6, MadeTyped
<1>9. /\ DOMAIN cpSession' = CpSeids
      /\ \A k \in CpSeids : \/ cpSession'[k] = cpSession[k]
                            \/ d.grant # 0 /\ cpSession'[k].session = s
  BY <1>1 DEF RegisterSession, SmfInv, SeidInv
<1> HIDE DEF d
<1>10. \E U : create' \in [Sessions -> Creating(U)]
  BY <1>6, <1>8, CreateTyped DEF SmfInv, Creates
<1>11. HandlersTyped'
  BY <1>4, <1>10 DEF SmfInv, HandlersTyped
<1>12. PairInv'
  <2>1. \A z \in Sessions : At(z, "await")' => At(z, "await") /\ create'[z] = create[z]
    BY <1>6, <1>7 DEF Creates, At
  <2>2. nextCall' \in Nat /\ nextCall <= nextCall'
    BY <1>4 DEF SmfInv, HandlersTyped
  <2> QED BY <1>4, <2>1, <2>2, PairsKept DEF SmfInv
<1>13. SeidInv'
  BY <1>4, <1>6, <1>7, <1>9, SeidsCreate DEF SmfInv
<1>14. NumbersInv'
  BY <1>4, NumbersIdle DEF SmfInv, Outstanding
<1>15. RefsInv'
  <2>1. \A z \in Sessions : Known(z)' <=> Known(z)
    BY <1>4 DEF Known
  <2>2. ASSUME NEW z \in Sessions
        PROVE  /\ create'[z].pc \in {"new", "policy", "decided", "charging"} => ~Known(z)'
               /\ create'[z].pc = "ref" \/ create'[z].grant # 0 => Known(z)'
               /\ Ref \in ctx'[z] \/ Ref \in create'[z].copy => Known(z)'
    BY <1>3, <1>4, <1>6, <1>7, <2>1 DEF SmfInv, RefsInv, Creates
  <2>3. \A k \in CpSeids : cpSession'[k] # NoSession =>
          cpSession'[k].session \in Sessions /\ invocation'[cpSession'[k].session] # 0
    BY <1>3, <1>4, <1>9 DEF SmfInv, RefsInv, Known
  <2> QED BY <1>4, <2>2, <2>3 DEF SmfInv, RefsInv, Known
<1> QED BY <1>11, <1>12, <1>13, <1>14, <1>15 DEF SmfInv

(* Handlers that leave the creating ones, the numbers and N4 alone.         *)
LEMMA BesideCreate ==
    ASSUME SmfInv,
           UNCHANGED <<net, updating, teidSession, create, reauth, nextCpSeid, cpSession,
                       nextCall, pending>>
    PROVE  PairInv' /\ SeidInv'
<1>1. nextCall' \in Nat /\ nextCall <= nextCall' /\ DOMAIN cpSession' = CpSeids
  BY DEF SmfInv, HandlersTyped, SeidInv
<1>2. \A s \in Sessions : At(s, "await")' => At(s, "await") /\ create'[s] = create[s]
  BY DEF At
<1>3. PairInv'
  BY <1>1, <1>2, PairsKept DEF SmfInv
<1>4. SeidInv'
  BY <1>1, SeidsKept DEF SmfInv
<1> QED BY <1>3, <1>4

LEMMA WriteStep ==
    ASSUME SmfInv, UNCHANGED upfVars, NEW w \in Inputs,
           pcf_notify(w) \/ modify(w) \/ WriteContext(w)
    PROVE  SmfInv'
<1>1. UNCHANGED <<net, updating, teidSession, create, reauth, nextCpSeid, cpSession,
                  nextCall, pending, invocation, n40Calls, release, contexts>>
  BY DEF pcf_notify, modify, ReadContext, WriteContext, update, upfVars, storeVars,
         callVars, chargeVars
<1>2. PairInv' /\ SeidInv' /\ NumbersInv'
  BY <1>1, BesideCreate, NumbersIdle DEF SmfInv, Outstanding
<1>3. /\ ctx \in [Sessions -> SUBSET Keys] /\ write \in [Inputs -> Writing]
      /\ \A z \in Sessions : Known(z)' <=> Known(z)
      /\ \A z \in Sessions : Ref \in ctx[z] => Known(z)
  BY <1>1 DEF SmfInv, HandlersTyped, Known, RefsInv
<1>4. ASSUME ctx' \in [Sessions -> SUBSET Keys],
             \A z \in Sessions : Ref \in ctx'[z] => Known(z),
             NEW c \in Writing, write' = [write EXCEPT ![w] = c],
             c.pc \in {"pcfPolicyUpdate", "hoState"} =>
                c.session \in Sessions /\ (Ref \in c.copy => Known(c.session))
      PROVE  SmfInv'
  <2>1. /\ write' \in [Inputs -> Writing] /\ write'[w] = c
        /\ \A v \in Inputs : v # w => write'[v] = write[v]
    BY <1>3, <1>4
  <2>2. HandlersTyped'
    BY <1>1, <1>4, <2>1 DEF SmfInv, HandlersTyped
  <2>3. \A v \in Inputs : write'[v].pc \in {"pcfPolicyUpdate", "hoState"} =>
          /\ write'[v].session \in Sessions
          /\ Ref \in write'[v].copy => invocation[write'[v].session] # 0
    BY <1>4, <2>1 DEF SmfInv, RefsInv, Known
  <2>4. \A z \in Sessions :
          /\ create[z].pc \in {"new", "policy", "decided", "charging"} => ~Known(z)
          /\ create[z].pc = "ref" \/ create[z].grant # 0 => Known(z)
          /\ Ref \in ctx'[z] \/ Ref \in create[z].copy => Known(z)
    BY <1>4 DEF SmfInv, RefsInv
  <2>5. RefsInv'
    BY <1>1, <2>3, <2>4 DEF SmfInv, RefsInv, Known
  <2> QED BY <1>2, <2>2, <2>5 DEF SmfInv
<1>5. ASSUME NEW s \in Sessions, NEW key \in {"pcfPolicyUpdate", "hoState"}, ReadContext(w, s, key)
      PROVE  SmfInv'
  <2>1. PICK c : c = [pc |-> key, session |-> s, copy |-> ctx[s]] /\ write' = [write EXCEPT ![w] = c]
    BY <1>5 DEF ReadContext
  <2>2. c.pc = key /\ c.session = s /\ c.copy = ctx[s] /\ ctx[s] \in SUBSET Keys
    BY <1>3, <2>1
  <2>3. c \in Writing
    BY <2>1, <2>2 DEF Writing
  <2>4. ctx' = ctx
    BY <1>5 DEF ReadContext, storeVars
  <2> QED BY <1>3, <1>4, <2>1, <2>2, <2>3, <2>4
<1>6. CASE WriteContext(w)
  <2> DEFINE s == write[w].session
  <2>1. write[w] \in Writing
    BY <1>3
  <2>2. write[w].pc \in {"pcfPolicyUpdate", "hoState"} /\ write[w].copy \in SUBSET Keys
    <3>1. write[w].pc \in Keys
      BY <1>6 DEF WriteContext
    <3> QED BY <2>1, <3>1 DEF Writing, Keys
  <2>3. s \in Sessions /\ (Ref \in write[w].copy => Known(s))
    BY <2>2 DEF SmfInv, RefsInv
  <2>4. write[w].copy \cup {write[w].pc} \in SUBSET Keys /\ write[w].pc # Ref
    BY <2>2 DEF Keys, Ref
  <2>5. update(s, write[w].copy \cup {write[w].pc})
    BY <1>6 DEF WriteContext
  <2>6. PICK k \in SUBSET Keys : k = write[w].copy \cup {write[w].pc} /\ update(s, k)
    BY <2>4, <2>5
  <2> HIDE DEF s
  <2>7. /\ ctx' \in [Sessions -> SUBSET Keys]
        /\ \A z \in Sessions : ctx'[z] = ctx[z] \/ (z = s /\ ctx'[z] = k)
    BY <2>3, <2>6, UpdateEffect DEF SmfInv
  <2>8. \A z \in Sessions : Ref \in ctx'[z] => Known(z)
    BY <1>3, <2>3, <2>4, <2>6, <2>7
  <2>9. PICK c : c = [NewWrite EXCEPT !.pc = "done"] /\ write' = [write EXCEPT ![w] = c]
    BY <1>6 DEF WriteContext
  <2>10. c \in Writing /\ c.pc = "done"
    BY <2>9 DEF NewWrite, Writing
  <2> QED BY <1>4, <2>7, <2>8, <2>9, <2>10
<1> QED BY <1>5, <1>6 DEF pcf_notify, modify

LEMMA ReleaseStep ==
    ASSUME SmfInv, UNCHANGED upfVars, NEW r \in Inputs,
           ReleaseSMContext(r) \/ ChargingDataRelease(r) \/ RemoveContext(r)
    PROVE  SmfInv'
<1>1. UNCHANGED <<net, updating, teidSession, create, reauth, nextCpSeid, cpSession,
                  nextCall, pending, write, ctx>>
  BY DEF ReleaseSMContext, ChargingDataRelease, RemoveContext, upfVars, storeVars,
         callVars
<1>2. PairInv' /\ SeidInv'
  BY <1>1, BesideCreate
<1>3. release \in [Inputs -> Releasing] /\ contexts \subseteq Sessions
      /\ ctx \in [Sessions -> SUBSET Keys] /\ release[r] \in Releasing
  BY DEF SmfInv, HandlersTyped
<1>4. ASSUME NEW c \in Releasing, release' = [release EXCEPT ![r] = c],
             c.pc = "charging" => c.session \in Sessions /\ (Ref \in c.copy => Known(c.session)),
             contexts' \subseteq contexts, NumbersInv', invocation' \in [Sessions -> Nat],
             \A z \in Sessions : Known(z)' <=> Known(z)
      PROVE  SmfInv'
  <2>1. /\ release' \in [Inputs -> Releasing] /\ release'[r] = c
        /\ \A v \in Inputs : v # r => release'[v] = release[v]
    BY <1>3, <1>4
  <2>2. HandlersTyped'
    BY <1>1, <1>3, <1>4, <2>1 DEF SmfInv, HandlersTyped
  <2>3. \A v \in Inputs : release'[v].pc = "charging" =>
          /\ release'[v].session \in Sessions
          /\ Ref \in release'[v].copy => invocation'[release'[v].session] # 0
    BY <1>4, <2>1 DEF SmfInv, RefsInv, Known
  <2>4. \A v \in Inputs : write[v].pc \in {"pcfPolicyUpdate", "hoState"} =>
          /\ write[v].session \in Sessions
          /\ Ref \in write[v].copy => invocation'[write[v].session] # 0
    BY <1>4 DEF SmfInv, RefsInv, Known
  <2>5. \A k \in CpSeids : cpSession[k] # NoSession =>
          cpSession[k].session \in Sessions /\ invocation'[cpSession[k].session] # 0
    BY <1>4 DEF SmfInv, RefsInv, Known
  <2>6. \A z \in Sessions :
          /\ create[z].pc \in {"new", "policy", "decided", "charging"} => ~Known(z)'
          /\ create[z].pc = "ref" \/ create[z].grant # 0 => Known(z)'
          /\ Ref \in ctx[z] \/ Ref \in create[z].copy => Known(z)'
    BY <1>4 DEF SmfInv, RefsInv
  <2>7. RefsInv'
    BY <1>1, <2>3, <2>4, <2>5, <2>6 DEF RefsInv, Known
  <2> QED BY <1>2, <1>4, <2>2, <2>7 DEF SmfInv
<1>5. ASSUME UNCHANGED <<invocation, n40Calls>>
      PROVE  /\ NumbersInv' /\ invocation' \in [Sessions -> Nat]
             /\ \A z \in Sessions : Known(z)' <=> Known(z)
  BY <1>1, <1>5, NumbersIdle DEF SmfInv, HandlersTyped, Outstanding, Known
<1>6. CASE ReleaseSMContext(r)
  <2>1. PICK s \in contexts : release' = [release EXCEPT ![r] =
              [pc |-> "charging", session |-> s, copy |-> ctx[s]]]
    BY <1>6 DEF ReleaseSMContext
  <2>2. UNCHANGED <<contexts, invocation, n40Calls>> /\ s \in Sessions /\ ctx[s] \in SUBSET Keys
    BY <1>3, <1>6 DEF ReleaseSMContext, storeVars, chargeVars
  <2>3. PICK c : /\ c = [pc |-> "charging", session |-> s, copy |-> ctx[s]]
                 /\ release' = [release EXCEPT ![r] = c]
    BY <2>1
  <2>4. c \in Releasing /\ c.session = s /\ c.copy = ctx[s]
    BY <2>2, <2>3 DEF Releasing
  <2>5. Ref \in ctx[s] => Known(s)
    BY <2>2 DEF SmfInv, RefsInv
  <2> QED BY <1>4, <1>5, <2>2, <2>3, <2>4, <2>5
<1>7. CASE ChargingDataRelease(r)
  <2> DEFINE s == release[r].session
  <2>1. /\ release[r].pc = "charging" /\ release' = [release EXCEPT ![r].pc = "remove"]
        /\ contexts' = contexts
    BY <1>7 DEF ChargingDataRelease, storeVars
  <2>2. s \in Sessions /\ (Ref \in release[r].copy => Known(s))
    BY <2>1 DEF SmfInv, RefsInv
  <2>3. PICK c : c = [release[r] EXCEPT !.pc = "remove"] /\ release' = [release EXCEPT ![r] = c]
    BY <2>1
  <2>4. c \in Releasing /\ c.pc = "remove"
    BY <1>3, <2>3 DEF Releasing
  <2>5. CASE Ref \notin release[r].copy
    <3>1. UNCHANGED <<invocation, n40Calls>>
      BY <1>7, <2>5 DEF ChargingDataRelease, chargeVars, Ref
    <3> QED BY <1>4, <1>5, <2>1, <2>3, <2>4, <3>1
  <2>6. CASE Ref \in release[r].copy
    <3>1. /\ get_and_advance(s)
          /\ n40Calls' = n40Calls \cup {<<s, Invocation(s), <<"release", r>>>>}
      BY <1>7, <2>6 DEF ChargingDataRelease, Ref
    <3>2. Known(s)
      BY <2>2, <2>6
    <3> HIDE DEF s
    <3>3. NumbersInv'
      BY <1>1, <2>2, <3>1, <3>2, NumbersReleased DEF SmfInv
    <3>4. /\ invocation' \in [Sessions -> Nat] /\ invocation'[s] = invocation[s] + 1
          /\ \A z \in Sessions : z # s => invocation'[z] = invocation[z]
      BY <2>2, <3>1, <3>2, AdvanceEffect DEF SmfInv
    <3>5. invocation[s] \in Nat
      BY <2>2 DEF SmfInv, HandlersTyped
    <3>6. \A z \in Sessions : Known(z)' <=> Known(z)
      BY <3>2, <3>4, <3>5 DEF Known
    <3> QED BY <1>4, <2>1, <2>3, <2>4, <3>3, <3>4, <3>6
  <2> QED BY <2>5, <2>6
<1>8. CASE RemoveContext(r)
  <2>1. /\ contexts' \subseteq contexts /\ UNCHANGED <<invocation, n40Calls>>
        /\ release' = [release EXCEPT ![r] = [NewRelease EXCEPT !.pc = "done"]]
    BY <1>8 DEF RemoveContext, chargeVars
  <2>2. PICK c : c = [NewRelease EXCEPT !.pc = "done"] /\ release' = [release EXCEPT ![r] = c]
    BY <2>1
  <2>3. c \in Releasing /\ c.pc = "done"
    BY <2>2 DEF NewRelease, Releasing
  <2> QED BY <1>4, <1>5, <2>1, <2>2, <2>3
<1> QED BY <1>6, <1>7, <1>8

(* Steps that leave contexts, Create and the references alone.              *)
LEMMA RefsLater ==
    ASSUME RefsInv, UNCHANGED <<create, ctx, write, release, cpSession>>,
           \A z \in Sessions : Known(z)' <=> Known(z)
    PROVE  RefsInv'
<1>1. \A v \in Inputs : release[v].pc = "charging" =>
        /\ release[v].session \in Sessions
        /\ Ref \in release[v].copy => invocation'[release[v].session] # 0
  BY DEF RefsInv, Known
<1>2. \A v \in Inputs : write[v].pc \in {"pcfPolicyUpdate", "hoState"} =>
        /\ write[v].session \in Sessions
        /\ Ref \in write[v].copy => invocation'[write[v].session] # 0
  BY DEF RefsInv, Known
<1>3. \A k \in CpSeids : cpSession[k] # NoSession =>
        cpSession[k].session \in Sessions /\ invocation'[cpSession[k].session] # 0
  BY DEF RefsInv, Known
<1>4. \A z \in Sessions :
        /\ create[z].pc \in {"new", "policy", "decided", "charging"} => ~Known(z)'
        /\ create[z].pc = "ref" \/ create[z].grant # 0 => Known(z)'
        /\ Ref \in ctx[z] \/ Ref \in create[z].copy => Known(z)'
  BY DEF RefsInv
<1> QED BY <1>1, <1>2, <1>3, <1>4 DEF RefsInv, Known

LEMMA RunningFields ==
    ASSUME NEW pc, NEW s, NEW t, NEW number, NEW used, NEW grant, NEW call, NEW attempt,
           NEW c, c = Running(pc, s, t, number, used, grant, call, attempt)
    PROVE  /\ c.pc = pc /\ c.session = s /\ c.upSeid = t /\ c.invocation = number
           /\ c.used = used /\ c.grant = grant /\ c.call = call /\ c.attempt = attempt
BY DEF Running

LEMMA ModifyFields ==
    ASSUME NEW u, NEW m, m = ModifyRequest(u)
    PROVE  m.type = "modify" /\ m.call = u.call /\ m.seq = Wire(u.call)
BY DEF ModifyRequest

(* A thread of a usage report goes on as c.                                 *)
LEMMA ReauthMoves ==
    ASSUME SmfInv, NEW u \in Inputs, NEW V, NEW c \in Reauthorizing(V), Reauthorizes(u, c),
           UNCHANGED <<updating, teidSession, create, write, release, nextCpSeid, cpSession,
                       ctx, contexts>>,
           pending' \subseteq pending, nextCall' \in Nat, nextCall <= nextCall',
           \A m \in net' : m \in net \/ (m.type = "modify" /\ Numbered(m)'),
           c.pc = "await" => c.call < nextCall',
           NumbersInv', invocation' \in [Sessions -> Nat],
           \A z \in Sessions : Known(z)' <=> Known(z)
    PROVE  SmfInv'
<1>1. \E U : reauth' \in [Inputs -> Reauthorizing(U)]
  BY ReauthTyped DEF SmfInv, Reauthorizes
<1>2. HandlersTyped'
  BY <1>1 DEF SmfInv, HandlersTyped
<1>3. PairInv'
  <2>1. \A v \in Inputs : reauth'[v].pc = "await" =>
              reauth'[v].call < nextCall' \/ reauth'[v] = reauth[v]
    BY DEF Reauthorizes
  <2>2. \A s \in Sessions : At(s, "await")' => At(s, "await") /\ create'[s] = create[s]
    BY DEF At
  <2> QED BY <2>1, <2>2, PairsKept DEF SmfInv
<1>4. SeidInv'
  <2>1. DOMAIN cpSession' = CpSeids
    BY DEF SmfInv, SeidInv
  <2>2. \A m \in net' : m \in net \/ m.type \notin {"establish", "report"}
    OBVIOUS
  <2> QED BY <2>1, <2>2, SeidsKept DEF SmfInv
<1>5. RefsInv'
  BY RefsLater DEF SmfInv
<1> QED BY <1>2, <1>3, <1>4, <1>5 DEF SmfInv

LEMMA ReportStep ==
    ASSUME SmfInv, UNCHANGED upfVars, NEW m \in net, NEW u \in Inputs,
           session_report_handler(m, u)
    PROVE  SmfInv'
<1> DEFINE info == cpSession[m.seid]
<1>1. /\ m.type = "report" /\ net' = net \ {m} /\ m.seid \in CpSeids
      /\ UNCHANGED <<updating, teidSession, create, write, release, nextCpSeid, cpSession,
                     ctx, contexts, nextCall, pending, n40Calls>>
  BY DEF session_report_handler, upfVars, storeVars, callVars, SmfInv, SeidInv
<1>2. nextCall' \in Nat /\ nextCall <= nextCall' /\ invocation \in [Sessions -> Nat]
  BY <1>1 DEF SmfInv, HandlersTyped
<1>3. CASE info = NoSession
  <2>1. UNCHANGED <<invocation, reauth>>
    BY <1>3 DEF session_report_handler
  <2>2. HandlersTyped'
    BY <1>1, <2>1 DEF SmfInv, HandlersTyped
  <2>3. NumbersInv'
    BY <1>1, <2>1, NumbersIdle DEF SmfInv, Outstanding
  <2>4. \A s \in Sessions : At(s, "await")' => At(s, "await") /\ create'[s] = create[s]
    BY <1>1 DEF At
  <2>5. PairInv'
    BY <1>1, <1>2, <2>1, <2>4, PairsKept DEF SmfInv
  <2>6. DOMAIN cpSession' = CpSeids /\ \A n \in net' : n \in net
    BY <1>1 DEF SmfInv, SeidInv
  <2>7. SeidInv'
    BY <1>1, <2>6, SeidsKept DEF SmfInv
  <2>8. RefsInv'
    BY <1>1, <2>1, RefsLater DEF SmfInv, Known
  <2> QED BY <2>2, <2>3, <2>5, <2>7, <2>8 DEF SmfInv
<1>4. CASE info # NoSession
  <2>1. info.session \in Sessions /\ Known(info.session)
    BY <1>1, <1>4 DEF SmfInv, RefsInv
  <2>2. PICK s \in Sessions : s = info.session /\ Known(s)
    BY <2>1
  <2>3. /\ get_and_advance(s)
        /\ reauth' = [reauth EXCEPT ![u] =
              [NewReauth EXCEPT !.pc = "update", !.session = s, !.upSeid = info.upSeid,
                                !.used = m.total, !.invocation = Invocation(s)]]
    BY <1>4, <2>2 DEF session_report_handler
  <2>4. PICK c : /\ c = Running("update", s, info.upSeid, Invocation(s), m.total, 0, 0, 0)
                 /\ Reauthorizes(u, c)
    BY <2>3, ReportEffect DEF SmfInv
  <2>5. c.pc = "update" /\ c.session = s /\ c.invocation = Invocation(s)
    BY <2>4, RunningFields
  <2>6. /\ Invocation(s) = invocation[s] /\ invocation' \in [Sessions -> Nat]
        /\ invocation'[s] = invocation[s] + 1
        /\ \A z \in Sessions : z # s => invocation'[z] = invocation[z]
    BY <2>2, <2>3, AdvanceEffect DEF SmfInv
  <2>7. Invocation(s) \in Nat /\ invocation[s] \in Nat
    BY <1>2, <2>6
  <2>8. \A z \in Sessions : Known(z)' <=> Known(z)
    BY <2>2, <2>6, <2>7 DEF Known
  <2>9. c \in Reauthorizing({info.upSeid, m.total})
    BY <2>4, <2>7, RunningTyped
  <2>10. NumbersInv'
    BY <1>1, <2>2, <2>3, <2>4, <2>5, NumbersReported DEF SmfInv
  <2>11. pending' \subseteq pending /\ \A n \in net' : n \in net
    BY <1>1
  <2> HIDE DEF info
  <2> QED BY <1>1, <1>2, <2>4, <2>5, <2>6, <2>8, <2>9, <2>10, <2>11, ReauthMoves
<1> QED BY <1>3, <1>4

LEMMA OverTyped ==
    ASSUME NEW c, c = Running("done", 0, 0, 0, 0, 0, 0, 0)
    PROVE  c.pc = "done" /\ c \in Reauthorizing({0})
BY DEF Running, Reauthorizing

LEMMA UpdateSentStep ==
    ASSUME SmfInv, UNCHANGED upfVars, NEW u \in Inputs, ChargingDataUpdate(u)
    PROVE  SmfInv'
<1> DEFINE d == reauth[u]
<1>1. /\ Outstanding(u)
      /\ n40Calls' = n40Calls \cup {<<reauth[u].session, reauth[u].invocation, <<"update", u>>>>}
      /\ UNCHANGED <<updating, teidSession, create, write, release, nextCpSeid, cpSession,
                     ctx, contexts, pending, invocation>>
  BY DEF ChargingDataUpdate, Outstanding, upfVars, storeVars
<1>2. /\ nextCall \in Nat /\ invocation' \in [Sessions -> Nat] /\ pending' \subseteq pending
      /\ \A z \in Sessions : Known(z)' <=> Known(z)
  BY <1>1 DEF SmfInv, HandlersTyped, Known
<1>3. ASSUME NEW V, NEW c \in Reauthorizing(V), Reauthorizes(u, c), c.pc # "update",
             nextCall' \in Nat, nextCall <= nextCall',
             \A m \in net' : m \in net \/ (m.type = "modify" /\ Numbered(m)'),
             c.pc = "await" => c.call < nextCall'
      PROVE  SmfInv'
  <2>1. NumbersInv'
    BY <1>1, <1>3, NumbersSent DEF SmfInv
  <2> QED BY <1>1, <1>2, <1>3, <2>1, ReauthMoves
<1>4. ASSUME NEW g \in Grants,
             reauth' = [reauth EXCEPT ![u].pc = "await", ![u].grant = g,
                                      ![u].call = nextCall, ![u].attempt = 1],
             nextCall' = nextCall + 1, net' = net \cup {ModifyRequest(reauth'[u])}
      PROVE  SmfInv'
  <2>1. PICK c : /\ c = Running("await", d.session, d.upSeid, d.invocation, d.used, g, nextCall, 1)
                 /\ Reauthorizes(u, c)
    BY <1>4, ReauthAskEffect DEF SmfInv
  <2>2. c.pc = "await" /\ c.call = nextCall
    BY <2>1, RunningFields
  <2>3. g \in Nat /\ d.session \in {0} \cup Sessions /\ d.invocation \in Nat
    BY SessionManagementAssumption, FieldsTyped DEF SmfInv
  <2>4. c \in Reauthorizing({d.upSeid, d.used})
    BY <1>2, <2>1, <2>3, RunningTyped
  <2>5. PICK m : m = ModifyRequest(c) /\ net' = net \cup {m}
    BY <1>4, <2>1 DEF Reauthorizes
  <2>6. m.type = "modify" /\ m.call = nextCall /\ m.seq = Wire(nextCall)
    BY <2>2, <2>5, ModifyFields
  <2>7. nextCall' \in Nat /\ nextCall <= nextCall' /\ nextCall < nextCall'
    BY <1>2, <1>4
  <2>8. Numbered(m)'
    BY <1>2, <2>6, <2>7 DEF Numbered
  <2> HIDE DEF d
  <2> QED BY <1>3, <2>1, <2>2, <2>4, <2>5, <2>6, <2>7, <2>8
<1>5. CASE /\ reauth' = [reauth EXCEPT ![u] = [NewReauth EXCEPT !.pc = "done"]]
           /\ UNCHANGED <<net, nextCall>>
  <2>1. PICK c : c = Running("done", 0, 0, 0, 0, 0, 0, 0) /\ Reauthorizes(u, c)
    BY <1>5, ReauthOverEffect DEF SmfInv
  <2>2. c.pc = "done" /\ c \in Reauthorizing({0})
    BY <2>1, OverTyped
  <2>3. nextCall' \in Nat /\ nextCall <= nextCall'
    BY <1>2, <1>5
  <2> QED BY <1>3, <1>5, <2>1, <2>2, <2>3
<1> QED BY <1>4, <1>5 DEF ChargingDataUpdate

LEMMA ModificationStep ==
    ASSUME SmfInv, UNCHANGED upfVars, NEW u \in Inputs, AwaitModification(u)
    PROVE  SmfInv'
<1> DEFINE d == reauth[u]
<1>1. /\ d.pc = "await"
      /\ UNCHANGED <<updating, teidSession, create, write, release, nextCpSeid, cpSession,
                     ctx, contexts, nextCall, invocation, n40Calls>>
  BY DEF AwaitModification, upfVars, storeVars, chargeVars
<1>2. /\ nextCall' \in Nat /\ nextCall <= nextCall' /\ invocation' \in [Sessions -> Nat]
      /\ \A z \in Sessions : Known(z)' <=> Known(z)
  BY <1>1 DEF SmfInv, HandlersTyped, Known
<1>3. ASSUME NEW V, NEW c \in Reauthorizing(V), Reauthorizes(u, c), c.pc # "update",
             pending' \subseteq pending,
             \A m \in net' : m \in net \/ (m.type = "modify" /\ Numbered(m)'),
             c.pc = "await" => c.call < nextCall'
      PROVE  SmfInv'
  <2>1. NumbersInv'
    BY <1>1, <1>3, NumbersIdle DEF SmfInv, Outstanding, Reauthorizes
  <2> QED BY <1>1, <1>2, <1>3, <2>1, ReauthMoves
<1>4. ASSUME reauth' = [reauth EXCEPT ![u] = [NewReauth EXCEPT !.pc = "done"]],
             pending' \subseteq pending, UNCHANGED net
      PROVE  SmfInv'
  <2>1. PICK c : c = Running("done", 0, 0, 0, 0, 0, 0, 0) /\ Reauthorizes(u, c)
    BY <1>4, ReauthOverEffect DEF SmfInv
  <2>2. c.pc = "done" /\ c \in Reauthorizing({0})
    BY <2>1, OverTyped
  <2> QED BY <1>3, <1>4, <2>1, <2>2
<1>5. ASSUME reauth' = [reauth EXCEPT ![u].attempt = @ + 1],
             Repeat(ModifyRequest(reauth'[u])), UNCHANGED pending
      PROVE  SmfInv'
  <2>1. reauth' = [reauth EXCEPT ![u].attempt = d.attempt + 1]
    BY <1>5, FieldsTyped DEF SmfInv, HandlersTyped
  <2>2. PICK c : /\ c = Running(d.pc, d.session, d.upSeid, d.invocation, d.used, d.grant,
                               d.call, d.attempt + 1)
                 /\ Reauthorizes(u, c)
    BY <2>1, ReauthRepeatEffect DEF SmfInv
  <2>3. c.pc = "await" /\ c.call = d.call
    BY <1>1, <2>2, RunningFields
  <2>4. /\ d.session \in {0} \cup Sessions /\ d.invocation \in Nat /\ d.grant \in Nat
        /\ d.call \in Nat /\ d.attempt + 1 \in Nat
    BY FieldsTyped DEF SmfInv
  <2>5. c \in Reauthorizing({d.upSeid, d.used})
    BY <1>1, <2>2, <2>4, RunningTyped
  <2>6. PICK m : m = ModifyRequest(c) /\ net' \subseteq net \cup {m}
    BY <1>5, <2>2 DEF Reauthorizes, Repeat
  <2>7. m.type = "modify" /\ m.call = d.call /\ m.seq = Wire(d.call)
    BY <2>3, <2>6, ModifyFields
  <2>8. d.call < nextCall /\ d.call < nextCall'
    BY <1>1 DEF SmfInv, PairInv
  <2>9. Numbered(m)'
    BY <2>4, <2>7, <2>8 DEF Numbered
  <2> HIDE DEF d
  <2> QED BY <1>3, <1>5, <2>2, <2>3, <2>5, <2>6, <2>7, <2>8, <2>9
<1>6. \A p : pending' = pending \ {p} => pending' \subseteq pending
  OBVIOUS
<1> QED BY <1>4, <1>5, <1>6 DEF AwaitModification

LEMMA ReceiveStep ==
    ASSUME SmfInv, UNCHANGED upfVars, NEW m \in net, ReceiveResponse(m)
    PROVE  SmfInv'
<1>1. /\ m.type \in ResponseTypes /\ net' = net \ {m}
      /\ pending' = {p \in pending : p.seq # m.seq} \cup {m}
      /\ UNCHANGED <<updating, teidSession, create, write, release, reauth, nextCpSeid,
                     cpSession, ctx, contexts, nextCall, invocation, n40Calls>>
  BY DEF ReceiveResponse, ResponseTypes, upfVars, storeVars, chargeVars
<1>2. HandlersTyped' /\ nextCall' \in Nat /\ nextCall <= nextCall'
  BY <1>1 DEF SmfInv, HandlersTyped
<1>3. \A s \in Sessions : At(s, "await")' => At(s, "await") /\ create'[s] = create[s]
  BY <1>1 DEF At
<1>4. PairInv'
  BY <1>1, <1>2, <1>3, PairsKept DEF SmfInv
<1>5. DOMAIN cpSession' = CpSeids /\ \A n \in net' : n \in net
  BY <1>1 DEF SmfInv, SeidInv
<1>6. SeidInv'
  BY <1>1, <1>5, SeidsKept DEF SmfInv
<1>7. NumbersInv' /\ RefsInv'
  BY <1>1, NumbersIdle, RefsLater DEF SmfInv, Outstanding, Known
<1> QED BY <1>2, <1>4, <1>6, <1>7 DEF SmfInv

LEMMA SmfIdle ==
    ASSUME SmfInv, UNCHANGED smfVars, PairInv', SeidInv'
    PROVE  SmfInv'
<1>1. HandlersTyped'
  BY DEF SmfInv, HandlersTyped, smfVars
<1>2. NumbersInv' /\ RefsInv'
  BY NumbersIdle, RefsLater DEF SmfInv, Outstanding, Known, smfVars
<1> QED BY <1>1, <1>2 DEF SmfInv

(* The UPF answers with the number of the request, and knows the SMF's SEID *)
(* from there.                                                              *)
LEMMA UpfAnswers ==
    ASSUME SmfInv, UNCHANGED smfVars,
           \A m \in net' : m \in net \/ (m.type \in ResponseTypes /\ Numbered(m))
                           \/ (m.type = "report" /\ m.seid \in CpSeids),
           teidSession' \in [Teids -> {0} \cup CpSeids],
           updating' = updating \/ updating' = NoUpdate \/ UpdateNumbered'
    PROVE  SmfInv'
<1>1. nextCall' \in Nat /\ nextCall <= nextCall' /\ \A m : Numbered(m)' <=> Numbered(m)
  BY DEF SmfInv, HandlersTyped, Numbered, smfVars
<1>2. \A s \in Sessions : At(s, "await")' => At(s, "await") /\ create'[s] = create[s]
  BY DEF At, smfVars
<1>3. PairInv'
  BY <1>1, <1>2, PairsKept DEF SmfInv, smfVars
<1>4. SeidInv'
  <2>1. UNCHANGED <<nextCpSeid, create, cpSession>>
    BY DEF smfVars
  <2>2. \A m \in net' : /\ m.type = "establish" => m.cpSeid \in CpSeids
                        /\ m.type = "report" => m.seid \in CpSeids
    BY DEF SmfInv, SeidInv, ResponseTypes
  <2> QED BY <2>1, <2>2 DEF SmfInv, SeidInv, PastN4
<1> QED BY <1>3, <1>4, SmfIdle

LEMMA ModifiedFields ==
    ASSUME NEW r, NEW m, m = Modified(r)
    PROVE  m.type = "modified" /\ m.call = r.call /\ m.seq = r.seq
BY DEF Modified

UserPlaneInv == StormInv /\ RingInv

LEMMA TeidNext ==
    ASSUME StormInv, nextTeid <= MaxTeids
    PROVE  nextTeid \in Teids
BY UserPlaneAssumption DEF StormInv, StormType, Teids

LEMMA UpfStep ==
    ASSUME SmfInv, UserPlaneInv, UNCHANGED smfVars, Upf
    PROVE  SmfInv'
<1>0. teidSession \in [Teids -> {0} \cup CpSeids]
  BY DEF SmfInv, SeidInv
<1>1. ASSUME NEW m \in net, SessionEstablishment(m) PROVE SmfInv'
  <2>1. nextTeid \in Teids /\ m.cpSeid \in CpSeids /\ Numbered(m) /\ updating' = updating
    BY <1>1, TeidNext DEF SessionEstablishment, UserPlaneInv, SmfInv, SeidInv, PairInv, Requests
  <2>2. PICK a : /\ a = [type |-> "established", seq |-> m.seq, call |-> m.call,
                        attempt |-> m.attempt, seid |-> nextTeid]
                 /\ net' = (net \ {m}) \cup {a}
    BY <1>1 DEF SessionEstablishment
  <2>3. a.type \in ResponseTypes /\ a.call = m.call /\ a.seq = m.seq
    BY <2>2 DEF ResponseTypes
  <2>4. Numbered(a)
    BY <2>1, <2>3 DEF Numbered
  <2>5. teidSession' \in [Teids -> {0} \cup CpSeids]
    BY <1>0, <1>1, <2>1 DEF SessionEstablishment
  <2> QED BY <2>1, <2>2, <2>3, <2>4, <2>5, UpfAnswers
<1>2. ASSUME NEW m \in net, SessionModification(m) PROVE SmfInv'
  <2>1. Numbered(m) /\ teidSession' = teidSession
    BY <1>2 DEF SessionModification, SmfInv, PairInv, Requests
  <2>2. CASE updating' = updating /\ net' = (net \ {m}) \cup {Modified(m)}
    <3>1. PICK a : a = Modified(m) /\ net' = (net \ {m}) \cup {a}
      BY <2>2
    <3>2. a.type \in ResponseTypes /\ Numbered(a)
      BY <2>1, <3>1, ModifiedFields DEF ResponseTypes, Numbered
    <3> QED BY <1>0, <2>1, <2>2, <3>1, <3>2, UpfAnswers
  <2>3. CASE /\ updating' = [teid |-> m.seid, read |-> urr[m.seid], request |-> m]
             /\ net' = net \ {m}
    <3>1. updating'.request = m
      BY <2>3
    <3>2. UpdateNumbered'
      BY <2>1, <3>1 DEF UpdateNumbered, Numbered, smfVars
    <3> QED BY <1>0, <2>1, <2>3, <3>2, UpfAnswers
  <2> QED BY <1>2, <2>2, <2>3 DEF SessionModification
<1>3. CASE update_urr_thresholds
  <2>1. Numbered(updating.request) /\ updating' = NoUpdate /\ teidSession' = teidSession
    BY <1>3 DEF update_urr_thresholds, SmfInv, PairInv, UpdateNumbered
  <2>2. PICK a : a = Modified(updating.request) /\ net' = net \cup {a}
    BY <1>3 DEF update_urr_thresholds
  <2>3. a.type \in ResponseTypes /\ Numbered(a)
    BY <2>1, <2>2, ModifiedFields DEF ResponseTypes, Numbered
  <2> QED BY <1>0, <2>1, <2>2, <2>3, UpfAnswers
<1>4. CASE usage_report_handler
  <2>1. UNCHANGED <<teidSession, updating>> /\ ring # <<>>
    BY <1>4 DEF usage_report_handler
  <2>2. Head(ring).teid \in Teids
    <3>1. Head(ring) \in Event
      BY <2>1 DEF UserPlaneInv, RingInv
    <3> QED BY <3>1 DEF Event
  <2>3. PICK t \in Teids : t = Head(ring).teid
    BY <2>2
  <2>4. CASE teidSession[t] = 0
    <3>1. net' = net
      BY <1>4, <2>3, <2>4 DEF usage_report_handler
    <3> QED BY <1>0, <2>1, <3>1, UpfAnswers
  <2>5. CASE teidSession[t] # 0
    <3>1. teidSession[t] \in CpSeids
      BY <1>0, <2>5
    <3>2. PICK a : /\ a = [type |-> "report", seid |-> teidSession[t], teid |-> t,
                          urSeqn |-> urSeqn[t], total |-> Head(ring).total]
                   /\ net' = net \cup {a}
      BY <1>4, <2>3, <2>5 DEF usage_report_handler
    <3>3. a.type = "report" /\ a.seid = teidSession[t]
      BY <3>2
    <3> QED BY <1>0, <2>1, <3>1, <3>2, <3>3, UpfAnswers
  <2> QED BY <2>4, <2>5
<1>5. CASE Traffic
  BY <1>0, <1>5, UpfAnswers DEF Traffic, gtpu_decap
<1> QED BY <1>1, <1>2, <1>3, <1>4, <1>5 DEF Upf

LEMMA SmfStep ==
    ASSUME SmfInv, UNCHANGED upfVars, Smf
    PROVE  SmfInv'
<1>1. CASE Associate
  <2>1. UNCHANGED <<net, updating, teidSession, create, reauth, nextCpSeid, cpSession,
                    nextCall, pending, write, release, ctx, contexts, invocation, n40Calls>>
    BY <1>1 DEF Associate, upfVars, storeVars, callVars, chargeVars
  <2>2. HandlersTyped'
    BY <2>1 DEF SmfInv, HandlersTyped
  <2>3. PairInv' /\ SeidInv'
    BY <2>1, BesideCreate
  <2>4. NumbersInv' /\ RefsInv'
    BY <2>1, NumbersIdle, RefsLater DEF SmfInv, Outstanding, Known
  <2> QED BY <2>2, <2>3, <2>4 DEF SmfInv
<1>2. ASSUME NEW s \in Sessions, CreateSMContext(s) \/ CreateStep(s) PROVE SmfInv'
  BY <1>2, EarlyStep, ChargingStep, StoreStep, EstablishStep, AwaitStep, RegisterStep
     DEF CreateStep
<1>3. ASSUME NEW i \in Inputs PROVE /\ pcf_notify(i) \/ modify(i) \/ WriteContext(i) => SmfInv'
                                    /\ ReleaseSMContext(i) \/ ChargingDataRelease(i)
                                       \/ RemoveContext(i) => SmfInv'
                                    /\ ChargingDataUpdate(i) \/ AwaitModification(i) => SmfInv'
  BY WriteStep, ReleaseStep, UpdateSentStep, ModificationStep
<1>4. ASSUME NEW m \in net PROVE ReceiveResponse(m) => SmfInv'
  BY ReceiveStep
<1>5. ASSUME NEW m \in net, NEW u \in Inputs PROVE session_report_handler(m, u) => SmfInv'
  BY ReportStep
<1> QED BY <1>1, <1>2, <1>3, <1>4, <1>5 DEF Smf

(* The ring buffer: the TEID of an event is one the UPF measures.           *)
LEMMA RingStep ==
    ASSUME UserPlaneInv, [Next]_vars
    PROVE  RingInv'
<1>0. /\ ring \in Seq(Event) /\ DOMAIN urr = Teids /\ urrMap \subseteq Teids
      /\ \A t \in Teids : urr[t].total \in Nat
      /\ updating # NoUpdate => updating.read.total \in Nat /\ updating.teid \in urrMap
  BY DEF UserPlaneInv, RingInv, StormInv, StormType, UpdateInFlight
<1>1. ASSUME UNCHANGED <<ring, urr, updating>> PROVE RingInv'
  BY <1>0, <1>1 DEF RingInv
<1>2. ASSUME NEW w \in Teids, NEW e, urr' = [urr EXCEPT ![w] = e], e.total \in Nat
      PROVE  \A t \in Teids : urr'[t].total \in Nat
  BY <1>0, <1>2
<1>3. \A m, n : Provision(m, n).total = n
  BY DEF Provision
<1>4. ASSUME NEW m \in net, SessionEstablishment(m) PROVE RingInv'
  <2>1. nextTeid \in Teids /\ UNCHANGED <<ring, updating>>
    BY <1>4, TeidNext DEF SessionEstablishment, UserPlaneInv
  <2>2. \/ UNCHANGED urr
        \/ \E e : e = Provision(m, 0) /\ urr' = [urr EXCEPT ![nextTeid] = e]
    BY <1>4 DEF SessionEstablishment, register_urr
  <2>3. \A t \in Teids : urr'[t].total \in Nat
    BY <1>0, <1>2, <1>3, <2>1, <2>2
  <2> QED BY <1>0, <2>1, <2>3 DEF RingInv
<1>5. ASSUME NEW m \in net, SessionModification(m) PROVE RingInv'
  <2>1. UNCHANGED <<ring, urr>>
    BY <1>5 DEF SessionModification
  <2>2. \/ UNCHANGED updating
        \/ m.seid \in urrMap /\ updating' = [teid |-> m.seid, read |-> urr[m.seid], request |-> m]
    BY <1>5 DEF SessionModification
  <2>3. updating' # NoUpdate => updating'.read.total \in Nat
    BY <1>0, <2>2
  <2> QED BY <1>0, <2>1, <2>3 DEF RingInv
<1>6. CASE update_urr_thresholds
  <2>1. PICK e, w : /\ w = updating.teid /\ e = Provision(updating.request, updating.read.total)
                    /\ urr' = [urr EXCEPT ![w] = e]
    BY <1>6 DEF update_urr_thresholds
  <2>2. w \in Teids /\ e.total \in Nat /\ UNCHANGED ring /\ updating' = NoUpdate
    BY <1>0, <1>3, <1>6, <2>1 DEF update_urr_thresholds
  <2>3. \A t \in Teids : urr'[t].total \in Nat
    BY <1>2, <2>1, <2>2
  <2> QED BY <1>0, <2>2, <2>3 DEF RingInv
<1>7. CASE usage_report_handler
  <2>1. ring # <<>> /\ ring' = Tail(ring) /\ UNCHANGED <<urr, updating>>
    BY <1>7 DEF usage_report_handler
  <2>2. ring' \in Seq(Event)
    BY <1>0, <2>1
  <2> QED BY <1>0, <2>1, <2>2 DEF RingInv
<1>8. CASE Traffic
  <2>1. PICK w, n : n \in Packets /\ gtpu_decap(w, n)
    BY <1>8 DEF Traffic
  <2>2. PICK total \in Nat : w \in Teids /\ total = urr[w].total + n
    <3>1. w \in Teids /\ n \in Nat
      BY <1>0, <2>1, UserPlaneAssumption DEF gtpu_decap
    <3>2. urr[w].total \in Nat
      BY <1>0, <3>1
    <3> QED BY <3>1, <3>2
  <2>3. PICK e : urr' = [urr EXCEPT ![w] = e] /\ e.total = total
    <3> DEFINE E(x, y) == [threshold |-> urr[w].threshold, quota |-> urr[w].quota,
                           total |-> total, thresholdReported |-> x, quotaReported |-> y]
    <3>1. PICK x, y : urr' = [urr EXCEPT ![w] = E(x, y)]
      BY <2>1, <2>2, Zenon DEF gtpu_decap, Measure
    <3>2. E(x, y).total = total
      OBVIOUS
    <3> HIDE DEF E
    <3> QED BY <3>1, <3>2
  <2>4. UNCHANGED updating /\ (UNCHANGED ring \/ ring' = Append(ring, [teid |-> w, total |-> total]))
    BY <2>1, <2>2 DEF gtpu_decap, Report
  <2>5. [teid |-> w, total |-> total] \in Event
    BY <2>2 DEF Event
  <2>6. ring' \in Seq(Event)
    BY <1>0, <2>4, <2>5
  <2>7. \A t \in Teids : urr'[t].total \in Nat
    BY <1>2, <2>2, <2>3
  <2> QED BY <1>0, <2>4, <2>6, <2>7 DEF RingInv
<1>9. CASE UNCHANGED upfVars
  BY <1>1, <1>9 DEF upfVars
<1> QED BY <1>4, <1>5, <1>6, <1>7, <1>8, <1>9 DEF Next, Rest, vars, Upf

LEMMA InitialInv ==
    ASSUME Init
    PROVE  SmfInv /\ RingInv
<1> USE DEF Init, UpfInit, SmfInit
<1>1. RingInv
  BY DEF RingInv, Provision
<1>2. HandlersTyped
  <2>1. NewCreate \in Creating({0})
    BY DEF NewCreate, Creating, CreatePcs
  <2>2. NewReauth \in Reauthorizing({0})
    BY DEF NewReauth, Reauthorizing
  <2>3. NewWrite \in Writing /\ NewRelease \in Releasing
    BY DEF NewWrite, NewRelease, Writing, Releasing
  <2>4. create \in [Sessions -> Creating({0})] /\ reauth \in [Inputs -> Reauthorizing({0})]
    BY <2>1, <2>2
  <2>5. nextCall \in Nat
    BY SessionManagementAssumption
  <2> QED BY <2>3, <2>4, <2>5 DEF HandlersTyped
<1>3. /\ \A s \in Sessions : create[s].pc = "new" /\ create[s].grant = 0 /\ create[s].copy = {}
      /\ \A i \in Inputs : reauth[i].pc = "new" /\ write[i].pc = "new" /\ release[i].pc = "new"
  BY DEF NewCreate, NewReauth, NewWrite, NewRelease
<1>4. PairInv
  BY <1>3 DEF PairInv, UpdateNumbered, At
<1>5. SeidInv
  <2>1. PastN4 = {}
    BY <1>3 DEF PastN4
  <2>2. Cardinality(PastN4) = 0
    BY <2>1, FS_EmptySet
  <2> QED BY <1>3, <2>2 DEF SeidInv
<1>6. NumbersInv
  BY <1>3 DEF NumbersInv, UniqueInvocation, Outstanding
<1>7. RefsInv
  BY <1>3 DEF RefsInv, Known
<1> QED BY <1>1, <1>2, <1>4, <1>5, <1>6, <1>7 DEF SmfInv

Inv == SmfInv /\ StormInv /\ RingInv

LEMMA InvHolds == Spec => []Inv
<1>1. Init => Inv
  BY StormInitial, InitialInv DEF Inv
<1>2. Inv /\ [Next]_vars => Inv'
  <2> SUFFICES ASSUME Inv, [Next]_vars PROVE Inv'
    OBVIOUS
  <2>1. StormInv' /\ RingInv'
    BY StormStep, RingStep DEF Inv, UserPlaneInv
  <2>2. CASE Smf /\ UNCHANGED upfVars
    BY <2>1, <2>2, SmfStep DEF Inv
  <2>3. CASE Upf /\ UNCHANGED smfVars
    BY <2>1, <2>3, UpfStep DEF Inv, UserPlaneInv
  <2>4. CASE UNCHANGED vars
    <3>1. UNCHANGED smfVars /\ UNCHANGED <<net, teidSession, updating>>
      BY <2>4 DEF vars, upfVars
    <3>2. SmfInv /\ teidSession' \in [Teids -> {0} \cup CpSeids]
      BY <3>1 DEF Inv, SmfInv, SeidInv
    <3> QED BY <2>1, <3>1, <3>2, UpfAnswers DEF Inv
  <2> QED BY <2>1, <2>2, <2>3, <2>4 DEF Next, Rest, Inv
<1> QED BY <1>1, <1>2, PTL DEF Spec

(* ChargingDataInvocationSeqStore: no two N40 requests for one charging     *)
(* data resource carry the same number, for any number of sessions, usage   *)
(* reports and Releases on their own threads.  A number is given out to     *)
(* whoever holds the reference of a resource the store knows, and every     *)
(* copy of a reference was taken after Create stored it.                    *)
THEOREM InvocationsUnique == Spec => []UniqueInvocation
<1>1. Inv => UniqueInvocation
  BY DEF Inv, SmfInv, NumbersInv
<1> QED BY <1>1, InvHolds, PTL

---------------------------------------------------------------------------
(* What the UPF has allocated and the SMF has registered stays.             *)
RoutesStay ==
    /\ \A t \in Teids : t < nextTeid => t < nextTeid' /\ teidSession'[t] = teidSession[t]
    /\ \A k \in CpSeids : cpSession[k] # NoSession => cpSession'[k] = cpSession[k]

N4Message(m) == m.type \in Requests \cup ResponseTypes

(* The establishment session s awaits is the one it awaited.                *)
SameEstablishment(s) ==
    /\ create'[s].call = create[s].call /\ create'[s].cpSeid = create[s].cpSeid
    /\ create'[s].grant = create[s].grant

LEMMA RouteStays ==
    ASSUME SeidInv, RoutesStay, NEW t, Allocated(t)
    PROVE  /\ Allocated(t)' /\ teidSession'[t] = teidSession[t]
           /\ Registered(t) => Registered(t)'
<1>1. Allocated(t)' /\ teidSession'[t] = teidSession[t] /\ t \in Teids
  BY DEF Allocated, RoutesStay
<1>2. teidSession[t] # 0 => teidSession[t] \in CpSeids
  BY <1>1 DEF SeidInv
<1> QED BY <1>1, <1>2 DEF Registered, RoutesStay

LEMMA MatchStays ==
    ASSUME SeidInv, RoutesStay, NEW s, SameEstablishment(s), NEW m, Matches(m, s)
    PROVE  Matches(m, s)'
<1>1. CASE m.type = "established" /\ AllocatedFor(m.seid, s)
  <2>1. PICK t : t = m.seid
    OBVIOUS
  <2>2. Allocated(t) /\ teidSession[t] = IF create[s].grant = 0 THEN 0 ELSE create[s].cpSeid
    BY <1>1, <2>1 DEF AllocatedFor
  <2>3. Allocated(t)' /\ teidSession'[t] = teidSession[t]
    BY <2>2, RouteStays
  <2>4. AllocatedFor(t, s)'
    BY <2>2, <2>3 DEF AllocatedFor, SameEstablishment
  <2> QED BY <1>1, <2>1, <2>4 DEF Matches
<1>2. CASE /\ m.type = "establish" /\ m.cpSeid = create[s].cpSeid
           /\ m.hasUrr <=> create[s].grant # 0
  BY <1>2 DEF Matches, SameEstablishment
<1> QED BY <1>1, <1>2 DEF Matches

LEMMA AwaitKept ==
    ASSUME AwaitInv, SeidInv, RoutesStay,
           \A s \in Sessions : At(s, "await")' => At(s, "await") /\ SameEstablishment(s),
           \A m \in net' : m \in net \/ \A s \in Sessions :
               At(s, "await")' /\ N4Message(m) /\ m.call = create'[s].call => Matches(m, s)',
           \A p \in pending' : \/ p \in pending
                               \/ p \in net /\ N4Message(p),
           \A s \in Sessions : At(s, "await")' /\ updating' # NoUpdate
               => \/ updating' = updating \/ updating'.request.call # create'[s].call,
           \A u \in Inputs : reauth'[u].pc = "await" =>
               \/ reauth[u].pc = "await" /\ reauth'[u].call = reauth[u].call
               \/ \A s \in Sessions : At(s, "await")' => reauth'[u].call # create'[s].call
    PROVE  AwaitInv'
<1> SUFFICES ASSUME NEW s \in Sessions, At(s, "await")'
             PROVE  /\ \A m \in net' : N4Message(m) /\ m.call = create'[s].call
                                         => Matches(m, s)'
                    /\ \A p \in pending' : p.call = create'[s].call => Matches(p, s)'
                    /\ updating' # NoUpdate => updating'.request.call # create'[s].call
                    /\ \A z \in Sessions : At(z, "await")' /\ z # s
                                             => create'[z].call # create'[s].call
                    /\ \A u \in Inputs : reauth'[u].pc = "await"
                                             => reauth'[u].call # create'[s].call
  BY DEF AwaitInv, N4Message
<1>1. At(s, "await") /\ SameEstablishment(s) /\ create'[s].call = create[s].call
  BY DEF SameEstablishment
<1>2. \A m : Matches(m, s) => Matches(m, s)'
  BY <1>1, MatchStays
<1>3. \A m \in net : N4Message(m) /\ m.call = create[s].call => Matches(m, s)
  BY <1>1 DEF AwaitInv, N4Message
<1>4. \A m \in net' : N4Message(m) /\ m.call = create'[s].call => Matches(m, s)'
  BY <1>1, <1>2, <1>3
<1>5. \A p \in pending : p.call = create[s].call => Matches(p, s)
  BY <1>1 DEF AwaitInv
<1>6. \A p \in pending' : p.call = create'[s].call => Matches(p, s)'
  BY <1>1, <1>2, <1>3, <1>5
<1>7. updating' # NoUpdate => updating'.request.call # create'[s].call
  BY <1>1 DEF AwaitInv
<1>8. \A z \in Sessions : At(z, "await")' /\ z # s => create'[z].call # create'[s].call
  BY <1>1 DEF AwaitInv, SameEstablishment
<1>9. \A u \in Inputs : reauth'[u].pc = "await" => reauth'[u].call # create'[s].call
  BY <1>1 DEF AwaitInv
<1> QED BY <1>4, <1>6, <1>7, <1>8, <1>9

LEMMA FreeKept ==
    ASSUME FreeInv, UNCHANGED <<nextCpSeid, cpSession>>,
           \A s \in Sessions : Busy(s)' => Busy(s) /\ create'[s].cpSeid = create[s].cpSeid
    PROVE  FreeInv'
BY DEF FreeInv

(* A session's part of TrafficInv.                                          *)
Stored(s) ==
    /\ At(s, "register") => AllocatedFor(create[s].upSeid, s)
    /\ At(s, "save") => Allocated(create[s].upSeid) /\ Registered(create[s].upSeid)
    /\ At(s, "done") /\ create[s].upSeid # 0
          => Allocated(create[s].upSeid) /\ Registered(create[s].upSeid)
    /\ create[s].pc \notin {"register", "save", "done"} => create[s].upSeid = 0

LEMMA StoredStays ==
    ASSUME SeidInv, RoutesStay, NEW s, create'[s] = create[s], Stored(s)
    PROVE  Stored(s)'
<1> DEFINE t == create[s].upSeid
<1>0. /\ create'[s].upSeid = t /\ create'[s].pc = create[s].pc
      /\ create'[s].grant = create[s].grant /\ create'[s].cpSeid = create[s].cpSeid
  OBVIOUS
<1>1. PICK v : v = t
  OBVIOUS
<1>2. Allocated(v) => Allocated(v)' /\ teidSession'[v] = teidSession[v]
                      /\ (Registered(v) => Registered(v)')
  BY RouteStays
<1>3. AllocatedFor(v, s) => AllocatedFor(v, s)'
  BY <1>0, <1>2 DEF AllocatedFor
<1> QED BY <1>0, <1>1, <1>2, <1>3 DEF Stored, At, AllocatedFor, Allocated, Registered

(* TrafficInv from its three parts.                                         *)
Reported(m) == /\ Allocated(m.teid) /\ Registered(m.teid)
               /\ m.seid = teidSession[m.teid] /\ m.seid # 0
Queued == \A i \in 1..Len(ring) : Allocated(ring[i].teid) /\ Registered(ring[i].teid)

LEMMA TrafficParts ==
    TrafficInv <=> /\ \A s \in Sessions : Stored(s)
                   /\ Queued
                   /\ \A m \in net : m.type = "report" => Reported(m)
BY DEF TrafficInv, Stored, Queued, Reported

LEMMA ReportStays ==
    ASSUME SeidInv, RoutesStay, NEW m, Reported(m)
    PROVE  Reported(m)'
<1>1. PICK t : t = m.teid /\ Allocated(t) /\ Registered(t) /\ m.seid = teidSession[t]
  BY DEF Reported
<1>2. Allocated(t)' /\ Registered(t)' /\ teidSession'[t] = teidSession[t]
  BY <1>1, RouteStays
<1> QED BY <1>1, <1>2 DEF Reported

LEMMA QueueStays ==
    ASSUME SeidInv, RoutesStay, Queued, ring' = ring
    PROVE  Queued'
<1> SUFFICES ASSUME NEW i \in 1..Len(ring) PROVE (Allocated(ring[i].teid) /\ Registered(ring[i].teid))'
  BY DEF Queued
<1>1. PICK t : t = ring[i].teid /\ Allocated(t) /\ Registered(t)
  BY DEF Queued
<1>2. Allocated(t)' /\ Registered(t)' /\ ring'[i].teid = t
  BY <1>1, RouteStays
<1> QED BY <1>2 DEF Allocated, Registered

LEMMA TrafficKept ==
    ASSUME TrafficInv, SeidInv, RoutesStay, UNCHANGED ring,
           \A s \in Sessions : create'[s] = create[s] \/ Stored(s)',
           \A m \in net' : m \in net \/ m.type # "report"
    PROVE  TrafficInv'
<1>1. \A s \in Sessions : Stored(s)'
  BY StoredStays, TrafficParts
<1>2. Queued'
  BY QueueStays, TrafficParts
<1>3. \A m \in net' : m.type = "report" => Reported(m)'
  BY ReportStays, TrafficParts
<1>4. TrafficInv' <=> /\ \A s \in Sessions : Stored(s)'
                      /\ Queued'
                      /\ \A m \in net' : m.type = "report" => Reported(m)'
  BY DEF TrafficInv, Stored, Queued, Reported
<1> QED BY <1>1, <1>2, <1>3, <1>4

(* The sequence numbers may wrap, but no handler of Create waits for its    *)
(* answer while the SMF numbers a whole turn, 2^24, of later requests.      *)
Recent == \A s \in Sessions : At(s, "await") => nextCall <= create[s].call + SeqSpace

LEMMA WireRecent ==
    ASSUME NEW n \in Nat, NEW k \in Nat, n < k + SeqSpace, Wire(n) = k
    PROVE  n = k
<1>1. SeqSpace \in Nat \ {0} /\ n % SeqSpace = k /\ k < SeqSpace
  BY SessionManagementAssumption DEF Wire
<1>2. CASE n < SeqSpace
  BY <1>1, <1>2
<1>3. CASE n >= SeqSpace
  <2> DEFINE d == n - SeqSpace
  <2>1. d \in Nat /\ d < SeqSpace /\ d < k /\ n = d + SeqSpace
    BY <1>1, <1>3
  <2>2. (d + SeqSpace) % SeqSpace = d
    BY <1>1, <2>1
  <2> QED BY <1>1, <2>1, <2>2
<1> QED BY <1>1, <1>2, <1>3

(* The response a handler takes answers its own request.                    *)
LEMMA RecentAnswer ==
    ASSUME SmfInv, Recent, NEW s \in Sessions, At(s, "await"),
           NEW p \in Responses(create[s].call)
    PROVE  p \in pending /\ p.call = create[s].call
<1> DEFINE k == create[s].call
           n == p.call
<1>1. p \in pending /\ p.seq = k
  BY DEF Responses
<1>2. n \in Nat /\ n < nextCall /\ p.seq = Wire(n) /\ k \in Nat /\ nextCall \in Nat
  BY <1>1, FieldsTyped DEF SmfInv, PairInv, Numbered, HandlersTyped
<1>3. nextCall <= k + SeqSpace
  BY DEF Recent
<1>4. Wire(n) = k /\ n < k + SeqSpace
  BY <1>1, <1>2, <1>3, SessionManagementAssumption
<1> HIDE DEF n, k
<1>5. n = k
  BY <1>2, <1>4, WireRecent
<1> QED BY <1>1, <1>5 DEF n, k

(* The paths of all sessions stay when no TEID is offered, taken or         *)
(* registered.                                                              *)
LEMMA LinksKept ==
    ASSUME LinkInv, RoutesStay, SeidInv, NEW c \in CpSeids,
           cpSession[c] # NoSession, cpSession'[c] = cpSession[c],
           \A s \in Sessions : create[s].pc \in {"save", "done"} =>
               create'[s].pc \in {"save", "done"} /\ create'[s].upSeid = create[s].upSeid
    PROVE  \E s \in Sessions, t \in Teids : Linked(c, s, t)'
<1>1. PICK s \in Sessions, t \in Teids : Linked(c, s, t)
  BY DEF LinkInv
<1>2. Allocated(t)' /\ teidSession'[t] = teidSession[t]
  BY <1>1, RouteStays DEF Linked
<1>3. Linked(c, s, t)'
  BY <1>1, <1>2 DEF Linked
<1> QED BY <1>3

LEMMA PathKept ==
    ASSUME PathInv, SeidInv, RoutesStay, UNCHANGED cpSession, Apart',
           \A m \in net' \cup pending' : Offer(m) => m \in net \cup pending,
           \A s \in Sessions : /\ create'[s].upSeid = create[s].upSeid
                               /\ create[s].pc \in {"save", "done"}
                                     => create'[s].pc \in {"save", "done"}
    PROVE  PathInv'
<1>1. \A m \in net' \cup pending' : Offer(m) =>
          Allocated(m.seid)' /\ \A s \in Sessions : create'[s].upSeid # m.seid
  <2> SUFFICES ASSUME NEW m \in net' \cup pending', Offer(m)
               PROVE  Allocated(m.seid)' /\ \A s \in Sessions : create'[s].upSeid # m.seid
    OBVIOUS
  <2>1. PICK t : t = m.seid /\ Allocated(t) /\ \A s \in Sessions : create[s].upSeid # t
    BY DEF PathInv, TeidInv
  <2>2. Allocated(t)'
    BY <2>1, RouteStays
  <2> QED BY <2>1, <2>2
<1>2. \A m, n \in net' \cup pending' : Offer(m) /\ Offer(n) /\ m.seid = n.seid => m = n
  BY DEF PathInv, TeidInv
<1>3. \A s \in Sessions : create'[s].upSeid # 0 => Allocated(create[s].upSeid)'
  <2> SUFFICES ASSUME NEW s \in Sessions, create[s].upSeid # 0
               PROVE  Allocated(create[s].upSeid)'
    OBVIOUS
  <2>1. PICK t : t = create[s].upSeid /\ Allocated(t)
    BY DEF PathInv, TeidInv
  <2>2. Allocated(t)' /\ create'[s].upSeid = t
    BY <2>1, RouteStays
  <2> QED BY <2>2 DEF Allocated
<1>4. TeidInv'
  BY <1>1, <1>2, <1>3 DEF PathInv, TeidInv, Offer, Allocated
<1>5. LinkInv'
  BY LinksKept DEF PathInv, LinkInv
<1> QED BY <1>4, <1>5 DEF PathInv

(* Steps in which no handler of Create moves and nothing is registered or   *)
(* allocated.                                                               *)
LEMMA RouteIdle ==
    ASSUME SmfInv, RouteInv,
           UNCHANGED <<create, cpSession, nextCpSeid, nextTeid, teidSession, ring>>,
           updating' = updating \/ updating' = NoUpdate,
           \A m \in net' : m \in net \/ (/\ m.type # "report"
                                         /\ \A s \in Sessions :
                                               At(s, "await") => m.call # create[s].call),
           \A p \in pending' : p \in pending \/ (p \in net /\ N4Message(p)),
           \A m \in net' : Offer(m) => m \in net, Apart',
           \A u \in Inputs : reauth'[u].pc = "await" =>
               \/ reauth[u].pc = "await" /\ reauth'[u].call = reauth[u].call
               \/ \A s \in Sessions : At(s, "await") => reauth'[u].call # create[s].call
    PROVE  RouteInv'
<1>1. RoutesStay /\ SeidInv
  <2>1. SeidInv /\ nextTeid' = nextTeid /\ teidSession' = teidSession /\ cpSession' = cpSession
    BY DEF SmfInv
  <2> QED BY <2>1 DEF RoutesStay
<1>2. /\ \A s \in Sessions : At(s, "await")' => At(s, "await") /\ SameEstablishment(s)
      /\ \A s \in Sessions : Busy(s)' => Busy(s) /\ create'[s].cpSeid = create[s].cpSeid
  BY DEF At, SameEstablishment, Busy
<1>3. \A m \in net' : m \in net \/ \A s \in Sessions :
               At(s, "await")' /\ N4Message(m) /\ m.call = create'[s].call => Matches(m, s)'
  BY DEF At
<1>4. AwaitInv'
  <2>1. \A u \in Inputs : reauth'[u].pc = "await" =>
               \/ reauth[u].pc = "await" /\ reauth'[u].call = reauth[u].call
               \/ \A s \in Sessions : At(s, "await")' => reauth'[u].call # create'[s].call
    BY DEF At
  <2> QED BY <1>1, <1>2, <1>3, <2>1, AwaitKept DEF RouteInv
<1>5. FreeInv'
  BY <1>2, FreeKept DEF RouteInv
<1>6. TrafficInv'
  BY <1>1, TrafficKept DEF RouteInv
<1>7. PathInv'
  BY <1>1, PathKept DEF RouteInv
<1> QED BY <1>4, <1>5, <1>6, <1>7 DEF RouteInv

(* A handler of Create that does not come to wait for the UPF.              *)
LEMMA RouteBystander ==
    ASSUME SmfInv, RouteInv, NEW s \in Sessions, NEW c, Creates(s, c),
           UNCHANGED <<net, cpSession, nextCpSeid, nextTeid, teidSession, ring, updating,
                       pending, reauth>>,
           c.pc \notin {"await", "register", "save"}, c.upSeid = create[s].upSeid,
           create[s].pc # "register", c.pc # "done" => create[s].pc \notin {"save", "done"}
    PROVE  RouteInv'
<1>1. RoutesStay /\ SeidInv
  <2>1. SeidInv /\ nextTeid' = nextTeid /\ teidSession' = teidSession /\ cpSession' = cpSession
    BY DEF SmfInv
  <2> QED BY <2>1 DEF RoutesStay
<1>2. create'[s] = c /\ \A z \in Sessions : z # s => create'[z] = create[z]
  BY DEF Creates
<1>3. \A z \in Sessions : At(z, "await")' => At(z, "await") /\ SameEstablishment(z)
  BY <1>2 DEF At, SameEstablishment
<1>4. \A z \in Sessions : Busy(z)' => Busy(z) /\ create'[z].cpSeid = create[z].cpSeid
  BY <1>2 DEF Busy
<1>5. AwaitInv'
  BY <1>1, <1>3, AwaitKept DEF RouteInv
<1>6. FreeInv'
  BY <1>4, FreeKept DEF RouteInv
<1>7. Stored(s)'
  <2>1. PICK t : t = create[s].upSeid
    OBVIOUS
  <2>2. Stored(s)
    BY TrafficParts DEF RouteInv
  <2>3. t # 0 => Allocated(t) /\ Registered(t) /\ c.pc = "done"
    BY <2>1, <2>2 DEF Stored, At
  <2>4. t # 0 => Allocated(t)' /\ Registered(t)'
    BY <1>1, <2>3, RouteStays
  <2>5. create'[s].upSeid = t /\ create'[s].pc \notin {"await", "register", "save"}
    BY <1>2, <2>1
  <2> QED BY <1>2, <2>3, <2>4, <2>5 DEF Stored, At, Allocated, Registered
<1>8. TrafficInv'
  BY <1>1, <1>2, <1>7, TrafficKept DEF RouteInv
<1>9. PathInv'
  <2>1. Apart'
    BY DEF RouteInv, PathInv, Apart
  <2>2. \A z \in Sessions : /\ create'[z].upSeid = create[z].upSeid
                            /\ create[z].pc \in {"save", "done"}
                                  => create'[z].pc \in {"save", "done"}
    BY <1>2
  <2> QED BY <1>1, <2>1, <2>2, PathKept DEF RouteInv
<1> QED BY <1>5, <1>6, <1>8, <1>9 DEF RouteInv

LEMMA RouteReturn ==
    ASSUME SmfInv, RouteInv, NEW s \in Sessions, Return(s), create[s].pc # "register",
           UNCHANGED <<net, cpSession, nextCpSeid, nextTeid, teidSession, ring, updating,
                       pending, reauth>>
    PROVE  RouteInv'
<1>1. PICK c : c = Made("done", {}, 0, 0, 0, 0, create[s].upSeid) /\ Creates(s, c)
  BY ReturnEffect DEF SmfInv
<1>2. c.pc = "done" /\ c.upSeid = create[s].upSeid
  BY <1>1, MadeFields
<1> QED BY <1>1, <1>2, RouteBystander

LEMMA RouteGo ==
    ASSUME SmfInv, RouteInv, NEW s \in Sessions, NEW pc, Go(s, pc),
           create[s].pc \notin {"register", "save", "done"},
           pc \notin {"await", "register", "save", "done"},
           UNCHANGED <<net, cpSession, nextCpSeid, nextTeid, teidSession, ring, updating,
                       pending, reauth>>
    PROVE  RouteInv'
<1> DEFINE d == create[s]
<1>1. PICK c : /\ c = Made(pc, {}, d.grant, d.cpSeid, d.call, d.attempt, d.upSeid)
               /\ Creates(s, c)
  BY GoEffect DEF SmfInv
<1>2. c.pc = pc /\ c.upSeid = d.upSeid
  BY <1>1, MadeFields
<1> QED BY <1>1, <1>2, RouteBystander

LEMMA RouteEarlySteps ==
    ASSUME SmfInv, RouteInv, UNCHANGED upfVars, NEW s \in Sessions,
           \/ CreateSMContext(s) \/ CreateSMPolicy(s) \/ StoreDecision(s)
           \/ ChargingDataCreate(s) \/ StoreChargingDataRef(s) \/ StoreUpSeid(s)
    PROVE  RouteInv'
<1>1. UNCHANGED <<net, cpSession, nextCpSeid, nextTeid, teidSession, ring, updating,
                  pending, reauth>>
  BY DEF CreateSMContext, CreateSMPolicy, StoreDecision, ChargingDataCreate,
         StoreChargingDataRef, StoreUpSeid, upfVars, callVars
<1>2. \/ Return(s) /\ create[s].pc # "register"
      \/ \E pc : /\ Go(s, pc) /\ create[s].pc \notin {"register", "save", "done"}
                 /\ pc \notin {"await", "register", "save", "done"}
      \/ \E g : /\ create[s].pc = "charging"
                /\ create' = [create EXCEPT ![s].pc = "ref", ![s].grant = g, ![s].copy = ctx[s]]
  <2>1. CASE CreateSMContext(s)
    BY <2>1 DEF CreateSMContext, At
  <2>2. CASE CreateSMPolicy(s)
    BY <2>2 DEF CreateSMPolicy, At
  <2>3. CASE StoreDecision(s)
    BY <2>3 DEF StoreDecision, At
  <2>4. CASE ChargingDataCreate(s)
    <3>1. create[s].pc = "charging"
      BY <2>4 DEF ChargingDataCreate, At
    <3>2. CASE Go(s, "n4")
      <4>1. create[s].pc \notin {"register", "save", "done"}
        BY <3>1
      <4>2. "n4" \notin {"await", "register", "save", "done"}
        OBVIOUS
      <4> QED BY <3>2, <4>1, <4>2, Zenon
    <3>3. CASE \E g \in Grants \cup {0} :
                 create' = [create EXCEPT ![s].pc = "ref", ![s].grant = g, ![s].copy = ctx[s]]
      BY <3>1, <3>3, Zenon
    <3> QED BY <2>4, <3>2, <3>3, Zenon DEF ChargingDataCreate
  <2>5. CASE StoreChargingDataRef(s)
    BY <2>5 DEF StoreChargingDataRef, At
  <2>6. CASE StoreUpSeid(s)
    BY <2>6 DEF StoreUpSeid, At
  <2> QED BY <2>1, <2>2, <2>3, <2>4, <2>5, <2>6
<1>3. ASSUME NEW g, create[s].pc = "charging",
             create' = [create EXCEPT ![s].pc = "ref", ![s].grant = g, ![s].copy = ctx[s]]
      PROVE  RouteInv'
  <2> DEFINE d == create[s]
  <2>1. PICK c : /\ c = Made("ref", ctx[s], g, d.cpSeid, d.call, d.attempt, d.upSeid)
                 /\ Creates(s, c)
    BY <1>3, GrantEffect DEF SmfInv
  <2>2. c.pc = "ref" /\ c.upSeid = d.upSeid
    BY <2>1, MadeFields
  <2> QED BY <1>1, <1>3, <2>1, <2>2, RouteBystander
<1> QED BY <1>1, <1>2, <1>3, RouteReturn, RouteGo

LEMMA RouteEstablish ==
    ASSUME SmfInv, SmfInv', RouteInv, UNCHANGED upfVars, NEW s \in Sessions, N4Establish(s)
    PROVE  RouteInv'
<1> DEFINE d == create[s]
<1>1. /\ d.pc = "n4" /\ nextCall \in Nat /\ nextCpSeid \in Nat
      /\ UNCHANGED <<updating, nextTeid, teidSession, ring, reauth, cpSession, pending>>
  BY DEF SmfInv, HandlersTyped, SeidInv, N4Establish, At, upfVars
<1>2. CASE Return(s) /\ UNCHANGED <<net, nextCpSeid, nextCall>>
  BY <1>1, <1>2, RouteReturn
<1>3. ASSUME create' = [create EXCEPT ![s].pc = "await", ![s].cpSeid = nextCpSeid,
                                      ![s].call = nextCall, ![s].attempt = 1],
             nextCpSeid' = nextCpSeid + 1, nextCall' = nextCall + 1,
             net' = net \cup {EstablishRequest(create'[s])}
      PROVE  RouteInv'
  <2>1. PICK c : /\ c = Made("await", d.copy, d.grant, nextCpSeid, nextCall, 1, d.upSeid)
                 /\ Creates(s, c)
    BY <1>3, AskEffect DEF SmfInv
  <2>2. /\ c.pc = "await" /\ c.grant = d.grant /\ c.cpSeid = nextCpSeid
        /\ c.call = nextCall /\ c.upSeid = d.upSeid
    BY <2>1, MadeFields
  <2>3. PICK m : m = EstablishRequest(c) /\ net' = net \cup {m}
    BY <1>3, <2>1 DEF Creates
  <2>4. /\ m.type = "establish" /\ m.cpSeid = nextCpSeid /\ m.call = nextCall
        /\ m.hasUrr = (c.grant # 0)
    BY <2>2, <2>3, EstablishFields
  <2>5. create'[s] = c /\ \A z \in Sessions : z # s => create'[z] = create[z]
    BY <2>1 DEF Creates
  <2>6. RoutesStay /\ SeidInv
    <3>1. SeidInv /\ nextTeid' = nextTeid /\ teidSession' = teidSession /\ cpSession' = cpSession
      BY <1>1 DEF SmfInv
    <3> QED BY <3>1 DEF RoutesStay
  <2>7. Matches(m, s)'
    BY <2>2, <2>4, <2>5 DEF Matches
  <2>8. /\ \A n \in net : N4Message(n) => n.call # nextCall
        /\ \A p \in pending : p.call # nextCall
        /\ updating # NoUpdate => updating.request.call # nextCall
        /\ \A z \in Sessions : At(z, "await") => create[z].call # nextCall
        /\ \A u \in Inputs : reauth[u].pc = "await" => reauth[u].call # nextCall
    <3>1. \A n : Numbered(n) => n.call # nextCall
      BY <1>1 DEF Numbered
    <3>2. /\ \A z \in Sessions : At(z, "await") => create[z].call < nextCall
          /\ \A u \in Inputs : reauth[u].pc = "await" => reauth[u].call < nextCall
      BY DEF SmfInv, PairInv
    <3>3. \A n \in Nat : n < nextCall => n # nextCall
      BY <1>1
    <3> QED BY <3>1, <3>2, <3>3, FieldsTyped DEF SmfInv, PairInv, N4Message, UpdateNumbered
  <2>9. AwaitInv'
    <3> SUFFICES ASSUME NEW z \in Sessions, At(z, "await")'
                 PROVE  /\ \A n \in net' : N4Message(n) /\ n.call = create'[z].call
                                             => Matches(n, z)'
                        /\ \A p \in pending' : p.call = create'[z].call => Matches(p, z)'
                        /\ updating' # NoUpdate => updating'.request.call # create'[z].call
                        /\ \A y \in Sessions : At(y, "await")' /\ y # z
                                                 => create'[y].call # create'[z].call
                        /\ \A u \in Inputs : reauth'[u].pc = "await"
                                                 => reauth'[u].call # create'[z].call
      BY DEF AwaitInv, N4Message
    <3>1. CASE z = s
      BY <1>1, <2>2, <2>3, <2>5, <2>7, <2>8, <3>1 DEF At
    <3>2. CASE z # s
      <4>1. create'[z] = create[z] /\ At(z, "await") /\ SameEstablishment(z)
            /\ create[z].call # nextCall
        BY <2>5, <2>8, <3>2 DEF At, SameEstablishment
      <4>2. \A n : Matches(n, z) => Matches(n, z)'
        BY <2>6, <4>1, MatchStays
      <4>3. /\ \A n \in net : N4Message(n) /\ n.call = create[z].call => Matches(n, z)
            /\ \A p \in pending : p.call = create[z].call => Matches(p, z)
            /\ updating # NoUpdate => updating.request.call # create[z].call
            /\ \A y \in Sessions : At(y, "await") /\ y # z => create[y].call # create[z].call
            /\ \A u \in Inputs : reauth[u].pc = "await" => reauth[u].call # create[z].call
        BY <4>1 DEF RouteInv, AwaitInv, N4Message
      <4>4. \A y \in Sessions : At(y, "await")' /\ y # z => create'[y].call # create'[z].call
        BY <2>2, <2>5, <4>1, <4>3 DEF At
      <4> QED BY <1>1, <2>3, <2>4, <4>1, <4>2, <4>3, <4>4
    <3> QED BY <3>1, <3>2
  <2>10. FreeInv'
    <3>1. nextCpSeid \in CpSeids
      BY <2>2, <2>5 DEF SmfInv, SeidInv
    <3>2. \A n \in Nat : n < nextCpSeid => n < nextCpSeid' /\ n # nextCpSeid
      BY <1>1, <1>3
    <3>3. nextCpSeid < nextCpSeid' /\ cpSession[nextCpSeid] = NoSession /\ CpSeids \subseteq Nat
      BY <1>1, <1>3, <3>1 DEF RouteInv, FreeInv, CpSeids, Sessions
    <3>4. \A z \in Sessions : z # s /\ Busy(z)' => /\ Busy(z) /\ create'[z] = create[z]
                                                   /\ create[z].cpSeid \in Nat
      BY <2>5, FieldsTyped DEF Busy, SmfInv
    <3>5. /\ \A z \in Sessions : Busy(z)' => /\ create'[z].cpSeid < nextCpSeid'
                                             /\ cpSession'[create'[z].cpSeid] = NoSession
      BY <1>1, <2>2, <2>5, <3>2, <3>3, <3>4 DEF RouteInv, FreeInv
    <3>6. \A y, z \in Sessions : Busy(y)' /\ Busy(z)' /\ y # z
                                   => create'[y].cpSeid # create'[z].cpSeid
      BY <2>2, <2>5, <3>2, <3>4 DEF RouteInv, FreeInv
    <3>7. \A k \in CpSeids : cpSession'[k] # NoSession => k < nextCpSeid'
      BY <1>1, <3>2, <3>3 DEF RouteInv, FreeInv
    <3> QED BY <3>5, <3>6, <3>7 DEF FreeInv
  <2>11. Stored(s)'
    <3>1. d.upSeid = 0
      BY <1>1, TrafficParts DEF RouteInv, Stored
    <3> QED BY <2>2, <2>5, <3>1 DEF Stored, At
  <2>12. TrafficInv'
    BY <1>1, <2>3, <2>4, <2>5, <2>6, <2>11, TrafficKept DEF RouteInv
  <2>13. PathInv'
    <3>1. Apart'
      BY <1>1, <2>3, <2>4 DEF RouteInv, PathInv, Apart, Offer
    <3>2. \A n \in net' \cup pending' : Offer(n) => n \in net \cup pending
      BY <1>1, <2>3, <2>4 DEF Offer
    <3>3. \A z \in Sessions : /\ create'[z].upSeid = create[z].upSeid
                              /\ create[z].pc \in {"save", "done"}
                                    => create'[z].pc \in {"save", "done"}
      BY <1>1, <2>2, <2>5
    <3> QED BY <1>1, <2>6, <3>1, <3>2, <3>3, PathKept DEF RouteInv
  <2> QED BY <2>9, <2>10, <2>12, <2>13 DEF RouteInv
<1> QED BY <1>2, <1>3 DEF N4Establish

(* A handler takes the TEID it is offered, and nobody else has it.          *)
LEMMA PathTaken ==
    ASSUME PathInv, SeidInv, RoutesStay, UNCHANGED <<cpSession, net, nextTeid>>,
           NEW s \in Sessions, create[s].pc = "await", NEW c, Creates(s, c),
           NEW p \in pending, Offer(p), pending' = pending \ {p}, c.upSeid = p.seid
    PROVE  PathInv'
<1>1. create'[s] = c /\ \A z \in Sessions : z # s => create'[z] = create[z]
  BY DEF Creates
<1>2. Apart' /\ net' \cup pending' \subseteq (net \cup pending) \ {p}
  BY DEF PathInv, Apart
<1>3. PICK t : t = p.seid /\ Allocated(t) /\ \A z \in Sessions : create[z].upSeid # t
  BY DEF PathInv, TeidInv
<1>4. create'[s].upSeid = t
  BY <1>1, <1>3
<1>5. \A m \in net' \cup pending' : Offer(m) =>
          /\ Allocated(m.seid) /\ m.seid # t
          /\ \A z \in Sessions : create[z].upSeid # m.seid
  BY <1>2, <1>3 DEF PathInv, TeidInv
<1>6. \A m \in net' \cup pending' : Offer(m) =>
          /\ Allocated(m.seid)
          /\ \A z \in Sessions : create'[z].upSeid # m.seid
  BY <1>1, <1>4, <1>5
<1>7. \A m, n \in net' \cup pending' : Offer(m) /\ Offer(n) /\ m.seid = n.seid => m = n
  BY <1>2 DEF PathInv, TeidInv
<1>8. \A z \in Sessions : create'[z].upSeid # 0 => Allocated(create'[z].upSeid)
  BY <1>1, <1>3, <1>4 DEF PathInv, TeidInv
<1>9. \A y, z \in Sessions :
          create'[y].upSeid # 0 /\ create'[z].upSeid = create'[y].upSeid => y = z
  BY <1>1, <1>3, <1>4 DEF PathInv, TeidInv
<1>10. TeidInv'
  BY <1>6, <1>7, <1>8, <1>9 DEF TeidInv, Offer, Allocated
<1>11. LinkInv'
  BY <1>1, LinksKept DEF PathInv, LinkInv
<1> QED BY <1>2, <1>10, <1>11 DEF PathInv

LEMMA RouteAwait ==
    ASSUME SmfInv, RouteInv, Recent, UNCHANGED upfVars, NEW s \in Sessions,
           AwaitEstablishment(s)
    PROVE  RouteInv'
<1> DEFINE d == create[s]
<1>1. /\ d.pc = "await" /\ At(s, "await")
      /\ UNCHANGED <<updating, nextTeid, teidSession, ring, reauth, nextCpSeid, cpSession>>
  BY DEF AwaitEstablishment, At, upfVars
<1>2. RoutesStay /\ SeidInv
  <2>1. SeidInv /\ nextTeid' = nextTeid /\ teidSession' = teidSession /\ cpSession' = cpSession
    BY <1>1 DEF SmfInv
  <2> QED BY <2>1 DEF RoutesStay
<1>3. d.upSeid = 0
  BY <1>1, TrafficParts DEF RouteInv, Stored
<1>4. ASSUME NEW c, Creates(s, c), c.pc \in {"await", "register"}, c.cpSeid = d.cpSeid,
             c.call = d.call, c.grant = d.grant, pending' \subseteq pending,
             \A m \in net' : m \in net \/ (Matches(m, s)' /\ m.call = d.call /\ m.type = "establish"),
             Stored(s)', PathInv'
      PROVE  RouteInv'
  <2>1. create'[s] = c /\ \A z \in Sessions : z # s => create'[z] = create[z]
    BY <1>4 DEF Creates
  <2>2. \A z \in Sessions : At(z, "await")' => At(z, "await") /\ SameEstablishment(z)
    BY <1>1, <1>4, <2>1 DEF At, SameEstablishment
  <2>3. \A z \in Sessions : At(z, "await") /\ create[z].call = d.call => z = s
    BY <1>1 DEF RouteInv, AwaitInv
  <2>4. \A m \in net' : m \in net \/ \A z \in Sessions :
               At(z, "await")' /\ N4Message(m) /\ m.call = create'[z].call => Matches(m, z)'
    <3> SUFFICES ASSUME NEW m \in net', m \notin net, NEW z \in Sessions, At(z, "await")',
                        m.call = create'[z].call
                 PROVE  Matches(m, z)'
      OBVIOUS
    <3>1. z = s
      BY <1>4, <2>2, <2>3 DEF SameEstablishment
    <3> QED BY <1>4, <3>1
  <2>5. AwaitInv'
    BY <1>1, <1>2, <1>4, <2>2, <2>4, AwaitKept DEF RouteInv
  <2>6. \A z \in Sessions : Busy(z)' => Busy(z) /\ create'[z].cpSeid = create[z].cpSeid
    BY <1>1, <1>4, <2>1 DEF Busy
  <2>7. FreeInv'
    BY <1>1, <2>6, FreeKept DEF RouteInv
  <2>8. TrafficInv'
    BY <1>1, <1>2, <1>4, <2>1, TrafficKept DEF RouteInv
  <2> QED BY <1>4, <2>5, <2>7, <2>8 DEF RouteInv
<1>5. ASSUME NEW p \in Responses(create[s].call), pending' = pending \ {p},
             create' = [create EXCEPT ![s].pc = "register", ![s].upSeid = p.seid],
             UNCHANGED net
      PROVE  RouteInv'
  <2>1. PICK c : /\ c = Made("register", d.copy, d.grant, d.cpSeid, d.call, d.attempt, p.seid)
                 /\ Creates(s, c)
    BY <1>5, AnswerEffect DEF SmfInv
  <2>2. /\ c.pc = "register" /\ c.grant = d.grant /\ c.cpSeid = d.cpSeid /\ c.call = d.call
        /\ c.upSeid = p.seid
    BY <2>1, MadeFields
  <2>3. p \in pending /\ p.call = d.call
    BY <1>1, <1>5, RecentAnswer
  <2>5. p.type \in ResponseTypes /\ Matches(p, s)
    BY <1>1, <2>3 DEF RouteInv, AwaitInv, SmfInv, PairInv
  <2>6. AllocatedFor(p.seid, s)
    BY <2>5 DEF Matches, ResponseTypes
  <2>7. PICK t : t = p.seid /\ Allocated(t)
                 /\ teidSession[t] = IF d.grant = 0 THEN 0 ELSE d.cpSeid
    BY <2>6 DEF AllocatedFor
  <2>8. Stored(s)'
    <3>1. Allocated(t)'
      BY <1>1, <2>7 DEF Allocated
    <3>2. create'[s] = c
      BY <2>1 DEF Creates
    <3> QED BY <1>1, <2>2, <2>7, <3>1, <3>2 DEF Stored, At, AllocatedFor, Allocated
  <2>9. Offer(p)
    BY <2>5 DEF Matches, ResponseTypes, Offer
  <2>10. PathInv'
    BY <1>1, <1>2, <1>5, <2>1, <2>2, <2>3, <2>9, PathTaken DEF RouteInv
  <2> QED BY <1>4, <1>5, <2>1, <2>2, <2>8, <2>10
<1>6. ASSUME create' = [create EXCEPT ![s].attempt = @ + 1],
             Repeat(EstablishRequest(create'[s])), UNCHANGED pending
      PROVE  RouteInv'
  <2>1. create' = [create EXCEPT ![s].attempt = d.attempt + 1]
    BY <1>6, FieldsTyped DEF SmfInv, HandlersTyped
  <2>2. PICK c : /\ c = Made(d.pc, d.copy, d.grant, d.cpSeid, d.call, d.attempt + 1, d.upSeid)
                 /\ Creates(s, c)
    BY <2>1, RepeatEffect DEF SmfInv
  <2>3. /\ c.pc = "await" /\ c.grant = d.grant /\ c.cpSeid = d.cpSeid /\ c.call = d.call
        /\ c.upSeid = 0
    BY <1>1, <1>3, <2>2, MadeFields
  <2>4. PICK m : m = EstablishRequest(c) /\ net' \subseteq net \cup {m}
    BY <1>6, <2>2 DEF Creates, Repeat
  <2>5. m.type = "establish" /\ m.cpSeid = d.cpSeid /\ m.call = d.call /\ m.hasUrr = (c.grant # 0)
    BY <2>3, <2>4, EstablishFields
  <2>6. create'[s] = c
    BY <2>2 DEF Creates
  <2>7. Matches(m, s)' /\ Stored(s)'
    BY <2>3, <2>5, <2>6 DEF Matches, Stored, At
  <2>8. PathInv'
    <3>1. Apart' /\ \A n \in net' \cup pending' : Offer(n) => n \in net \cup pending
      BY <1>6, <2>4, <2>5 DEF RouteInv, PathInv, Apart, Offer
    <3>2. \A z \in Sessions : /\ create'[z].upSeid = create[z].upSeid
                              /\ create[z].pc \in {"save", "done"}
                                    => create'[z].pc \in {"save", "done"}
      BY <1>1, <1>3, <2>2, <2>3 DEF Creates
    <3> QED BY <1>1, <1>2, <3>1, <3>2, PathKept DEF RouteInv
  <2> QED BY <1>4, <1>6, <2>2, <2>3, <2>4, <2>5, <2>7, <2>8
<1>7. CASE Return(s) /\ UNCHANGED <<net, pending, repeats>>
  BY <1>1, <1>7, RouteReturn
<1> QED BY <1>5, <1>6, <1>7 DEF AwaitEstablishment

(* The registration fills a SEID no other session holds.                    *)
LEMMA RouteRegister ==
    ASSUME SmfInv, RouteInv, UNCHANGED upfVars, NEW s \in Sessions, RegisterSession(s)
    PROVE  RouteInv'
<1> DEFINE d == create[s]
<1>1. /\ d.pc = "register" /\ At(s, "register") /\ Busy(s) /\ d.cpSeid \in CpSeids
      /\ create' = [create EXCEPT ![s].pc = "save", ![s].copy = ctx[s]]
      /\ UNCHANGED <<net, updating, nextTeid, teidSession, ring, reauth, nextCpSeid, pending>>
  BY DEF RegisterSession, At, Busy, upfVars, callVars, SmfInv, SeidInv
<1>2. PICK c : /\ c = Made("save", ctx[s], d.grant, d.cpSeid, d.call, d.attempt, d.upSeid)
               /\ Creates(s, c)
  BY <1>1, RegisterEffect DEF SmfInv
<1>3. c.pc = "save" /\ c.grant = d.grant /\ c.cpSeid = d.cpSeid /\ c.upSeid = d.upSeid
  BY <1>2, MadeFields
<1>4. create'[s] = c /\ \A z \in Sessions : z # s => create'[z] = create[z]
  BY <1>2 DEF Creates
<1>5. PICK k, t : k = d.cpSeid /\ t = d.upSeid
  OBVIOUS
<1>6. AllocatedFor(t, s) /\ cpSession[k] = NoSession /\ k < nextCpSeid
  BY <1>1, <1>5, TrafficParts DEF RouteInv, Stored, FreeInv
<1>7. /\ d.grant = 0 => cpSession' = cpSession
      /\ d.grant # 0 => cpSession' = [cpSession EXCEPT ![k] = [session |-> s, upSeid |-> t]]
  BY <1>5 DEF RegisterSession
<1>8. /\ \A q \in CpSeids : q # k => cpSession'[q] = cpSession[q]
      /\ d.grant # 0 => cpSession'[k] # NoSession /\ cpSession'[k].upSeid = t
  <2>1. DOMAIN cpSession = CpSeids /\ k \in CpSeids /\ s # 0
    BY <1>1, <1>5, SessionsPositive DEF SmfInv, SeidInv
  <2>2. \A r : r = [session |-> s, upSeid |-> t] => r.session # 0 /\ r.upSeid = t
    BY <2>1
  <2>3. NoSession.session = 0
    BY DEF NoSession
  <2>4. d.grant # 0 => cpSession'[k] = [session |-> s, upSeid |-> t]
    BY <1>7, <2>1
  <2>5. \A q \in CpSeids : q # k => cpSession'[q] = cpSession[q]
    BY <1>7, <2>1
  <2> QED BY <2>2, <2>3, <2>4, <2>5
<1>9. RoutesStay /\ SeidInv
  <2>1. SeidInv /\ nextTeid' = nextTeid /\ teidSession' = teidSession
    BY <1>1 DEF SmfInv
  <2> QED BY <1>6, <1>8, <2>1 DEF RoutesStay
<1> HIDE DEF d
<1>10. AwaitInv'
  <2>1. \A z \in Sessions : At(z, "await")' => At(z, "await") /\ SameEstablishment(z)
    BY <1>3, <1>4 DEF At, SameEstablishment
  <2> QED BY <1>1, <1>9, <2>1, AwaitKept DEF RouteInv
<1>11. FreeInv'
  <2>1. \A z \in Sessions : Busy(z)' => /\ Busy(z) /\ create'[z] = create[z] /\ z # s
                                        /\ create[z].cpSeid \in CpSeids
    BY <1>3, <1>4 DEF Busy, SmfInv, SeidInv
  <2>2. \A z \in Sessions : Busy(z)' => create[z].cpSeid # k
    BY <1>1, <1>5, <2>1 DEF RouteInv, FreeInv, d
  <2>3. \A z \in Sessions : Busy(z)' => /\ create'[z].cpSeid < nextCpSeid'
                                        /\ cpSession'[create'[z].cpSeid] = NoSession
    <3> SUFFICES ASSUME NEW z \in Sessions, Busy(z)'
                 PROVE  /\ create'[z].cpSeid < nextCpSeid'
                        /\ cpSession'[create'[z].cpSeid] = NoSession
      OBVIOUS
    <3>1. PICK q : q = create[z].cpSeid /\ q = create'[z].cpSeid /\ q \in CpSeids /\ q # k
      BY <2>1, <2>2
    <3>2. q < nextCpSeid /\ cpSession[q] = NoSession
      BY <2>1, <3>1 DEF RouteInv, FreeInv
    <3> QED BY <1>1, <1>8, <3>1, <3>2
  <2>4. \A y, z \in Sessions : Busy(y)' /\ Busy(z)' /\ y # z
                                 => create'[y].cpSeid # create'[z].cpSeid
    BY <2>1 DEF RouteInv, FreeInv
  <2>5. \A q \in CpSeids : cpSession'[q] # NoSession => q < nextCpSeid'
    BY <1>1, <1>6, <1>8 DEF RouteInv, FreeInv
  <2> QED BY <2>3, <2>4, <2>5 DEF FreeInv
<1>12. Stored(s)'
  <2>1. Allocated(t)' /\ teidSession'[t] = IF d.grant = 0 THEN 0 ELSE k
    BY <1>1, <1>5, <1>6 DEF AllocatedFor, Allocated, d
  <2>2. Registered(t)'
    BY <1>8, <2>1 DEF Registered
  <2> QED BY <1>3, <1>4, <1>5, <2>1, <2>2 DEF Stored, At, Allocated, Registered
<1>13. TrafficInv'
  BY <1>1, <1>4, <1>9, <1>12, TrafficKept DEF RouteInv
<1>14. PathInv'
  <2>1. Apart'
    BY <1>1 DEF RouteInv, PathInv, Apart
  <2>2. \A z \in Sessions : create'[z].upSeid = create[z].upSeid
    BY <1>3, <1>4 DEF d
  <2>3. \A z \in Sessions : create[z].pc \in {"save", "done"} =>
            create'[z].pc \in {"save", "done"} /\ create'[z].upSeid = create[z].upSeid
    BY <1>3, <1>4, <2>2
  <2>4. TeidInv'
    <3>1. net' = net /\ pending' = pending /\ nextTeid' = nextTeid
      BY <1>1
    <3>2. \A m \in net' \cup pending' : Offer(m) =>
              Allocated(m.seid) /\ \A z \in Sessions : create'[z].upSeid # m.seid
      BY <2>2, <3>1 DEF RouteInv, PathInv, TeidInv
    <3>3. \A m, n \in net' \cup pending' : Offer(m) /\ Offer(n) /\ m.seid = n.seid => m = n
      BY <3>1 DEF RouteInv, PathInv, TeidInv
    <3>4. \A z \in Sessions : create'[z].upSeid # 0 => Allocated(create'[z].upSeid)
      BY <2>2 DEF RouteInv, PathInv, TeidInv
    <3>5. \A y, z \in Sessions :
              create'[y].upSeid # 0 /\ create'[z].upSeid = create'[y].upSeid => y = z
      BY <2>2 DEF RouteInv, PathInv, TeidInv
    <3> QED BY <3>1, <3>2, <3>3, <3>4, <3>5 DEF TeidInv, Offer, Allocated
  <2>5. d.grant # 0 => Linked(k, s, t)'
    <3>1. d.grant # 0 => cpSession'[k].session = s
      BY <1>1, <1>5, <1>7 DEF SmfInv, SeidInv
    <3>2. Allocated(t)' /\ (d.grant # 0 => teidSession'[t] = k)
      BY <1>1, <1>5, <1>6 DEF AllocatedFor, Allocated, d
    <3>3. create'[s].pc = "save" /\ create'[s].upSeid = t
      BY <1>3, <1>4, <1>5
    <3> QED BY <1>8, <3>1, <3>2, <3>3 DEF Linked
  <2>6. LinkInv'
    <3> SUFFICES ASSUME NEW q \in CpSeids, cpSession'[q] # NoSession
                 PROVE  \E z \in Sessions, v \in Teids : Linked(q, z, v)'
      BY DEF LinkInv
    <3>1. CASE q = k /\ d.grant # 0
      <4>1. t \in Teids
        BY <1>6 DEF AllocatedFor, Allocated
      <4> QED BY <2>5, <3>1, <4>1
    <3>2. CASE ~(q = k /\ d.grant # 0)
      <4>1. cpSession'[q] = cpSession[q]
        BY <1>7, <1>8, <3>2
      <4> QED BY <1>9, <2>3, <4>1, LinksKept DEF RouteInv, PathInv
    <3> QED BY <3>1, <3>2
  <2> QED BY <2>1, <2>4, <2>6 DEF PathInv
<1> QED BY <1>10, <1>11, <1>13, <1>14 DEF RouteInv

(* The handlers beside Create.                                              *)
LEMMA RouteBeside ==
    ASSUME SmfInv, RouteInv, UNCHANGED upfVars,
           \/ Associate
           \/ \E w \in Inputs : pcf_notify(w) \/ modify(w) \/ WriteContext(w)
           \/ \E r \in Inputs : ReleaseSMContext(r) \/ ChargingDataRelease(r) \/ RemoveContext(r)
    PROVE  RouteInv'
<1>1. UNCHANGED <<net, create, cpSession, nextCpSeid, nextTeid, teidSession, ring, updating,
                  pending, reauth>>
  BY DEF Associate, pcf_notify, modify, WriteContext, ReadContext, ReleaseSMContext,
         ChargingDataRelease, RemoveContext, upfVars, callVars
<1>2. Apart'
  BY <1>1 DEF RouteInv, PathInv, Apart
<1> QED BY <1>1, <1>2, RouteIdle

LEMMA RouteReceive ==
    ASSUME SmfInv, RouteInv, UNCHANGED upfVars, NEW m \in net, ReceiveResponse(m)
    PROVE  RouteInv'
<1>1. UNCHANGED <<create, cpSession, nextCpSeid, nextTeid, teidSession, ring, updating, reauth>>
  BY DEF ReceiveResponse, upfVars
<1>2. net' \subseteq net /\ N4Message(m) /\ \A p \in pending' : p \in pending \/ p = m
  BY DEF ReceiveResponse, N4Message, ResponseTypes
<1>3. Apart'
  BY DEF ReceiveResponse, RouteInv, PathInv, Apart
<1> QED BY <1>1, <1>2, <1>3, RouteIdle

(* A usage report's thread goes on as c, with the call it made or a new one.*)
LEMMA RouteReauth ==
    ASSUME SmfInv, RouteInv, UNCHANGED upfVars, NEW u \in Inputs, NEW c, Reauthorizes(u, c),
           UNCHANGED <<create, cpSession, nextCpSeid>>, pending' \subseteq pending,
           c.pc = "await" => c.call = nextCall \/ (reauth[u].pc = "await" /\ c.call = reauth[u].call),
           \A m \in net' : m \in net \/ (c.pc = "await" /\ m.type = "modify" /\ m.call = c.call)
    PROVE  RouteInv'
<1>1. UNCHANGED <<create, cpSession, nextCpSeid, nextTeid, teidSession, ring, updating>>
  BY DEF upfVars
<1>2. c.pc = "await" => \A s \in Sessions : At(s, "await") => c.call # create[s].call
  <2>1. \A s \in Sessions : At(s, "await") => create[s].call < nextCall
    BY DEF SmfInv, PairInv
  <2>2. \A s \in Sessions : At(s, "await") => create[s].call # nextCall
    <3>1. nextCall \in Nat /\ \A s \in Sessions : create[s].call \in Nat
      BY FieldsTyped DEF SmfInv, HandlersTyped
    <3>2. \A n \in Nat : n < nextCall => n # nextCall
      BY <3>1
    <3> QED BY <2>1, <3>1, <3>2
  <2>3. reauth[u].pc = "await" => \A s \in Sessions : At(s, "await") => reauth[u].call # create[s].call
    BY DEF RouteInv, AwaitInv
  <2> QED BY <2>2, <2>3
<1>3. \A v \in Inputs : reauth'[v].pc = "await" =>
           \/ reauth[v].pc = "await" /\ reauth'[v].call = reauth[v].call
           \/ \A s \in Sessions : At(s, "await") => reauth'[v].call # create[s].call
  BY <1>2 DEF Reauthorizes
<1>4. \A m \in net' : m \in net \/ (/\ m.type # "report"
                                   /\ \A s \in Sessions : At(s, "await") => m.call # create[s].call)
  BY <1>2
<1>5. Apart' /\ \A m \in net' : Offer(m) => m \in net
  BY DEF RouteInv, PathInv, Apart, Offer
<1> QED BY <1>1, <1>3, <1>4, <1>5, RouteIdle

LEMMA RouteReport ==
    ASSUME SmfInv, RouteInv, UNCHANGED upfVars, NEW u \in Inputs, NEW m \in net,
           session_report_handler(m, u)
    PROVE  RouteInv'
<1>1. UNCHANGED <<create, cpSession, nextCpSeid, pending>> /\ net' \subseteq net
  BY DEF session_report_handler, callVars
<1>2. CASE UNCHANGED reauth
  <2>1. UNCHANGED <<nextTeid, teidSession, ring, updating>>
    BY DEF upfVars
  <2>2. Apart'
    BY <1>1 DEF RouteInv, PathInv, Apart
  <2> QED BY <1>1, <1>2, <2>1, <2>2, RouteIdle
<1>3. CASE reauth' = [reauth EXCEPT ![u] =
              [NewReauth EXCEPT !.pc = "update", !.session = cpSession[m.seid].session,
                                !.upSeid = cpSession[m.seid].upSeid, !.used = m.total,
                                !.invocation = Invocation(cpSession[m.seid].session)]]
  <2>1. PICK c : /\ c = Running("update", cpSession[m.seid].session, cpSession[m.seid].upSeid,
                                Invocation(cpSession[m.seid].session), m.total, 0, 0, 0)
                 /\ Reauthorizes(u, c)
    BY <1>3, ReportEffect DEF SmfInv
  <2>2. c.pc # "await"
    BY <2>1, RunningFields
  <2> QED BY <1>1, <2>1, <2>2, RouteReauth
<1> QED BY <1>2, <1>3 DEF session_report_handler

LEMMA RouteUpdate ==
    ASSUME SmfInv, RouteInv, UNCHANGED upfVars, NEW u \in Inputs, ChargingDataUpdate(u)
    PROVE  RouteInv'
<1> DEFINE d == reauth[u]
<1>1. UNCHANGED <<create, cpSession, nextCpSeid, pending>>
  BY DEF ChargingDataUpdate
<1>2. ASSUME NEW g \in Grants,
             reauth' = [reauth EXCEPT ![u].pc = "await", ![u].grant = g,
                                      ![u].call = nextCall, ![u].attempt = 1],
             net' = net \cup {ModifyRequest(reauth'[u])}
      PROVE  RouteInv'
  <2>1. PICK c : /\ c = Running("await", d.session, d.upSeid, d.invocation, d.used, g, nextCall, 1)
                 /\ Reauthorizes(u, c)
    BY <1>2, ReauthAskEffect DEF SmfInv
  <2>2. c.pc = "await" /\ c.call = nextCall
    BY <2>1, RunningFields
  <2>3. PICK m : m = ModifyRequest(c) /\ net' = net \cup {m}
    BY <1>2, <2>1 DEF Reauthorizes
  <2>4. m.type = "modify" /\ m.call = c.call
    BY <2>3, ModifyFields
  <2> QED BY <1>1, <2>1, <2>2, <2>3, <2>4, RouteReauth
<1>3. CASE /\ reauth' = [reauth EXCEPT ![u] = [NewReauth EXCEPT !.pc = "done"]]
           /\ UNCHANGED <<net, nextCall>>
  <2>1. PICK c : c = Running("done", 0, 0, 0, 0, 0, 0, 0) /\ Reauthorizes(u, c)
    BY <1>3, ReauthOverEffect DEF SmfInv
  <2>2. c.pc # "await"
    BY <2>1, RunningFields
  <2> QED BY <1>1, <1>3, <2>1, <2>2, RouteReauth
<1> QED BY <1>2, <1>3 DEF ChargingDataUpdate

LEMMA RouteModification ==
    ASSUME SmfInv, RouteInv, UNCHANGED upfVars, NEW u \in Inputs, AwaitModification(u)
    PROVE  RouteInv'
<1> DEFINE d == reauth[u]
<1>1. UNCHANGED <<create, cpSession, nextCpSeid>> /\ d.pc = "await"
  BY DEF AwaitModification
<1>2. ASSUME reauth' = [reauth EXCEPT ![u] = [NewReauth EXCEPT !.pc = "done"]],
             pending' \subseteq pending, UNCHANGED net
      PROVE  RouteInv'
  <2>1. PICK c : c = Running("done", 0, 0, 0, 0, 0, 0, 0) /\ Reauthorizes(u, c)
    BY <1>2, ReauthOverEffect DEF SmfInv
  <2>2. c.pc # "await"
    BY <2>1, RunningFields
  <2> QED BY <1>1, <1>2, <2>1, <2>2, RouteReauth
<1>3. ASSUME reauth' = [reauth EXCEPT ![u].attempt = @ + 1],
             Repeat(ModifyRequest(reauth'[u])), UNCHANGED pending
      PROVE  RouteInv'
  <2>1. reauth' = [reauth EXCEPT ![u].attempt = d.attempt + 1]
    BY <1>3, FieldsTyped DEF SmfInv, HandlersTyped
  <2>2. PICK c : /\ c = Running(d.pc, d.session, d.upSeid, d.invocation, d.used, d.grant,
                               d.call, d.attempt + 1)
                 /\ Reauthorizes(u, c)
    BY <2>1, ReauthRepeatEffect DEF SmfInv
  <2>3. c.pc = "await" /\ c.call = d.call
    BY <1>1, <2>2, RunningFields
  <2>4. PICK m : m = ModifyRequest(c) /\ net' \subseteq net \cup {m}
    BY <1>3, <2>2 DEF Reauthorizes, Repeat
  <2>5. m.type = "modify" /\ m.call = c.call
    BY <2>4, ModifyFields
  <2> QED BY <1>1, <1>3, <2>2, <2>3, <2>4, <2>5, RouteReauth
<1> QED BY <1>2, <1>3 DEF AwaitModification

LEMMA RouteSmf ==
    ASSUME SmfInv, SmfInv', RouteInv, Recent, Smf, UNCHANGED upfVars
    PROVE  RouteInv'
<1>1. ASSUME NEW s \in Sessions, CreateSMContext(s) \/ CreateStep(s)
      PROVE  RouteInv'
  BY <1>1, RouteEarlySteps, RouteEstablish, RouteAwait, RouteRegister DEF CreateStep
<1> QED BY <1>1, RouteBeside, RouteReceive, RouteReport, RouteUpdate, RouteModification DEF Smf

(* TEIDs not yet allocated address nobody.                                  *)
FreshInv == \A t \in Teids : t >= nextTeid => teidSession[t] = 0

LEMMA FreshStep ==
    ASSUME StormInv, SeidInv, FreshInv, [Next]_vars
    PROVE  FreshInv'
<1>1. nextTeid \in Nat
  BY UserPlaneAssumption DEF StormInv, StormType
<1>2. CASE UNCHANGED <<nextTeid, teidSession>>
  BY <1>2 DEF FreshInv
<1>3. ASSUME NEW m \in net, SessionEstablishment(m)
      PROVE  FreshInv'
  <2>1. PICK v : /\ nextTeid' = nextTeid + 1
                 /\ teidSession' = [teidSession EXCEPT ![nextTeid] = v] \/ teidSession' = teidSession
    BY <1>3 DEF SessionEstablishment
  <2>2. \A t \in Teids : t >= nextTeid + 1 => t >= nextTeid /\ t # nextTeid
    BY <1>1 DEF Teids
  <2>3. \A t \in Teids : t # nextTeid => teidSession'[t] = teidSession[t]
    BY <2>1 DEF SeidInv
  <2> QED BY <2>1, <2>2, <2>3 DEF FreshInv
<1>4. ASSUME NEW m \in net, SessionModification(m) PROVE UNCHANGED <<nextTeid, teidSession>>
  BY <1>4 DEF SessionModification
<1>5. CASE update_urr_thresholds \/ usage_report_handler
  BY <1>2, <1>5 DEF update_urr_thresholds, usage_report_handler
<1>6. CASE Traffic
  BY <1>2, <1>6 DEF Traffic, gtpu_decap
<1>7. CASE UNCHANGED upfVars
  BY <1>2, <1>7 DEF upfVars
<1> QED BY <1>2, <1>3, <1>4, <1>5, <1>6, <1>7 DEF Next, Upf, Rest, vars

(* A step of the UPF: what is allocated stays, and a new datagram is an     *)
(* answer to the handler that awaits it, or a report of a known session.    *)
LEMMA RouteUpf ==
    ASSUME SmfInv, RouteInv, UNCHANGED smfVars, RoutesStay, Queued', PathInv',
           \A m \in net' : \/ m \in net
                           \/ /\ m.type = "report" => Reported(m)'
                              /\ \A s \in Sessions : /\ At(s, "await") /\ N4Message(m)
                                                     /\ m.call = create[s].call
                                                     => Matches(m, s)',
           \A s \in Sessions : At(s, "await") /\ updating' # NoUpdate
               => updating' = updating \/ updating'.request.call # create[s].call
    PROVE  RouteInv'
<1>1. UNCHANGED <<create, reauth, pending, nextCpSeid, cpSession>> /\ SeidInv
  BY DEF smfVars, SmfInv
<1>2. \A s \in Sessions : (At(s, "await")' <=> At(s, "await")) /\ SameEstablishment(s)
  BY <1>1 DEF At, SameEstablishment
<1>3. AwaitInv'
  <2>1. \A m \in net' : m \in net \/ \A s \in Sessions :
             At(s, "await")' /\ N4Message(m) /\ m.call = create'[s].call => Matches(m, s)'
    BY <1>1, <1>2
  <2>2. \A s \in Sessions : At(s, "await")' /\ updating' # NoUpdate
             => updating' = updating \/ updating'.request.call # create'[s].call
    BY <1>1, <1>2
  <2>3. \A u \in Inputs : reauth'[u].pc = "await" =>
             reauth[u].pc = "await" /\ reauth'[u].call = reauth[u].call
    BY <1>1
  <2> QED BY <1>1, <1>2, <2>1, <2>2, <2>3, AwaitKept DEF RouteInv
<1>4. FreeInv'
  <2>1. \A s \in Sessions : Busy(s)' => Busy(s) /\ create'[s].cpSeid = create[s].cpSeid
    BY <1>1 DEF Busy
  <2> QED BY <1>1, <2>1, FreeKept DEF RouteInv
<1>5. TrafficInv'
  <2>1. \A s \in Sessions : Stored(s)'
    BY <1>1, StoredStays, TrafficParts DEF RouteInv
  <2>2. \A m \in net' : m.type = "report" => Reported(m)'
    BY <1>1, ReportStays, TrafficParts DEF RouteInv
  <2>3. TrafficInv' <=> /\ \A s \in Sessions : Stored(s)'
                        /\ Queued'
                        /\ \A m \in net' : m.type = "report" => Reported(m)'
    BY DEF TrafficInv, Stored, Queued, Reported
  <2> QED BY <2>1, <2>2, <2>3
<1> QED BY <1>3, <1>4, <1>5 DEF RouteInv

LEMMA RoutesSame ==
    ASSUME UNCHANGED smfVars, UNCHANGED <<nextTeid, teidSession>>
    PROVE  RoutesStay
<1>1. nextTeid' = nextTeid /\ teidSession' = teidSession /\ cpSession' = cpSession
  BY DEF smfVars
<1> QED BY <1>1 DEF RoutesStay

(* Beside an establishment the UPF offers nothing.                          *)
LEMMA PathBeside ==
    ASSUME RouteInv, SmfInv, UNCHANGED smfVars, RoutesStay,
           \A m \in net' : Offer(m) => m \in net
    PROVE  PathInv'
<1>1. UNCHANGED <<create, pending, cpSession>>
  BY DEF smfVars
<1>2. Apart'
  BY <1>1 DEF RouteInv, PathInv, Apart
<1> QED BY <1>1, <1>2, PathKept DEF RouteInv, SmfInv

(* An establishment offers a TEID nobody was offered before.                *)
LEMMA PathOffered ==
    ASSUME PathInv, SmfInv, UNCHANGED smfVars, RoutesStay, NEW t \in Teids, t = nextTeid,
           nextTeid \in Nat, nextTeid' = t + 1, NEW n, n.seid = t,
           net' \subseteq net \cup {n}
    PROVE  PathInv'
<1>1. UNCHANGED <<create, pending, cpSession>> /\ SeidInv
  BY DEF smfVars, SmfInv
<1>2. Allocated(t)' /\ ~Allocated(t)
  BY DEF Allocated
<1>3. \A v : Allocated(v) => Allocated(v)' /\ v # t
  BY <1>1, <1>2, RouteStays
<1>4. \A m \in net \cup pending : Offer(m) => m.seid # t
  BY <1>3 DEF PathInv, TeidInv
<1>5. \A s \in Sessions : create[s].upSeid # t
  <2>1. 0 \notin Teids
    BY DEF Teids
  <2> QED BY <1>3, <2>1 DEF PathInv, TeidInv
<1>6. Apart'
  BY <1>1, <1>4 DEF PathInv, Apart
<1>7. TeidInv'
  <2>1. \A m \in net' \cup pending' : m \in net \cup pending \/ m = n
    BY <1>1
  <2>2. \A m \in net' \cup pending' : Offer(m) =>
            Allocated(m.seid)' /\ \A s \in Sessions : create'[s].upSeid # m.seid
    <3> SUFFICES ASSUME NEW m \in net' \cup pending', Offer(m)
                 PROVE  Allocated(m.seid)' /\ \A s \in Sessions : create'[s].upSeid # m.seid
      OBVIOUS
    <3>1. CASE m = n
      BY <1>1, <1>2, <1>5, <3>1 DEF Allocated
    <3>2. CASE m \in net \cup pending
      <4>1. PICK v : v = m.seid /\ Allocated(v) /\ \A s \in Sessions : create[s].upSeid # v
        BY <3>2 DEF PathInv, TeidInv
      <4> QED BY <1>1, <1>3, <4>1
    <3> QED BY <2>1, <3>1, <3>2
  <2>3. \A m, q \in net' \cup pending' : Offer(m) /\ Offer(q) /\ m.seid = q.seid => m = q
    BY <1>4, <2>1 DEF PathInv, TeidInv
  <2>4. \A s \in Sessions : create'[s].upSeid # 0 => Allocated(create[s].upSeid)'
    <3> SUFFICES ASSUME NEW s \in Sessions, create[s].upSeid # 0
                 PROVE  Allocated(create[s].upSeid)'
      BY <1>1
    <3>1. PICK v : v = create[s].upSeid /\ Allocated(v)
      BY DEF PathInv, TeidInv
    <3> QED BY <1>1, <1>3, <3>1 DEF Allocated
  <2> QED BY <1>1, <2>2, <2>3, <2>4 DEF PathInv, TeidInv, Offer, Allocated
<1>8. LinkInv'
  BY <1>1, LinksKept DEF PathInv, LinkInv
<1> QED BY <1>6, <1>7, <1>8 DEF PathInv

(* The UPF answers an establishment with a TEID it allocates for it.        *)
LEMMA RouteAllocate ==
    ASSUME SmfInv, StormInv, FreshInv, RouteInv, UNCHANGED smfVars, NEW m \in net,
           SessionEstablishment(m)
    PROVE  RouteInv'
<1>1. PICK t : t = nextTeid
  OBVIOUS
<1>2. /\ t \in Teids /\ t \in Nat /\ nextTeid' = t + 1 /\ t < nextTeid'
      /\ m.type = "establish" /\ UNCHANGED <<ring, updating, cpSession, create>>
  <2>1. t \in Teids /\ nextTeid' = t + 1
    BY <1>1, TeidNext DEF SessionEstablishment
  <2>2. t \in Nat
    BY <2>1, UserPlaneAssumption DEF Teids
  <2> QED BY <2>1, <2>2 DEF SessionEstablishment, smfVars
<1>3. /\ m.hasUrr => teidSession' = [teidSession EXCEPT ![t] = m.cpSeid]
      /\ ~m.hasUrr => teidSession' = teidSession
  BY <1>1 DEF SessionEstablishment
<1>4. /\ \A v \in Teids : v # t => teidSession'[v] = teidSession[v]
      /\ m.hasUrr => teidSession'[t] = m.cpSeid
      /\ ~m.hasUrr => teidSession'[t] = 0
  <2>1. DOMAIN teidSession = Teids
    BY DEF SmfInv, SeidInv
  <2>2. teidSession[t] = 0
    BY <1>1, <1>2 DEF FreshInv
  <2>3. m.hasUrr => teidSession'[t] = m.cpSeid
    BY <1>2, <1>3, <2>1
  <2>4. ~m.hasUrr => teidSession'[t] = 0
    BY <1>3, <2>2
  <2>5. \A v \in Teids : v # t => teidSession'[v] = teidSession[v]
    BY <1>3, <2>1
  <2> QED BY <2>3, <2>4, <2>5
<1>5. RoutesStay
  <2>1. \A v \in Teids : v < nextTeid => v < nextTeid' /\ v # t
    BY <1>1, <1>2 DEF Teids
  <2> QED BY <1>2, <1>4, <2>1 DEF RoutesStay
<1>6. Queued'
  BY <1>2, <1>5, QueueStays, TrafficParts DEF RouteInv, SmfInv
<1>7. PICK n : /\ n = [type |-> "established", seq |-> m.seq, call |-> m.call,
                       attempt |-> m.attempt, seid |-> t]
               /\ net' = (net \ {m}) \cup {n}
  BY <1>1 DEF SessionEstablishment
<1>8. n.type = "established" /\ n.call = m.call /\ n.seid = t
  BY <1>7
<1>9. ASSUME NEW s \in Sessions, At(s, "await"), n.call = create[s].call
      PROVE  Matches(n, s)'
  <2>1. Matches(m, s)
    BY <1>2, <1>8, <1>9 DEF RouteInv, AwaitInv, Requests
  <2>2. m.cpSeid = create[s].cpSeid /\ (m.hasUrr <=> create[s].grant # 0)
    BY <1>2, <2>1 DEF Matches
  <2>3. AllocatedFor(t, s)'
    BY <1>2, <1>4, <2>2 DEF AllocatedFor, Allocated
  <2> QED BY <1>8, <2>3 DEF Matches
<1>10. \A q \in net' : \/ q \in net
                       \/ /\ q.type = "report" => Reported(q)'
                          /\ \A s \in Sessions : /\ At(s, "await") /\ N4Message(q)
                                                 /\ q.call = create[s].call
                                                 => Matches(q, s)'
  BY <1>7, <1>8, <1>9
<1>11. PathInv'
  BY <1>1, <1>2, <1>5, <1>7, <1>8, PathOffered DEF RouteInv
<1> QED BY <1>2, <1>5, <1>6, <1>10, <1>11, RouteUpf

LEMMA RouteModify ==
    ASSUME SmfInv, RouteInv, UNCHANGED smfVars, NEW m \in net, SessionModification(m)
    PROVE  RouteInv'
<1>1. m.type = "modify" /\ UNCHANGED <<nextTeid, teidSession, ring>>
  BY DEF SessionModification
<1>2. RoutesStay /\ Queued'
  BY <1>1, RoutesSame, QueueStays, TrafficParts DEF RouteInv, SmfInv
<1>3. \A s \in Sessions : At(s, "await") => m.call # create[s].call
  BY <1>1 DEF RouteInv, AwaitInv, Matches, Requests
<1>4. CASE /\ updating' = [teid |-> m.seid, read |-> urr[m.seid], request |-> m]
           /\ net' = net \ {m}
  <2>1. updating'.request = m
    BY <1>4
  <2>2. PathInv'
    BY <1>2, <1>4, PathBeside
  <2> QED BY <1>2, <1>3, <1>4, <2>1, <2>2, RouteUpf
<1>5. CASE net' = (net \ {m}) \cup {Modified(m)} /\ UNCHANGED updating
  <2>1. PICK n : n = Modified(m) /\ net' = (net \ {m}) \cup {n}
    BY <1>5
  <2>2. n.type = "modified" /\ n.call = m.call
    BY <2>1, ModifiedFields
  <2>3. PathInv'
    BY <1>2, <2>1, <2>2, PathBeside DEF Offer
  <2> QED BY <1>2, <1>3, <1>5, <2>1, <2>2, <2>3, RouteUpf
<1> QED BY <1>4, <1>5 DEF SessionModification

LEMMA RouteThresholds ==
    ASSUME SmfInv, RouteInv, UNCHANGED smfVars, update_urr_thresholds
    PROVE  RouteInv'
<1>1. updating' = NoUpdate /\ updating # NoUpdate /\ UNCHANGED <<nextTeid, teidSession, ring>>
  BY DEF update_urr_thresholds
<1>2. RoutesStay /\ Queued'
  BY <1>1, RoutesSame, QueueStays, TrafficParts DEF RouteInv, SmfInv
<1>3. PICK n : n = Modified(updating.request) /\ net' = net \cup {n}
  BY DEF update_urr_thresholds
<1>4. n.type = "modified" /\ n.call = updating.request.call
  BY <1>3, ModifiedFields
<1>5. \A s \in Sessions : At(s, "await") => n.call # create[s].call
  BY <1>1, <1>4 DEF RouteInv, AwaitInv
<1>6. PathInv'
  BY <1>2, <1>3, <1>4, PathBeside DEF Offer
<1> QED BY <1>1, <1>2, <1>3, <1>4, <1>5, <1>6, RouteUpf

(* Events leave the ring at its head and enter at its end.                  *)
LEMMA RouteEvent ==
    ASSUME SmfInv, RingInv, RouteInv, UNCHANGED smfVars, usage_report_handler
    PROVE  RouteInv'
<1>1. ring # <<>> /\ ring' = Tail(ring) /\ UNCHANGED <<nextTeid, teidSession, updating>>
  BY DEF usage_report_handler
<1>2. RoutesStay /\ Queued /\ ring \in Seq(Event)
  BY <1>1, RoutesSame, TrafficParts DEF RouteInv, RingInv
<1>3. Queued'
  <2> SUFFICES ASSUME NEW i \in 1..Len(ring')
               PROVE  (Allocated(ring[i].teid) /\ Registered(ring[i].teid))'
    BY DEF Queued
  <2>1. i + 1 \in 1..Len(ring) /\ ring'[i] = ring[i + 1]
    BY <1>1, <1>2
  <2>2. PICK t : t = ring'[i].teid /\ Allocated(t) /\ Registered(t)
    BY <1>2, <2>1 DEF Queued
  <2>3. Allocated(t)' /\ Registered(t)'
    BY <1>2, <2>2, RouteStays DEF SmfInv
  <2> QED BY <2>2, <2>3 DEF Allocated, Registered
<1>4. PICK e : e = Head(ring) /\ Allocated(e.teid) /\ Registered(e.teid)
  <2>1. 1 \in 1..Len(ring) /\ Head(ring) = ring[1]
    BY <1>1, <1>2
  <2> QED BY <1>2, <2>1 DEF Queued
<1>5. CASE UNCHANGED net
  BY <1>1, <1>2, <1>3, <1>5, PathBeside, RouteUpf
<1>6. CASE /\ teidSession[e.teid] # 0
           /\ net' = net \cup {[type |-> "report", seid |-> teidSession[e.teid], teid |-> e.teid,
                                urSeqn |-> urSeqn[e.teid], total |-> e.total]}
  <2>1. PICK m : /\ m = [type |-> "report", seid |-> teidSession[e.teid], teid |-> e.teid,
                         urSeqn |-> urSeqn[e.teid], total |-> e.total]
                 /\ net' = net \cup {m}
    BY <1>6
  <2>2. m.type = "report" /\ m.teid = e.teid /\ m.seid = teidSession[e.teid]
    BY <2>1
  <2>3. Reported(m)
    BY <1>4, <1>6, <2>2 DEF Reported
  <2>4. Reported(m)'
    BY <1>2, <2>3, ReportStays DEF SmfInv
  <2>5. ~N4Message(m)
    BY <2>2 DEF N4Message, Requests, ResponseTypes
  <2>6. PathInv'
    BY <1>2, <2>1, <2>2, PathBeside DEF Offer
  <2> QED BY <1>1, <1>2, <1>3, <2>1, <2>4, <2>5, <2>6, RouteUpf
<1> QED BY <1>4, <1>5, <1>6 DEF usage_report_handler

LEMMA RouteTraffic ==
    ASSUME SmfInv, RingInv, RouteInv, UNCHANGED smfVars, Traffic
    PROVE  RouteInv'
<1>0. PICK s \in Sessions, n \in Packets :
         At(s, "done") /\ create[s].upSeid # 0 /\ gtpu_decap(create[s].upSeid, n)
  BY DEF Traffic
<1>1. PICK t : At(s, "done") /\ t = create[s].upSeid /\ t # 0 /\ gtpu_decap(t, n)
  BY <1>0
<1>2. Allocated(t) /\ Registered(t)
  BY <1>1, TrafficParts DEF RouteInv, Stored
<1>3. /\ UNCHANGED <<net, nextTeid, teidSession, updating>>
      /\ UNCHANGED ring \/ ring' = Append(ring, [teid |-> t, total |-> urr[t].total + n])
  BY <1>1 DEF gtpu_decap, Report
<1>4. RoutesStay /\ Queued /\ ring \in Seq(Event)
  BY <1>3, RoutesSame, TrafficParts DEF RouteInv, RingInv
<1>5. Queued'
  <2>1. CASE UNCHANGED ring
    BY <1>4, <2>1, QueueStays DEF SmfInv
  <2>2. CASE ring' = Append(ring, [teid |-> t, total |-> urr[t].total + n])
    <3>1. PICK e : e.teid = t /\ ring' = Append(ring, e)
      BY <2>2
    <3> SUFFICES ASSUME NEW i \in 1..Len(ring')
                 PROVE  (Allocated(ring[i].teid) /\ Registered(ring[i].teid))'
      BY DEF Queued
    <3>2. (i \in 1..Len(ring) /\ ring'[i] = ring[i]) \/ ring'[i] = e
      BY <1>4, <3>1
    <3>3. PICK v : v = ring'[i].teid /\ Allocated(v) /\ Registered(v)
      BY <1>2, <1>4, <3>1, <3>2 DEF Queued
    <3>4. Allocated(v)' /\ Registered(v)'
      BY <1>4, <3>3, RouteStays DEF SmfInv
    <3> QED BY <3>3, <3>4 DEF Allocated, Registered
  <2> QED BY <1>3, <2>1, <2>2
<1>6. PathInv'
  BY <1>3, <1>4, PathBeside
<1> QED BY <1>3, <1>4, <1>5, <1>6, RouteUpf

(* What holds of the routes.                                                *)
Routes == Inv /\ FreshInv /\ RouteInv

LEMMA RoutesInitial == Init => Routes
<1> SUFFICES ASSUME Init PROVE Routes
  OBVIOUS
<1>1. Inv
  BY StormInitial, InitialInv DEF Inv
<1>2. FreshInv
  BY DEF Init, UpfInit, FreshInv
<1>3. \A s \in Sessions : create[s].pc = "new" /\ create[s].upSeid = 0
  BY DEF Init, SmfInit, NewCreate
<1>4. AwaitInv
  BY <1>3 DEF AwaitInv, At
<1>5. FreeInv /\ \A c \in CpSeids : cpSession[c] = NoSession
  <2>1. \A c \in CpSeids : cpSession[c] = NoSession
    BY DEF Init, SmfInit
  <2> QED BY <1>3, <2>1 DEF FreeInv, Busy
<1>6. TrafficInv
  <2>1. ring = <<>> /\ net = {}
    BY DEF Init, UpfInit
  <2>2. Len(ring) = 0
    BY <2>1
  <2> QED BY <1>3, <2>1, <2>2 DEF TrafficInv, At
<1>7. PathInv
  <2>1. net = {} /\ pending = {}
    BY DEF Init, SmfInit
  <2> QED BY <1>3, <1>5, <2>1 DEF PathInv, Apart, TeidInv, LinkInv
<1> QED BY <1>1, <1>2, <1>4, <1>5, <1>6, <1>7 DEF Routes, RouteInv

LEMMA RoutesStep == Routes /\ Recent /\ Inv' /\ [Next]_vars => Routes'
<1> SUFFICES ASSUME Routes, Recent, Inv', [Next]_vars PROVE Routes'
  OBVIOUS
<1>1. SmfInv /\ StormInv /\ RingInv /\ SmfInv' /\ FreshInv /\ RouteInv
  BY DEF Routes, Inv
<1>2. FreshInv'
  BY <1>1, FreshStep DEF SmfInv
<1>3. RouteInv'
  <2>1. CASE Smf /\ UNCHANGED upfVars
    BY <1>1, <2>1, RouteSmf
  <2>2. CASE Upf /\ UNCHANGED smfVars
    BY <1>1, <2>2, RouteAllocate, RouteModify, RouteThresholds, RouteEvent, RouteTraffic
       DEF Upf
  <2>3. CASE UNCHANGED vars
    <3>1. /\ UNCHANGED <<net, nextTeid, teidSession, ring, updating, create, cpSession,
                         nextCpSeid, pending, reauth>>
      BY <2>3 DEF vars, upfVars, smfVars
    <3>2. Apart'
      BY <1>1, <3>1 DEF RouteInv, PathInv, Apart
    <3> QED BY <1>1, <3>1, <3>2, RouteIdle
  <2> QED BY <2>1, <2>2, <2>3 DEF Next, Rest
<1> QED BY <1>2, <1>3 DEF Routes

LEMMA RoutesHold == Spec /\ []Recent => []Routes
BY InvHolds, RoutesInitial, RoutesStep, PTL DEF Spec

(* A usage report finds the session whose traffic crossed the threshold,    *)
(* for any number of sessions established side by side, of repeated and     *)
(* delayed requests and of answers out of order, from any sequence number   *)
(* on and through its wrap (see Recent).  The SEID is free until its own    *)
(* session registers it, with a TEID the UPF allocated for it, and only     *)
(* then does a gNB learn the TEID (RegisterSession before StoreUpSeid).     *)
THEOREM ReportsRouted == Spec /\ []Recent => []ReportFindsSession
<1>1. Routes => ReportFindsSession
  <2> SUFFICES ASSUME Routes, NEW m \in net, m.type = "report"
               PROVE  cpSession[m.seid] # NoSession /\ cpSession[m.seid].upSeid = m.teid
    BY DEF ReportFindsSession
  <2>1. Reported(m)
    BY TrafficParts DEF Routes, RouteInv
  <2> QED BY <2>1 DEF Reported, Registered
<1> QED BY <1>1, RoutesHold, PTL

(* No two PDU sessions share a UPF session and the tables that lead to it   *)
(* agree, however many requests are repeated and whichever of their answers *)
(* come too late (PfcpPeer, perform_n4_session_establishment): the UPF      *)
(* offers a TEID once, in one answer, which one handler takes, and that     *)
(* handler's is the call the answer was made for although the number that   *)
(* pairs them wraps.                                                        *)
THEOREM SessionsPaired == Spec /\ []Recent => []TeidPerSession
<1>1. Routes => TeidPerSession
  <2> SUFFICES ASSUME Routes PROVE TeidPerSession
    OBVIOUS
  <2>1. TeidInv /\ LinkInv
    BY DEF Routes, RouteInv, PathInv
  <2>2. ASSUME NEW c \in CpSeids, cpSession[c] # NoSession
        PROVE  /\ create[cpSession[c].session].upSeid = cpSession[c].upSeid
               /\ teidSession[cpSession[c].upSeid] = c
    BY <2>1, <2>2 DEF LinkInv, Linked
  <2> QED BY <2>1, <2>2 DEF TeidInv, TeidPerSession
<1> QED BY <1>1, RoutesHold, PTL
===========================================================================
