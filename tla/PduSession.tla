---------------------------- MODULE PduSession ----------------------------
(***************************************************************************)
(* PDU sessions with online charging: the SMF and the UPF joined by N4,    *)
(* with the PCF, the CHF, the AMF and the gNB as their environment.  The   *)
(* loop is  XDP crossing -> Session Report -> N40 Update -> Session        *)
(* Modification (Update URR) -> new thresholds for the XDP program.        *)
(***************************************************************************)
EXTENDS SessionManagement

vars == <<net, upfVars, smfVars>>

Init == net = {} /\ UpfInit /\ SmfInit

(* The gNB sends on a TEID once the SMF has stored it in the SM context,    *)
(* and may go on after the context is released.                             *)
Traffic ==
    \E s \in Sessions, n \in Packets :
        At(s, "done") /\ create[s].upSeid # 0 /\ gtpu_decap(create[s].upSeid, n)

CreateStep(s) ==
    \/ CreateSMPolicy(s) \/ StoreDecision(s) \/ ChargingDataCreate(s)
    \/ StoreChargingDataRef(s) \/ N4Establish(s) \/ AwaitEstablishment(s)
    \/ RegisterSession(s) \/ StoreUpSeid(s)

Smf ==
    \/ Associate
    \/ \E s \in Sessions : CreateSMContext(s) \/ CreateStep(s)
    \/ \E w \in Inputs : pcf_notify(w) \/ modify(w) \/ WriteContext(w)
    \/ \E r \in Inputs :
          ReleaseSMContext(r) \/ ChargingDataRelease(r) \/ RemoveContext(r)
    \/ \E m \in net : ReceiveResponse(m)
    \/ \E m \in net, u \in Inputs : session_report_handler(m, u)
    \/ \E u \in Inputs : ChargingDataUpdate(u) \/ AwaitModification(u)

Upf ==
    \/ \E m \in net : SessionEstablishment(m) \/ SessionModification(m)
    \/ update_urr_thresholds
    \/ usage_report_handler
    \/ Traffic

(* Every handler has returned and the bounds allow no further request.      *)
Rest ==
    /\ \A s \in Sessions : create[s].pc \in {"new", "done"}
    /\ \A w \in Inputs : write[w].pc \in {"new", "done"}
    /\ \A r \in Inputs : release[r].pc \in {"new", "done"}
    /\ \A u \in Inputs : reauth[u].pc \in {"new", "done"}
    /\ updating = NoUpdate
    /\ UNCHANGED vars

Next ==
    \/ Smf /\ UNCHANGED upfVars
    \/ Upf /\ UNCHANGED smfVars
    \/ Rest

Spec == Init /\ [][Next]_vars

---------------------------------------------------------------------------
TypeOK ==
    /\ nextTeid \in 1..(MaxTeids + 1) /\ seidToTeid \subseteq Teids /\ teidMap \subseteq Teids
    /\ urrMap \subseteq Teids
    /\ teidSession \in [Teids -> {0} \cup CpSeids]
    /\ \A t \in Teids : urr[t].total \in Octets /\ urSeqn[t] \in Nat
    /\ Len(ring) <= RingSize
    /\ updating.teid \in {0} \cup Teids
    /\ contexts \subseteq Sessions
    /\ ctx \in [Sessions -> SUBSET Keys]
    /\ \A s \in Sessions : /\ create[s].copy \subseteq Keys
                           /\ create[s].attempt \in 0..MaxAttempts
                           /\ create[s].upSeid \in {0} \cup Teids
    /\ \A c \in CpSeids : cpSession[c].session \in {0} \cup Sessions
    /\ invocation \in [Sessions -> Nat]
    /\ open \subseteq Sessions
    /\ \A p, q \in pending : p.seq = q.seq => p = q

(* A usage report finds, at the SMF, the session whose traffic crossed the  *)
(* threshold: the registration under its SEID exists by then and addresses  *)
(* the very TEID that reported, whatever was repeated, delayed or answered  *)
(* out of order while sessions were established side by side (RegisterSession *)
(* before StoreUpSeid, pairing in PfcpPeer, a session per repeated request).*)
ReportFindsSession ==
    \A m \in net : m.type = "report" =>
        cpSession[m.seid] # NoSession /\ cpSession[m.seid].upSeid = m.teid

(* TS 32.291: no two N40 requests for one charging data resource carry the  *)
(* same invocation number, with Updates on detached threads and several     *)
(* Releases under way (ChargingDataInvocationSeqStore).                     *)
UniqueInvocation ==
    \A c, d \in n40Calls : c[1] = d[1] /\ c[2] = d[2] => c = d

(* The latches of urr_state bound the reports: at most one for the          *)
(* threshold and one for the quota per time they were provisioned, also     *)
(* when an Update URR clears the latches while packets pass.                *)
NoReportStorm ==
    \A t \in Teids : crossings[t] <= 2 * provisioned[t]

(* A released SM context does not come back: a handler that read it before  *)
(* the Release and writes it after is refused by SmContextStore::update.    *)
ReleasedStaysReleased ==
    [][\A s \in contexts' \ contexts : At(s, "new")]_vars

(* Every PDU session has a UPF session of its own, and the three tables     *)
(* that lead to it agree: no two handlers ever hold the same TEID, and what *)
(* CpSeidSessionStore keeps under a SEID is the TEID its session holds, one *)
(* the UPF has set up under that very SEID.  An establishment repeated      *)
(* after a time-out makes one more UPF session, a response may come when    *)
(* its caller has given up, responses overtake one another, and the 24-bit  *)
(* number of a request may be that of one sent long before (PfcpPeer,       *)
(* send_request_and_await_response).                                        *)
TeidPerSession ==
    /\ \A s, z \in Sessions :
          create[s].upSeid # 0 /\ create[z].upSeid = create[s].upSeid => s = z
    /\ \A c \in CpSeids : cpSession[c] # NoSession =>
          /\ create[cpSession[c].session].upSeid = cpSession[c].upSeid
          /\ teidSession[cpSession[c].upSeid] = c

(* nfs/upf/src/datapath.hpp: update_urr_thresholds "does a read-modify-     *)
(* write: total_octets is preserved".  The octets counted for a TEID never  *)
(* go down.                                                                 *)
OctetsPreserved ==
    [][\A t \in Teids : urr'[t].total >= urr[t].total]_vars
==========================================================================
