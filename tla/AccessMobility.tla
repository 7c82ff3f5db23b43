--------------------------- MODULE AccessMobility ---------------------------
(***************************************************************************)
(* The AMF's N2 side: a thread per gNB association runs the handlers of    *)
(* ngap_task.cpp and ngap_handover.cpp one message at a time, on the       *)
(* UeAuthState of the association (the code serves one UE per association  *)
(* at a time) and on what the threads share: the NgapUeRegistry, the gNB   *)
(* associations with their reply slot, the UE contexts by SUPI, and, in    *)
(* Redis, the NAS security contexts by 5G-TMSI and the index from          *)
(* AMF-UE-NGAP-ID to 5G-TMSI.                                              *)
(*                                                                         *)
(* A handler takes the association g, the message m and how the services   *)
(* it calls answer.  A handler is one step, except HandoverRequired, which *)
(* waits for the target's reply in the middle.  A key is the vector it is  *)
(* derived from.  A gNB has one association and goes by its name.          *)
(***************************************************************************)
EXTENDS Authentication

CONSTANTS
    Gnb,          \* gNBs
    MaxIds        \* bound on the AMF-UE-NGAP-IDs given out

\* No gNB goes by the values that stand for no gNB and for an ended association.
ASSUME AccessMobilityAssumption == MaxIds \in Nat /\ "none" \notin Gnb /\ "gone" \notin Gnb

VARIABLES
    open,         \* per gNB: the association's thread runs
    link,         \* the gNB's end of the association is up
    named,        \* GnbAssociationRegistry: its keys
    relay,        \* GnbAssociation: awaiting_reply and reply_bytes
    busy,         \* the handover a source's thread waits for a reply of
    auth,         \* UeAuthState
    next_id,      \* g_next_amf_ue_ngap_id
    entries,      \* NgapUeRegistry by SUPI
    security,     \* UeSecurityContextStore: 5G-TMSI -> context
    index,        \* AmfUeIdIndexStore: AMF-UE-NGAP-ID -> 5G-TMSI, 0 if none
    ue_contexts,  \* UeContextStore by SUPI
    up, down      \* messages from and to a gNB, in order

amfVars == <<open, link, named, relay, busy, auth, next_id, entries, security, index,
             ue_contexts, up, down, authVars>>

Phases == {"AwaitingAuthenticationResponse", "AwaitingSecurityModeComplete",
           "AwaitingRegistrationComplete", "AwaitingPduSessionEstablishmentRequest", "Done"}

UeAuthState ==
    [supi |-> "none", confirmation |-> 0, id |-> 0, ran |-> 0, key |-> 0, rand |-> 0,
     sqn_resync_attempted |-> FALSE, phase |-> "AwaitingAuthenticationResponse"]

NoEntry == [assoc |-> "none", id |-> 0, ran |-> 0, key |-> 0, dl |-> 0]
NoUeContext == [exists |-> FALSE, session |-> FALSE, target |-> "none"]
NotAwaiting == [awaiting |-> FALSE, reply |-> "none"]
NotBusy == [target |-> "none", id |-> 0, detached |-> FALSE]

Answers == {"ok", "refused", "failed"}

AmfTypeOK ==
    /\ open \in [Gnb -> BOOLEAN] /\ link \in [Gnb -> BOOLEAN] /\ named \subseteq Gnb
    /\ \A g \in Gnb :
         /\ auth[g].supi \in UE \cup {"none"} /\ auth[g].phase \in Phases
         /\ auth[g].id \in 0..MaxIds /\ auth[g].key <= Len(vectors)
         /\ busy[g].target \in Gnb \cup {"none"}
    /\ next_id \in 1..MaxIds + 1
    /\ \A i \in 1..MaxIds : index[i] \in 0..Len(security)
    /\ \A u \in UE : entries[u].assoc \in Gnb \cup {"none", "gone"}

AmfInit ==
    /\ AuthInit
    /\ open = [g \in Gnb |-> TRUE] /\ link = [g \in Gnb |-> TRUE]
    /\ named = {} /\ relay = [g \in Gnb |-> NotAwaiting] /\ busy = [g \in Gnb |-> NotBusy]
    /\ auth = [g \in Gnb |-> UeAuthState]
    /\ next_id = 1
    /\ entries = [u \in UE |-> NoEntry]
    /\ security = << >> /\ index = [i \in 1..MaxIds |-> 0]
    /\ ue_contexts = [u \in UE |-> NoUeContext]
    /\ up = [g \in Gnb |-> <<[type |-> "NGSetupRequest"]>>]
    /\ down = [g \in Gnb |-> << >>]

----------------------------------------------------------------------------
(***************************************************************************)
(* Sending.  What is sent into a broken association is lost.               *)
(***************************************************************************)
Sent(queues, g, m) ==
    IF link[g] THEN [queues EXCEPT ![g] = Append(@, m)] ELSE queues

Send(g, m) == down' = Sent(down, g, m)

send_downlink_nas_transport(g, type, id, ran, key, count) ==
    Send(g, [type |-> type, id |-> id, ran |-> ran, key |-> key, count |-> count])

ReleaseCommand(id) == [type |-> "UEContextReleaseCommand", id |-> id]

\* NgapUeRegistry::send_dl_nas_transport; the socket of an association that has
\* ended is a dangling pointer, and what is sent to it is lost.
send_dl_nas_transport(u) ==
    LET e == entries[u] IN
    /\ e # NoEntry
    /\ entries' = [entries EXCEPT ![u].dl = @ + 1]
    /\ IF e.assoc \in Gnb
       THEN send_downlink_nas_transport(e.assoc, "DlNasTransport", e.id, e.ran, e.key, e.dl)
       ELSE UNCHANGED down

register_ue(u, g, id, ran, key, dl) ==
    entries' = [entries EXCEPT ![u] =
                   [assoc |-> g, id |-> id, ran |-> ran, key |-> key, dl |-> dl]]

unregister_ue(u) == entries' = IF u = "none" THEN entries ELSE [entries EXCEPT ![u] = NoEntry]

\* The context an AMF-UE-NGAP-ID leads to through both stores: its 5G-TMSI, or 0.
cold_lookup(id) == IF id \in 1..MaxIds THEN index[id] ELSE 0

----------------------------------------------------------------------------
(***************************************************************************)
(* NG setup.  register_gnb makes a new GnbAssociation: a thread that still *)
(* waits for a reply waits on the old one.                                 *)
(***************************************************************************)
handle_ng_setup_request(g, m, answer) ==
    /\ m.type = "NGSetupRequest" /\ answer = "ok"
    /\ named' = named \cup {g}
    /\ relay' = [relay EXCEPT ![g] = NotAwaiting]
    /\ busy' = [s \in Gnb |-> IF busy[s].target = g
                              THEN [busy[s] EXCEPT !.detached = TRUE] ELSE busy[s]]
    /\ UNCHANGED <<auth, next_id, entries, security, index, ue_contexts, down, authVars>>

----------------------------------------------------------------------------
(***************************************************************************)
(* Registration.  Only ids, SUPI and capability are set by a new           *)
(* RegistrationRequest: the phase and the resynchronisation flag stay as   *)
(* an earlier one on the association left them.                            *)
(***************************************************************************)
initiate_5g_aka_authentication(g, a, resync, answer) ==
    IF answer = "ok" /\ verified(resync)
    THEN /\ PostUeAuthentications(a.supi, resync)
         /\ auth' = [auth EXCEPT ![g] = [a EXCEPT !.confirmation = Len(contexts) + 1,
                                                  !.rand = Len(vectors) + 1]]
         /\ send_downlink_nas_transport(g, "AuthenticationRequest", a.id, a.ran,
                                        Len(vectors) + 1, 0)
    ELSE /\ IF verified(resync) THEN PostUeAuthenticationsFails(a.supi, resync)
                                ELSE UNCHANGED authVars
         /\ auth' = [auth EXCEPT ![g] = a]
         /\ UNCHANGED down

handle_initial_ue_message(g, m, answer) ==
    /\ m.type = "RegistrationRequest" /\ next_id <= MaxIds
    /\ next_id' = next_id + 1
    /\ initiate_5g_aka_authentication(g,
           [auth[g] EXCEPT !.supi = m.ue, !.id = next_id, !.ran = m.ran], NoResync, answer)
    /\ UNCHANGED <<entries, security, index, ue_contexts>>

\* AuthenticationFailure: one resynchronisation, with the RAND last sent.
handle_authentication_failure(g, m, answer) ==
    /\ IF auth[g].sqn_resync_attempted \/ auth[g].rand = 0
       THEN answer = "ok" /\ UNCHANGED <<auth, down, authVars>>
       ELSE initiate_5g_aka_authentication(g,
                [auth[g] EXCEPT !.sqn_resync_attempted = TRUE],
                [rand |-> auth[g].rand, auts |-> m.auts], answer)
    /\ UNCHANGED <<next_id, entries, security, index, ue_contexts>>

\* KAMF binds the SUPI: of another subscriber's vector it is a key of nobody.
derive_kamf(v, u) == IF vectors[v].ue = u THEN v ELSE 0

\* AuthenticationResponse: the AUSF compares RES*, then SecurityModeCommand.
handle_authentication_response(g, m, answer) ==
    LET a == auth[g] IN
    /\ IF a.confirmation # 0 /\ confirmed(a.confirmation, m.res) /\ answer = "ok"
       THEN LET key == derive_kamf(contexts[a.confirmation], a.supi) IN
            /\ store_fresh_kausf(a.confirmation)
            /\ auth' = [auth EXCEPT ![g].key = key,
                                    ![g].phase = "AwaitingSecurityModeComplete"]
            /\ send_downlink_nas_transport(g, "SecurityModeCommand", a.id, a.ran, key, 0)
       ELSE /\ \/ UNCHANGED authVars
               \/ answer = "failed" /\ confirmed(a.confirmation, m.res)
                  /\ store_fresh_kausf(a.confirmation)
            /\ UNCHANGED <<auth, down>>
    /\ UNCHANGED <<next_id, entries, security, index, ue_contexts>>

handle_uplink_nas_transport(g, m, answer) ==
    \/ m.type = "AuthenticationFailure" /\ handle_authentication_failure(g, m, answer)
    \/ m.type = "AuthenticationResponse" /\ handle_authentication_response(g, m, answer)

\* decode_secured_uplink: the MAC is made with the key and the whole COUNT.
mac_valid(g, m, count) == m.key = auth[g].key /\ m.count = count

\* The NSACF decides before the UE is told; one that does not answer admits.
\* A refusal leaves the phase as it is.
handle_uplink_nas_transport_smc_complete(g, m, answer) ==
    LET a == auth[g]
        tmsi == Len(security) + 1 IN
    /\ m.type = "SecurityModeComplete" /\ mac_valid(g, m, 0)
    /\ IF answer = "refused"
       THEN /\ send_downlink_nas_transport(g, "RegistrationReject", a.id, a.ran, a.key, 1)
            /\ UNCHANGED <<auth, security, index>>
       ELSE /\ Send(g, [type |-> "RegistrationAccept", id |-> a.id, ran |-> a.ran,
                        key |-> a.key, count |-> 1, tmsi |-> tmsi])
            /\ security' = Append(security, [ue |-> a.supi, key |-> a.key, ul |-> 1, dl |-> 2])
            /\ index' = [index EXCEPT ![a.id] = tmsi]
            /\ auth' = [auth EXCEPT ![g].phase = "AwaitingRegistrationComplete"]
    /\ UNCHANGED <<next_id, entries, ue_contexts, authVars>>

\* The UE is registered in the registry before the PCF is asked; only a policy
\* association is put into the UE contexts, in place of what was there.
handle_uplink_nas_transport_registration_complete(g, m, answer) ==
    LET a == auth[g] IN
    /\ m.type = "RegistrationComplete" /\ mac_valid(g, m, 1)
    /\ auth' = [auth EXCEPT ![g].phase = "AwaitingPduSessionEstablishmentRequest"]
    /\ register_ue(a.supi, g, a.id, a.ran, a.key, 2)
    /\ ue_contexts' = IF answer = "ok"
                      THEN [ue_contexts EXCEPT ![a.supi] = [NoUeContext EXCEPT !.exists = TRUE]]
                      ELSE ue_contexts
    /\ UNCHANGED <<next_id, security, index, down, authVars>>

\* CreateSMContext; the SMF's reject is relayed through the registry.
handle_uplink_nas_transport_pdu_session_establishment(g, m, answer) ==
    LET u == auth[g].supi IN
    /\ m.type = "PduSessionEstablishmentRequest" /\ mac_valid(g, m, 2)
    /\ auth' = [auth EXCEPT ![g].phase = "Done"]
    /\ ue_contexts' = IF answer = "ok"
                      THEN [ue_contexts EXCEPT ![u].exists = TRUE, ![u].session = TRUE]
                      ELSE ue_contexts
    /\ IF answer = "refused" /\ entries[u] # NoEntry THEN send_dl_nas_transport(u)
       ELSE UNCHANGED <<entries, down>>
    /\ UNCHANGED <<next_id, security, index, authVars>>

\* The phase names the handler; what the handler does not expect is ignored.
UplinkNas == {"AuthenticationResponse", "AuthenticationFailure", "SecurityModeComplete",
              "RegistrationComplete", "PduSessionEstablishmentRequest"}

Expected(g, m) ==
    CASE auth[g].phase = "AwaitingAuthenticationResponse" ->
             m.type \in {"AuthenticationResponse", "AuthenticationFailure"}
      [] auth[g].phase = "AwaitingSecurityModeComplete" ->
             m.type = "SecurityModeComplete" /\ mac_valid(g, m, 0)
      [] auth[g].phase = "AwaitingRegistrationComplete" ->
             m.type = "RegistrationComplete" /\ mac_valid(g, m, 1)
      [] auth[g].phase = "AwaitingPduSessionEstablishmentRequest" ->
             m.type = "PduSessionEstablishmentRequest" /\ mac_valid(g, m, 2)
      [] OTHER -> FALSE

uplink_nas_by_phase(g, m, answer) ==
    /\ m.type \in UplinkNas
    /\ IF Expected(g, m)
       THEN \/ handle_uplink_nas_transport(g, m, answer)
            \/ handle_uplink_nas_transport_smc_complete(g, m, answer)
            \/ handle_uplink_nas_transport_registration_complete(g, m, answer)
            \/ handle_uplink_nas_transport_pdu_session_establishment(g, m, answer)
       ELSE /\ answer = "ok"
            /\ UNCHANGED <<auth, next_id, entries, security, index, ue_contexts, down, authVars>>

----------------------------------------------------------------------------
(***************************************************************************)
(* ServiceRequest on a new connection.  next_uplink_count advances the     *)
(* store before the MAC is checked.                                        *)
(***************************************************************************)
handle_service_request(g, m, answer) ==
    /\ m.type = "ServiceRequest" /\ answer = "ok" /\ next_id <= MaxIds
    /\ next_id' = next_id + 1
    /\ IF m.tmsi \notin 1..Len(security)
       THEN /\ send_downlink_nas_transport(g, "ServiceReject", next_id, m.ran, 0, 0)
            /\ UNCHANGED <<auth, entries, security>>
       ELSE LET c == security[m.tmsi] IN
            IF m.key = c.key /\ m.count = c.ul
            THEN /\ auth' = [auth EXCEPT ![g].id = next_id, ![g].ran = m.ran, ![g].supi = c.ue,
                                         ![g].key = c.key, ![g].phase = "Done"]
                 /\ send_downlink_nas_transport(g, "ServiceAccept", next_id, m.ran, c.key, c.dl)
                 /\ register_ue(c.ue, g, next_id, m.ran, c.key, c.dl + 1)
                 /\ security' = [security EXCEPT ![m.tmsi].ul = @ + 1, ![m.tmsi].dl = @ + 1]
            ELSE /\ security' = [security EXCEPT ![m.tmsi].ul = @ + 1]
                 /\ UNCHANGED <<auth, entries, down>>
    /\ UNCHANGED <<index, ue_contexts, authVars>>

----------------------------------------------------------------------------
(***************************************************************************)
(* Release and path switch.                                                *)
(***************************************************************************)
handle_ue_context_release_request(g, m, answer) ==
    /\ m.type = "UEContextReleaseRequest" /\ answer = "ok"
    /\ Send(g, ReleaseCommand(auth[g].id))
    /\ UNCHANGED <<auth, next_id, entries, security, index, ue_contexts, authVars>>

handle_ue_context_release_complete_keeping(g, m, answer) ==
    /\ m.type = "UEContextReleaseComplete" /\ answer = "ok"
    /\ auth' = [auth EXCEPT ![g] = UeAuthState]
    /\ UNCHANGED <<next_id, entries, security, index, ue_contexts, down, authVars>>

\* The id in the message is not compared with the association's.
handle_ue_context_release_complete(g, m, answer) ==
    /\ m.type = "UEContextReleaseComplete" /\ answer = "ok"
    /\ unregister_ue(auth[g].supi)
    /\ auth' = [auth EXCEPT ![g] = UeAuthState]
    /\ UNCHANGED <<next_id, security, index, ue_contexts, down, authVars>>

\* The entry moves to this association, with the COUNT of the store; neither
\* association's UeAuthState changes.
handle_path_switch_request(g, m, answer) ==
    LET tmsi == cold_lookup(m.id) IN
    /\ m.type = "PathSwitchRequest" /\ answer = "ok"
    /\ IF tmsi = 0
       THEN /\ Send(g, [type |-> "ErrorIndication", ran |-> m.ran])
            /\ UNCHANGED entries
       ELSE /\ Send(g, [type |-> "PathSwitchRequestAcknowledge", id |-> m.id, ran |-> m.ran])
            /\ register_ue(security[tmsi].ue, g, m.id, m.ran, security[tmsi].key, security[tmsi].dl)
    /\ UNCHANGED <<auth, next_id, security, index, ue_contexts, authVars>>

----------------------------------------------------------------------------
(***************************************************************************)
(* N2 handover.  The source's thread prepares, sends HandoverRequest to    *)
(* the target and waits; the target's thread puts the reply into the slot. *)
(***************************************************************************)
PreparationFailure(id) == [type |-> "HandoverPreparationFailure", id |-> id]

\* An unknown UE, no session the SMF answers for, or no such target: failure.
\* The target is recorded before it is looked up.
handle_handover_required(g, m, answer) ==
    LET tmsi == cold_lookup(m.id)
        u == security[tmsi].ue IN
    /\ m.type = "HandoverRequired"
    /\ IF tmsi = 0 \/ answer # "ok" \/ ~ue_contexts[u].session
       THEN Send(g, PreparationFailure(m.id)) /\ UNCHANGED <<ue_contexts, relay, busy>>
       ELSE /\ ue_contexts' = [ue_contexts EXCEPT ![u].target = m.target]
            /\ IF m.target \in named
               THEN /\ relay' = [relay EXCEPT ![m.target] = [awaiting |-> TRUE, reply |-> "none"]]
                    /\ Send(m.target, [type |-> "HandoverRequest", id |-> m.id])
                    /\ busy' = [busy EXCEPT ![g] =
                                   [target |-> m.target, id |-> m.id, detached |-> FALSE]]
               ELSE Send(g, PreparationFailure(m.id)) /\ UNCHANGED <<relay, busy>>
    /\ UNCHANGED <<auth, next_id, entries, security, index, authVars>>

Replies == {"HandoverRequestAcknowledge", "HandoverFailure"}

deliver_reply_if_pending(g, m, answer) ==
    /\ m.type \in Replies /\ answer = "ok"
    /\ relay' = IF g \in named /\ relay[g].awaiting
                THEN [relay EXCEPT ![g].reply = m.type] ELSE relay
    /\ UNCHANGED <<auth, next_id, entries, security, index, ue_contexts, down, authVars>>

SlotOf(g) == relay[busy[g].target]

relays_any_reply(g) == SlotOf(g).reply # "none"

\* Only an acknowledgement becomes a HandoverCommand.
relays_command(g) == SlotOf(g).reply = "HandoverRequestAcknowledge"

\* The wait ends with a reply.  The optional it is moved from stays engaged.
\* That the SMF does not confirm a session is logged; the command is sent.
await_reply(g) ==
    /\ busy[g] # NotBusy /\ ~busy[g].detached /\ SlotOf(g).reply # "none"
    /\ relay' = [relay EXCEPT ![busy[g].target] = [awaiting |-> FALSE, reply |-> "moved"]]
    /\ Send(g, IF relays_command(g) THEN [type |-> "HandoverCommand", id |-> busy[g].id]
               ELSE PreparationFailure(busy[g].id))
    /\ busy' = [busy EXCEPT ![g] = NotBusy]
    /\ UNCHANGED <<open, link, named, auth, next_id, entries, security, index, ue_contexts, up,
                   authVars>>

\* The wait ends after 10 s without one.
await_timeout(g) ==
    /\ busy[g] # NotBusy /\ (busy[g].detached \/ SlotOf(g).reply = "none")
    /\ relay' = IF busy[g].detached THEN relay
                ELSE [relay EXCEPT ![busy[g].target].awaiting = FALSE]
    /\ Send(g, PreparationFailure(busy[g].id))
    /\ busy' = [busy EXCEPT ![g] = NotBusy]
    /\ UNCHANGED <<open, link, named, auth, next_id, entries, security, index, ue_contexts, up,
                   authVars>>

\* The SMF is told (a failure is logged), then the association the registry
\* still names is told to release, then the entry moves here.
handle_handover_notify(g, m, answer) ==
    LET tmsi == cold_lookup(m.id)
        u == security[tmsi].ue IN
    /\ m.type = "HandoverNotify" /\ answer = "ok"
    /\ IF tmsi = 0 THEN UNCHANGED <<down, entries>>
       ELSE /\ IF entries[u].assoc \in Gnb THEN Send(entries[u].assoc, ReleaseCommand(m.id))
               ELSE UNCHANGED down
            /\ register_ue(u, g, m.id, m.ran, security[tmsi].key, security[tmsi].dl)
    /\ UNCHANGED <<auth, next_id, security, index, ue_contexts, authVars>>

CancelAcknowledge(id) == [type |-> "HandoverCancelAcknowledge", id |-> id]

handle_handover_cancel_silently(g, m, answer) ==
    /\ m.type = "HandoverCancel" /\ answer = "ok"
    /\ Send(g, CancelAcknowledge(m.id))
    /\ UNCHANGED <<auth, next_id, entries, security, index, ue_contexts, authVars>>

\* The SMF is told, the recorded target is told to release, the source gets
\* its acknowledgement in any case.
handle_handover_cancel(g, m, answer) ==
    LET tmsi == cold_lookup(m.id)
        target == IF tmsi = 0 THEN "none" ELSE ue_contexts[security[tmsi].ue].target IN
    /\ m.type = "HandoverCancel" /\ answer = "ok"
    /\ down' = Sent(IF target \in named THEN Sent(down, target, ReleaseCommand(m.id)) ELSE down,
                    g, CancelAcknowledge(m.id))
    /\ UNCHANGED <<auth, next_id, entries, security, index, ue_contexts, authVars>>

----------------------------------------------------------------------------
(***************************************************************************)
(* handle_association: the read loop.                                      *)
(***************************************************************************)
handle_association(g, answer) ==
    /\ open[g] /\ busy[g] = NotBusy /\ up[g] # << >>
    /\ up' = [up EXCEPT ![g] = Tail(@)]
    /\ LET m == Head(up[g]) IN
       \/ handle_ng_setup_request(g, m, answer)
       \/ deliver_reply_if_pending(g, m, answer) /\ UNCHANGED <<named, busy>>
       \/ handle_handover_required(g, m, answer) /\ UNCHANGED named
       \/ /\ \/ handle_handover_cancel(g, m, answer)
             \/ handle_handover_notify(g, m, answer)
             \/ handle_initial_ue_message(g, m, answer)
             \/ handle_service_request(g, m, answer)
             \/ uplink_nas_by_phase(g, m, answer)
             \/ handle_ue_context_release_request(g, m, answer)
             \/ handle_ue_context_release_complete(g, m, answer)
             \/ handle_path_switch_request(g, m, answer)
          /\ UNCHANGED <<named, relay, busy>>
    /\ UNCHANGED <<open, link>>

\* receive() returns nothing once the gNB has gone and the queue is empty; other
\* UEs' entries that point here point to a socket that is no more.
association_closed(g) ==
    /\ open[g] /\ busy[g] = NotBusy /\ ~link[g] /\ up[g] = << >>
    /\ open' = [open EXCEPT ![g] = FALSE]
    /\ entries' = [u \in UE |-> IF u = auth[g].supi THEN NoEntry
                                ELSE IF entries[u].assoc = g
                                     THEN [entries[u] EXCEPT !.assoc = "gone"] ELSE entries[u]]
    /\ named' = named \ {g}
    /\ auth' = [auth EXCEPT ![g] = UeAuthState]
    /\ UNCHANGED <<link, relay, busy, next_id, security, index, ue_contexts, up, down, authVars>>

\* run_ngap_lifecycle: a new association gets a thread of its own.
accept(g) ==
    /\ ~open[g]
    /\ open' = [open EXCEPT ![g] = TRUE] /\ link' = [link EXCEPT ![g] = TRUE]
    /\ up' = [up EXCEPT ![g] = <<[type |-> "NGSetupRequest"]>>]
    /\ UNCHANGED <<named, relay, busy, auth, next_id, entries, security, index, ue_contexts, down,
                   authVars>>

\* POST n1-n2-messages, on the SBI server's thread.
N1N2MessageTransfer(u) ==
    /\ ue_contexts[u].exists /\ send_dl_nas_transport(u)
    /\ UNCHANGED <<open, link, named, relay, busy, auth, next_id, security, index, ue_contexts, up,
                   authVars>>

\* The process restarts: what is in Redis stays, AMF-UE-NGAP-IDs start at 1.
RestartAmf ==
    /\ open' = [g \in Gnb |-> FALSE] /\ link' = [g \in Gnb |-> FALSE]
    /\ named' = {} /\ relay' = [g \in Gnb |-> NotAwaiting] /\ busy' = [g \in Gnb |-> NotBusy]
    /\ auth' = [g \in Gnb |-> UeAuthState]
    /\ next_id' = 1
    /\ entries' = [u \in UE |-> NoEntry]
    /\ ue_contexts' = [u \in UE |-> NoUeContext]
    /\ up' = [g \in Gnb |-> << >>] /\ down' = [g \in Gnb |-> << >>]
    /\ UNCHANGED <<security, index, authVars>>
=============================================================================
