---------------------------- MODULE Registration ----------------------------
(***************************************************************************)
(* UEs and gNBs around the AMF, the AUSF and the UDM: registration with    *)
(* 5G-AKA and resynchronisation, service requests, release, Xn and N2      *)
(* handover, and what goes wrong: radio contact and associations are lost, *)
(* calls fail, replies come too late, AMF, AUSF and UDM restart.           *)
(*                                                                         *)
(* UE and gNB are not part of the program: they follow TS 24.501 and       *)
(* TS 38.413, with a NAS COUNT of their own, and a gNB reports a UE it     *)
(* lost, as soon as it knows the UE's id at the AMF.  What UEs, gNBs,      *)
(* operators and faults begin counts as an event, of which there are       *)
(* MaxEvents; what follows from it does not.                               *)
(***************************************************************************)
EXTENDS AccessMobility

CONSTANTS MaxEvents

ASSUME RegistrationAssumption == MaxEvents \in Nat

VARIABLES
    ue,           \* per UE: see UeTypeOK
    served,       \* per gNB: the AMF-UE-NGAP-IDs it has a UE context for
    lost,         \* per gNB: RAN-UE-NGAP-IDs of UEs lost before it knew their id
    prepared,     \* per gNB: the ids it holds resources of a handover for
    ho,           \* per gNB: the handover it is the source of
    rans,         \* RAN-UE-NGAP-IDs given out
    events,
    moved,        \* history, per UE: whether and how it last changed gNB
    disturbed,    \* history: targets whose handover was cut short by a time-out,
                  \* a lost association, a new registration of the UE or a second
                  \* handover to them
    admitted      \* history: sources whose last required handover its target admitted

ranVars == <<ue, served, lost, prepared, ho, rans>>
vars == <<amfVars, ranVars, events, moved, disturbed, admitted>>

NoHandover == [stage |-> "none", id |-> 0, target |-> "none"]

Idle(x) == [x EXCEPT !.st = "idle", !.at = "none", !.id = 0, !.ran = 0]

TypeOK ==
    /\ AuthTypeOK /\ AmfTypeOK
    /\ \A u \in UE : /\ ue[u].st \in {"idle", "registering", "accepted", "registered",
                                      "requesting"}
                     /\ ue[u].at \in Gnb \cup {"none"}
    /\ \A g \in Gnb : /\ lost[g] \subseteq 1..rans
                      /\ served[g] \subseteq 1..MaxIds /\ prepared[g] \subseteq 1..MaxIds

\* A 5G-TMSI that this AMF's Redis has no context of.
ForeignTmsi == -1

\* The USIM may have seen the number the UDM starts with, and the UE may have
\* been registered elsewhere.
Init ==
    /\ AmfInit
    /\ \E n \in {seed - 1, seed}, t \in {0, ForeignTmsi} :
         ue = [u \in UE |-> [st |-> "idle", at |-> "none", ran |-> 0, id |-> 0, sqn |-> n,
                             vec |-> 0, key |-> 0, ul |-> 0, tmsi |-> t, session |-> FALSE,
                             excused |-> FALSE, overtaken |-> FALSE]]
    /\ served = [g \in Gnb |-> {}] /\ lost = [g \in Gnb |-> {}] /\ prepared = [g \in Gnb |-> {}]
    /\ ho = [g \in Gnb |-> NoHandover]
    /\ rans = 0 /\ events = 0
    /\ moved = [u \in UE |-> "no"] /\ disturbed = {} /\ admitted = {}

Event == events < MaxEvents /\ events' = events + 1

\* What a gNB sends.
Report(g, ms) == up' = [up EXCEPT ![g] = @ \o ms]

coreVars == <<open, link, named, relay, busy, auth, next_id, entries, security, index,
              ue_contexts, authVars>>

----------------------------------------------------------------------------
(***************************************************************************)
(* What UEs and gNBs begin.                                                *)
(***************************************************************************)
\* Messages of an earlier connection may still be on their way.
StartRegistration(u, g) ==
    /\ Event
    /\ ue[u].st = "idle" /\ link[g]
    /\ rans' = rans + 1
    /\ ue' = [ue EXCEPT ![u] =
                 [@ EXCEPT !.st = "registering", !.at = g, !.ran = rans + 1, !.id = 0,
                           !.vec = 0, !.session = FALSE,
                           !.excused = (up[g] \o down[g]) \notin {<< >>, <<[type |-> "NGSetupRequest"]>>}]]
    /\ Report(g, <<[type |-> "RegistrationRequest", ue |-> u, ran |-> rans + 1]>>)
    /\ UNCHANGED <<coreVars, down, served, lost, prepared, ho, moved, disturbed, admitted>>

StartService(u, g) ==
    /\ Event
    /\ ue[u].st = "idle" /\ ue[u].tmsi # 0 /\ link[g]
    /\ rans' = rans + 1
    /\ ue' = [ue EXCEPT ![u] = [@ EXCEPT !.st = "requesting", !.at = g, !.ran = rans + 1,
                                         !.id = 0, !.ul = ue[u].ul + 1, !.session = TRUE]]
    /\ Report(g, <<[type |-> "ServiceRequest", tmsi |-> ue[u].tmsi, key |-> ue[u].key,
                    count |-> ue[u].ul, ran |-> rans + 1]>>)
    /\ UNCHANGED <<coreVars, down, served, lost, prepared, ho, moved, disturbed, admitted>>

\* The secured messages a UE sends of itself, each with the next COUNT.
SendSecured(u, type, x) ==
    /\ ue' = [ue EXCEPT ![u] = [x EXCEPT !.ul = @ + 1]]
    /\ Report(ue[u].at, <<[type |-> type, key |-> ue[u].key, count |-> ue[u].ul]>>)
    /\ UNCHANGED <<coreVars, down, served, lost, prepared, ho, rans, events, moved, disturbed, admitted>>

CompleteRegistration(u) ==
    /\ ue[u].st = "accepted"
    /\ SendSecured(u, "RegistrationComplete", [ue[u] EXCEPT !.st = "registered"])

RequestPduSession(u) ==
    /\ ue[u].st = "registered" /\ ~ue[u].session
    /\ SendSecured(u, "PduSessionEstablishmentRequest", [ue[u] EXCEPT !.session = TRUE])

\* A handover the gNB had prepared for the UE is cancelled first.
LoseRadio(u) ==
    LET g == ue[u].at
        cancels == ho[g].stage = "commanded" /\ ho[g].id = ue[u].id IN
    /\ Event
    /\ g # "none"
    /\ ue' = [ue EXCEPT ![u] = Idle(@)]
    /\ ho' = IF cancels THEN [ho EXCEPT ![g].stage = "cancelling"] ELSE ho
    /\ Report(g, (IF cancels THEN <<[type |-> "HandoverCancel", id |-> ue[u].id]>> ELSE << >>)
                 \o (IF ue[u].id = 0 THEN << >> ELSE <<[type |-> "UEContextReleaseRequest"]>>))
    /\ lost' = IF ue[u].id = 0 THEN [lost EXCEPT ![g] = @ \cup {ue[u].ran}] ELSE lost
    /\ UNCHANGED <<coreVars, down, served, prepared, rans, moved, disturbed, admitted>>

\* The UE arrives at h by Xn; g drops its context without the AMF.
SwitchPath(u, h) ==
    LET g == ue[u].at IN
    /\ Event
    /\ ue[u].st = "registered" /\ g # h /\ link[h] /\ ho[g] = NoHandover
    /\ rans' = rans + 1
    /\ ue' = [ue EXCEPT ![u].at = h, ![u].ran = rans + 1]
    /\ served' = [served EXCEPT ![g] = @ \ {ue[u].id}, ![h] = @ \cup {ue[u].id}]
    /\ moved' = [moved EXCEPT ![u] = "Xn"]
    /\ Report(h, <<[type |-> "PathSwitchRequest", id |-> ue[u].id, ran |-> rans + 1]>>)
    /\ UNCHANGED <<coreVars, down, lost, prepared, ho, disturbed, admitted>>

RequireHandover(u, h) ==
    LET g == ue[u].at IN
    /\ Event
    /\ ue[u].st = "registered" /\ g # h /\ ho[g] = NoHandover
    /\ ho' = [ho EXCEPT ![g] = [stage |-> "required", id |-> ue[u].id, target |-> h]]
    /\ Report(g, <<[type |-> "HandoverRequired", id |-> ue[u].id, target |-> h]>>)
    /\ admitted' = admitted \ {g}
    /\ UNCHANGED <<coreVars, down, ue, served, lost, prepared, rans, moved, disturbed>>

\* After HandoverCommand: the UE goes over, or the source changes its mind.
ExecuteHandover(u) ==
    LET g == ue[u].at
        h == ho[g].target IN
    /\ g # "none" /\ ho[g].stage = "commanded" /\ ho[g].id = ue[u].id
    /\ link[h] /\ ue[u].id \in prepared[h]
    /\ rans' = rans + 1
    /\ ue' = [ue EXCEPT ![u].at = h, ![u].ran = rans + 1]
    /\ ho' = [ho EXCEPT ![g] = NoHandover]
    /\ prepared' = [prepared EXCEPT ![h] = @ \ {ue[u].id}]
    /\ served' = [served EXCEPT ![h] = @ \cup {ue[u].id}]
    /\ moved' = [moved EXCEPT ![u] = "N2"]
    /\ Report(h, <<[type |-> "HandoverNotify", id |-> ue[u].id, ran |-> rans + 1]>>)
    /\ UNCHANGED <<coreVars, down, lost, events, disturbed, admitted>>

CancelHandover(g) ==
    /\ ho[g].stage = "commanded"
    /\ ho' = [ho EXCEPT ![g].stage = "cancelling"]
    /\ Report(g, <<[type |-> "HandoverCancel", id |-> ho[g].id]>>)
    /\ UNCHANGED <<coreVars, down, ue, served, lost, prepared, rans, events, moved, disturbed, admitted>>

----------------------------------------------------------------------------
(***************************************************************************)
(* What gNBs and UEs do with a message.  A NAS message goes to the UE of   *)
(* its RAN-UE-NGAP-ID, which tells the gNB the UE's AMF-UE-NGAP-ID.        *)
(***************************************************************************)
Uplink(type) == [type |-> type]

\* AKA in the USIM: a number that is not fresh is answered with its own.
Authenticate(x, m) ==
    IF vectors[m.key].sqn > x.sqn
    THEN <<[x EXCEPT !.sqn = vectors[m.key].sqn, !.vec = m.key],
           <<[type |-> "AuthenticationResponse", res |-> m.key]>>>>
    ELSE <<x, <<[type |-> "AuthenticationFailure",
                 auts |-> [rand |-> m.key, sqn |-> x.sqn]]>>>>

\* The UE after message m, and its answer.
Reaction(x, m) ==
    CASE m.type = "AuthenticationRequest" /\ x.st = "registering" -> Authenticate(x, m)
      [] m.type = "SecurityModeCommand" /\ x.st = "registering" /\ m.key = x.vec ->
             <<[x EXCEPT !.key = m.key, !.ul = 1, !.tmsi = 0],
               <<[type |-> "SecurityModeComplete", key |-> m.key, count |-> 0]>>>>
      [] m.type = "RegistrationAccept" /\ x.st = "registering" /\ m.key = x.key ->
             <<[x EXCEPT !.st = "accepted", !.tmsi = m.tmsi], << >>>>
      [] m.type = "ServiceAccept" /\ x.st = "requesting" /\ m.key = x.key ->
             <<[x EXCEPT !.st = "registered"], << >>>>
      [] m.type = "RegistrationReject" /\ x.st = "registering" /\ m.key = x.key ->
             <<Idle(x), <<Uplink("UEContextReleaseRequest")>>>>
      [] m.type = "ServiceReject" /\ x.st = "requesting" ->
             <<Idle([x EXCEPT !.tmsi = 0]), <<Uplink("UEContextReleaseRequest")>>>>
      [] OTHER -> <<x, << >>>>

NasTypes == {"AuthenticationRequest", "SecurityModeCommand", "RegistrationAccept",
             "RegistrationReject", "ServiceAccept", "ServiceReject", "DlNasTransport"}

ReceiveNas(g, m) ==
    /\ m.type \in NasTypes
    /\ LET us == {u \in UE : ue[u].at = g /\ ue[u].ran = m.ran} IN
       IF us = {}
       THEN /\ IF m.ran \in lost[g]
               THEN /\ Report(g, <<Uplink("UEContextReleaseRequest")>>)
                    /\ served' = [served EXCEPT ![g] = @ \cup {m.id}]
               ELSE UNCHANGED <<up, served>>
            /\ lost' = [lost EXCEPT ![g] = @ \ {m.ran}]
            /\ UNCHANGED ue
       ELSE \E u \in us :
              LET r == Reaction([ue[u] EXCEPT !.id = m.id], m) IN
              /\ ue' = [ue EXCEPT ![u] = r[1]]
              /\ Report(g, r[2])
              /\ served' = [served EXCEPT ![g] = @ \cup {m.id}]
              /\ UNCHANGED lost
    /\ UNCHANGED <<prepared, ho, admitted>>

\* A UE context, or the resources of a handover, is released by its id.
ReceiveReleaseCommand(g, m) ==
    /\ m.type = "UEContextReleaseCommand"
    /\ IF m.id \in served[g] \cup prepared[g]
       THEN Report(g, <<Uplink("UEContextReleaseComplete")>>) ELSE UNCHANGED up
    /\ served' = [served EXCEPT ![g] = @ \ {m.id}]
    /\ prepared' = [prepared EXCEPT ![g] = @ \ {m.id}]
    /\ ue' = [u \in UE |-> IF ue[u].at = g /\ ue[u].id = m.id /\ m.id \in served[g]
                           THEN Idle(ue[u]) ELSE ue[u]]
    /\ UNCHANGED <<lost, ho, admitted>>

ReceivePathSwitch(g, m) ==
    /\ m.type \in {"PathSwitchRequestAcknowledge", "ErrorIndication"}
    /\ ue' = [u \in UE |-> IF m.type = "ErrorIndication" /\ ue[u].at = g /\ ue[u].ran = m.ran
                           THEN Idle(ue[u]) ELSE ue[u]]
    /\ UNCHANGED <<up, served, lost, prepared, ho, admitted>>

\* The target admits the UE or not.
ReceiveHandoverRequest(g, m) ==
    /\ m.type = "HandoverRequest"
    /\ \/ /\ prepared' = [prepared EXCEPT ![g] = @ \cup {m.id}]
          /\ admitted' = admitted \cup {s \in Gnb : ho[s].target = g /\ ho[s].id = m.id}
          /\ Report(g, <<Uplink("HandoverRequestAcknowledge")>>)
       \/ /\ Report(g, <<Uplink("HandoverFailure")>>)
          /\ UNCHANGED <<prepared, admitted>>
    /\ UNCHANGED <<ue, served, lost, ho>>

\* The source of a UE it no longer has cancels at once.
ReceiveHandoverOutcome(g, m) ==
    /\ m.type \in {"HandoverCommand", "HandoverPreparationFailure", "HandoverCancelAcknowledge"}
    /\ LET here == \E u \in UE : ue[u].at = g /\ ue[u].id = m.id IN
       /\ ho' = [ho EXCEPT ![g] = IF m.type # "HandoverCommand" THEN NoHandover
                                  ELSE [@ EXCEPT !.stage = IF here THEN "commanded"
                                                           ELSE "cancelling"]]
       /\ IF m.type = "HandoverCommand" /\ ~here
          THEN Report(g, <<[type |-> "HandoverCancel", id |-> m.id]>>) ELSE UNCHANGED up
    /\ UNCHANGED <<ue, served, lost, prepared, admitted>>

Deliver(g) ==
    /\ link[g] /\ down[g] # << >>
    /\ down' = [down EXCEPT ![g] = Tail(@)]
    /\ LET m == Head(down[g]) IN
       \/ ReceiveNas(g, m)
       \/ ReceiveReleaseCommand(g, m)
       \/ ReceivePathSwitch(g, m)
       \/ ReceiveHandoverRequest(g, m)
       \/ ReceiveHandoverOutcome(g, m)
    /\ UNCHANGED <<coreVars, rans, events, moved, disturbed>>

----------------------------------------------------------------------------
(***************************************************************************)
(* Faults, and the AMF's steps with what they leave in the histories.      *)
(***************************************************************************)
LoseAssociation(g) ==
    /\ Event
    /\ link[g]
    /\ link' = [link EXCEPT ![g] = FALSE]
    /\ down' = [down EXCEPT ![g] = << >>]
    /\ ue' = [u \in UE |-> IF ue[u].at = g THEN Idle(ue[u]) ELSE ue[u]]
    /\ served' = [served EXCEPT ![g] = {}] /\ lost' = [lost EXCEPT ![g] = {}]
    /\ prepared' = [prepared EXCEPT ![g] = {}]
    /\ ho' = [ho EXCEPT ![g] = NoHandover]
    /\ disturbed' = disturbed \cup {g} \cup ({ho[g].target} \cap Gnb)
    /\ UNCHANGED <<open, named, relay, busy, auth, next_id, entries, security, index, ue_contexts,
                   up, authVars, rans, moved, admitted>>

Accept(g) == accept(g) /\ UNCHANGED <<ranVars, events, moved, disturbed, admitted>>

\* A registration on an association that an earlier one left in the middle, a
\* failed call, or the release of an earlier connection may leave the UE
\* without an answer.
Excuses(u, g, m, answer) ==
    /\ ue[u].at = g
    /\ \/ answer # "ok"
       \/ m.type = "UEContextReleaseComplete"
       \/ /\ m.type = "RegistrationRequest"
          /\ \/ auth[g].phase # "AwaitingAuthenticationResponse"
             \/ auth[g].sqn_resync_attempted

\* A registration whose authentication call fails has already put its id in the
\* place of the association's, and the gNB never learns it: the AMF then directs
\* the release of the earlier connection at an id the gNB does not know, and the
\* entry stays.
Overtakes(u, g, m, answer) ==
    m.type = "RegistrationRequest" /\ m.ue = u /\ answer # "ok" /\ entries[u].assoc = g

HandleMessage(g) ==
    \E answer \in Answers :
        /\ handle_association(g, answer)
        /\ IF answer = "ok" THEN UNCHANGED events ELSE Event
        /\ LET m == Head(up[g]) IN
           /\ ue' = [u \in UE |->
                       [ue[u] EXCEPT !.excused = @ \/ Excuses(u, g, m, answer),
                                     !.overtaken = \/ @ /\ entries'[u] = entries[u]
                                                   \/ Overtakes(u, g, m, answer)]]
           /\ disturbed' = disturbed \cup
                  {h \in Gnb : \/ \E u \in UE : /\ ue_contexts[u].target = h
                                               /\ ue_contexts'[u].target # h
                               \/ \E s, t \in Gnb : /\ s # t /\ busy'[s].target = h
                                                    /\ busy'[t].target = h}
        /\ UNCHANGED <<served, lost, prepared, ho, rans, moved, admitted>>

CloseAssociation(g) == association_closed(g) /\ UNCHANGED <<ranVars, events, moved, disturbed, admitted>>

Relay(g) == await_reply(g) /\ UNCHANGED <<ranVars, events, moved, disturbed, admitted>>

\* Ten seconds are enough unless the target is slow, which is an event.
TimeOut(g) ==
    /\ await_timeout(g)
    /\ IF busy[g].detached \/ ~link[busy[g].target] THEN UNCHANGED events ELSE Event
    /\ disturbed' = disturbed \cup {busy[g].target}
    /\ UNCHANGED <<ranVars, moved, admitted>>

Transfer(u) == Event /\ N1N2MessageTransfer(u) /\ UNCHANGED <<ranVars, moved, disturbed, admitted>>

\* The AUSF may lose the context a UE is being authenticated with.
AusfLoses ==
    /\ \/ RestartAusf
       \/ \E u \in UE : Deregister(u)
       \/ \E id \in 1..Len(contexts) : RemoveContext(id)
    /\ ue' = [u \in UE |-> [ue[u] EXCEPT !.excused = TRUE]]

UdmAdvances ==
    /\ RestartUdm \/ \E u \in UE : GenerateOtherAv(u)
    /\ UNCHANGED ue

HomeNetwork ==
    /\ Event
    /\ AusfLoses \/ UdmAdvances
    /\ UNCHANGED <<open, link, named, relay, busy, auth, next_id, entries, security, index,
                   ue_contexts, up, down, served, lost, prepared, ho, rans, moved, disturbed, admitted>>

Restart ==
    /\ Event
    /\ RestartAmf
    /\ ue' = [u \in UE |-> Idle(ue[u])]
    /\ served' = [g \in Gnb |-> {}] /\ lost' = [g \in Gnb |-> {}]
    /\ prepared' = [g \in Gnb |-> {}]
    /\ ho' = [g \in Gnb |-> NoHandover]
    /\ disturbed' = Gnb
    /\ UNCHANGED <<rans, moved, admitted>>

Next ==
    \/ \E g \in Gnb : \/ HandleMessage(g) \/ CloseAssociation(g) \/ Accept(g)
                      \/ Relay(g) \/ TimeOut(g) \/ Deliver(g)
                      \/ CancelHandover(g) \/ LoseAssociation(g)
    \/ \E u \in UE : \/ CompleteRegistration(u) \/ RequestPduSession(u)
                     \/ LoseRadio(u) \/ ExecuteHandover(u) \/ Transfer(u)
    \/ \E u \in UE, g \in Gnb : \/ StartRegistration(u, g) \/ StartService(u, g)
                               \/ SwitchPath(u, g) \/ RequireHandover(u, g)
    \/ HomeNetwork
    \/ Restart

Spec == Init /\ [][Next]_vars

----------------------------------------------------------------------------
(***************************************************************************)
(* Properties.                                                             *)
(***************************************************************************)
\* Nothing is on its way and no thread has anything to do.
Quiet ==
    \A g \in Gnb : /\ up[g] = << >> /\ down[g] = << >> /\ busy[g] = NotBusy
                  /\ open[g] = link[g]

\* A UE whose registration is under way is never left waiting: if nothing is on
\* its way any more and it has neither an accept nor a reject, then a call the
\* AMF made failed, the AUSF lost the context, or the association still carried
\* an earlier registration.  In particular a USIM whose sequence number is ahead
\* of the UDM's is served by the one resynchronisation the AMF attempts
\* (handle_uplink_nas_transport, resync_sqn).
NoSilentStall ==
    Quiet => \A u \in UE : ue[u].st = "registering" => ue[u].excused

\* At rest the NgapUeRegistry never misdirects: an entry names the association
\* and the ids by which its UE is connected now, and a UE that is not connected
\* has none.  Not claimed of UEs that changed gNB while connected: the UeAuthState
\* of the association they are at knows nothing of them; nor of an entry overtaken
\* by a registration that failed, until it changes.
EntryFresh ==
    Quiet => \A u \in UE :
                 \/ entries[u] = NoEntry \/ moved[u] # "no" \/ ue[u].overtaken
                 \/ /\ entries[u].assoc = ue[u].at
                    /\ entries[u].id = ue[u].id /\ entries[u].ran = ue[u].ran

\* A handover that is not under way holds nothing at its target: one that was
\* cancelled, refused or completed has given back, or taken over, what the
\* target reserved, unless it was disturbed.
ReservationReturned ==
    (Quiet /\ \A g \in Gnb : ho[g] = NoHandover)
    => \A h \in Gnb \ disturbed : prepared[h] = {}

\* A HandoverCommand on its way to the source means that the target admitted the
\* handover the source required last: the reply relayed is an acknowledgement,
\* and the one to this request (send_and_await_reply).
HandoverBacked ==
    \A g \in Gnb :
        (/\ \E i \in 1..Len(down[g]) : down[g][i].type = "HandoverCommand"
         /\ ho[g].target \in Gnb \ disturbed)
        => g \in admitted

\* A UE's ServiceRequest with the key of its security context carries the COUNT
\* that the store says is next.
ServiceRequestVerifies ==
    \A g \in Gnb :
        (open[g] /\ up[g] # << >>) =>
            LET m == Head(up[g]) IN
            (/\ m.type = "ServiceRequest" /\ m.tmsi \in 1..Len(security)
             /\ m.key = security[m.tmsi].key)
            => m.count = security[m.tmsi].ul

\* Once a handover is over and nothing is on its way, the UE's entry names the
\* association of the gNB the UE is at.
ReachableAfterHandover ==
    Quiet => \A u \in UE : (moved[u] = "N2" /\ ue[u].st = "registered")
                          => entries[u].assoc = ue[u].at
=============================================================================
