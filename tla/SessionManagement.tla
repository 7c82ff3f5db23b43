------------------------ MODULE SessionManagement ------------------------
(***************************************************************************)
(* The SMF: Create, Modify and Release of an SM context, the PCF's policy  *)
(* notification, the handler of the UPF's usage reports, and the one PFCP  *)
(* socket they share.  Each HTTP handler runs on any of several threads    *)
(* and each usage report starts a detached one; a store is locked for one  *)
(* call, never across a get and the update that follows it.                *)
(*                                                                         *)
(* An SM context is a JSON object: what matters is which keys it holds.    *)
(***************************************************************************)
EXTENDS UserPlane

CONSTANTS
    MaxSessions,   \* bound: CreateSMContext requests, hence SM context references
    Grants,        \* octets the CHF may grant in an answer
    MaxAttempts,   \* kN1Retries (3)
    MaxInputs,     \* bound: HTTP requests and usage reports handled, and repeated
                   \* PFCP requests that are not lost, all together
    SeqSpace,      \* PFCP sequence numbers on the wire (2^24)
    FirstCalls     \* values of next_sequence_number_ a behaviour may start from

ASSUME SessionManagementAssumption ==
    /\ Grants \subseteq Nat \ {0} /\ MaxSessions \in Nat
    /\ MaxAttempts \in Nat \ {0} /\ SeqSpace \in Nat \ {0} /\ FirstCalls \subseteq Nat
    /\ MaxInputs \in Nat

VARIABLES
    associated,    \* UpfEndpointStore holds the UPF's address
    contexts,      \* references SmContextStore holds
    ctx,           \* reference -> keys of its JSON object
    create,        \* the CreateSMContext handlers
    write,         \* the pcf-notify and modify handlers that write a context
    release,       \* the ReleaseSMContext handlers
    reauth,        \* the detached threads of usage reports
    nextCpSeid,    \* next_cp_seid
    cpSession,     \* CpSeidSessionStore
    invocation,    \* ChargingDataInvocationSeqStore, 0 for an unknown resource
    nextCall,      \* next_sequence_number_
    pending,       \* pending_responses_
    repeats,       \* repeated requests that reached the network
    open,          \* CHF: charging data resources not released
    n40Calls       \* history: N40 requests <<session, invocation number, sender>>

smfVars == <<associated, contexts, ctx, create, write, release, reauth, nextCpSeid,
             cpSession, invocation, nextCall, pending, repeats, open, n40Calls>>
storeVars == <<contexts, ctx>>
callVars == <<nextCall, pending, repeats>>
chargeVars == <<invocation, open, n40Calls>>

Keys == {"smPolicyId", "chargingDataRef", "upSeid", "pcfPolicyUpdate", "hoState"}
Sessions == 1..MaxSessions
CpSeids == Sessions
Inputs == 1..MaxInputs
NoSession == [session |-> 0]

NewCreate == [pc |-> "new", copy |-> {}, grant |-> 0, cpSeid |-> 0, call |-> 0,
              attempt |-> 0, upSeid |-> 0]
NewWrite == [pc |-> "new", session |-> 0, copy |-> {}]
NewRelease == [pc |-> "new", session |-> 0, copy |-> {}]
NewReauth == [pc |-> "new", session |-> 0, upSeid |-> 0, invocation |-> 0, used |-> 0,
              grant |-> 0, call |-> 0, attempt |-> 0]

SmfInit ==
    /\ associated = FALSE
    /\ contexts = {}
    /\ ctx = [s \in Sessions |-> {}]
    /\ create = [s \in Sessions |-> NewCreate]
    /\ write = [w \in Inputs |-> NewWrite]
    /\ release = [r \in Inputs |-> NewRelease]
    /\ reauth = [u \in Inputs |-> NewReauth]
    /\ nextCpSeid = 1
    /\ cpSession = [c \in CpSeids |-> NoSession]
    /\ invocation = [s \in Sessions |-> 0]
    /\ nextCall \in FirstCalls
    /\ pending = {}
    /\ repeats = 0
    /\ open = {}
    /\ n40Calls = {}

(* Requests and reports are numbered as they come in.                       *)
Handled ==
    LET Started(f) == Cardinality({i \in DOMAIN f : f[i].pc # "new"}) IN
    Started(create) + Started(write) + Started(release) + Started(reauth) + repeats

Arrives(i) == i = Handled + 1

---------------------------------------------------------------------------
(* SmContextStore.                                                          *)

(* Mutant: writing a context that was removed stores it again.              *)
update_Inserts(s, keys) ==
    /\ ctx' = [ctx EXCEPT ![s] = keys]
    /\ contexts' = contexts \cup {s}

(* update replaces the whole object, and refuses a reference not held.      *)
update(s, keys) ==
    /\ ctx' = IF s \in contexts THEN [ctx EXCEPT ![s] = keys] ELSE ctx
    /\ UNCHANGED contexts

(* ChargingDataInvocationSeqStore::get_and_advance: the number handed out,  *)
(* 2 for a resource it does not know, and what the store keeps.             *)
Invocation(s) == IF invocation[s] = 0 THEN 2 ELSE invocation[s]

get_and_advance(s) ==
    invocation' = [invocation EXCEPT ![s] = IF @ = 0 THEN 0 ELSE @ + 1]

---------------------------------------------------------------------------
(* PfcpPeer: a caller waits for the response with its sequence number, and  *)
(* repeats the request when none came in time.                              *)

(* SMF's share of a grant before the Volume Threshold: 90 %, truncated.     *)
Threshold(grant) == (grant * 9) \div 10

(* A sequence number on the wire has 24 bits of the 32 a caller counts.     *)
Wire(call) == call % SeqSpace

EstablishRequest(c) ==
    [type |-> "establish", seq |-> Wire(c.call), call |-> c.call, attempt |-> c.attempt,
     cpSeid |-> c.cpSeid, hasUrr |-> c.grant # 0, threshold |-> Threshold(c.grant),
     quota |-> c.grant]

(* The new thresholds count from the usage the report carried.              *)
ModifyRequest(u) ==
    [type |-> "modify", seq |-> Wire(u.call), call |-> u.call, attempt |-> u.attempt,
     seid |-> u.upSeid, threshold |-> u.used + Threshold(u.grant),
     quota |-> u.used + u.grant]

(* Mutant: any response will do.                                            *)
Responses_Unpaired(call) == pending

(* A request repeated after a timeout, with its attempt counted; sending    *)
(* fails, or the datagram is lost, or it gets through.                      *)
Repeat(m) ==
    \/ Handled < MaxInputs /\ repeats' = repeats + 1 /\ net' = net \cup {m}
    \/ UNCHANGED <<repeats, net>>

(* What a caller finds when it wakes up: the response kept under the number *)
(* it allocated, all 32 bits of it.  Responses are kept under the 24 bits   *)
(* the wire carried: from the 2^24th request on a caller finds nothing,     *)
(* repeats and gives up.                                                    *)
Responses(call) == {p \in pending : p.seq = call}

(* receive_loop, for a response: stored under its number whoever waits for  *)
(* it, replacing one stored before.                                         *)
ReceiveResponse(m) ==
    /\ m \in net /\ m.type \in {"established", "modified"}
    /\ net' = net \ {m}
    /\ pending' = {p \in pending : p.seq # m.seq} \cup {m}
    /\ UNCHANGED <<associated, storeVars, create, write, release, reauth, nextCpSeid,
                   cpSession, chargeVars, nextCall, repeats>>

(* run_pfcp_lifecycle: it repeats the Association Setup until it succeeds.  *)
Associate ==
    /\ ~associated /\ associated' = TRUE
    /\ UNCHANGED <<net, storeVars, create, write, release, reauth, nextCpSeid, cpSession,
                   callVars, chargeVars>>

---------------------------------------------------------------------------
(* POST /sm-contexts                                                        *)

At(s, pc) == create[s].pc = pc
Go(s, pc) == create' = [create EXCEPT ![s].pc = pc, ![s].copy = {}]

(* The handler returns; the uplink TEID is what the gNB has been told.      *)
Return(s) ==
    create' = [create EXCEPT ![s] = [NewCreate EXCEPT !.pc = "done",
                                                      !.upSeid = create[s].upSeid]]

(* The NSACF admits the session, or refuses it and nothing is stored.       *)
CreateSMContext(s) ==
    /\ At(s, "new") /\ Handled < MaxInputs
    /\ \A z \in 1..(s - 1) : ~At(z, "new")
    /\ \/ contexts' = contexts \cup {s} /\ Go(s, "policy")
       \/ UNCHANGED contexts /\ Return(s)
    /\ UNCHANGED <<net, associated, ctx, write, release, reauth, nextCpSeid, cpSession,
                   callVars, chargeVars>>

(* CreateSMPolicy at the PCF, which from then on may notify; a failure      *)
(* removes the context and fails the request.                               *)
CreateSMPolicy(s) ==
    /\ At(s, "policy")
    /\ \/ UNCHANGED contexts /\ Go(s, "decided")
       \/ contexts' = contexts \ {s} /\ Return(s)
    /\ UNCHANGED <<net, associated, ctx, write, release, reauth, nextCpSeid, cpSession,
                   callVars, chargeVars>>

StoreDecision(s) ==
    /\ At(s, "decided")
    /\ update(s, {"smPolicyId"})
    /\ Go(s, "charging")
    /\ UNCHANGED <<net, associated, write, release, reauth, nextCpSeid, cpSession,
                   callVars, chargeVars>>

(* Nchf_ConvergedCharging_Create, with or without a grant; its failure is   *)
(* only logged.                                                             *)
ChargingDataCreate(s) ==
    /\ At(s, "charging")
    /\ \/ /\ \E g \in Grants \cup {0} :
                create' = [create EXCEPT ![s].pc = "ref", ![s].grant = g,
                                         ![s].copy = ctx[s]]
          /\ invocation' = [invocation EXCEPT ![s] = 2]
          /\ open' = open \cup {s}
          /\ n40Calls' = n40Calls \cup {<<s, 1, <<"create", 1>>>>}
       \/ Go(s, "n4") /\ UNCHANGED chargeVars
    /\ UNCHANGED <<net, associated, storeVars, write, release, reauth, nextCpSeid,
                   cpSession, callVars>>

StoreChargingDataRef(s) ==
    /\ At(s, "ref")
    /\ update(s, create[s].copy \cup {"chargingDataRef"})
    /\ Go(s, "n4")
    /\ UNCHANGED <<net, associated, write, release, reauth, nextCpSeid, cpSession,
                   callVars, chargeVars>>

(* perform_n4_session_establishment, skipped while no UPF is associated.    *)
N4Establish(s) ==
    /\ At(s, "n4")
    /\ \/ /\ associated
          /\ create' = [create EXCEPT ![s].pc = "await", ![s].cpSeid = nextCpSeid,
                                      ![s].call = nextCall, ![s].attempt = 1]
          /\ nextCpSeid' = nextCpSeid + 1
          /\ nextCall' = nextCall + 1
          /\ net' = net \cup {EstablishRequest(create'[s])}
       \/ /\ ~associated
          /\ Return(s) /\ UNCHANGED <<net, nextCpSeid, nextCall>>
    /\ UNCHANGED <<associated, storeVars, write, release, reauth, cpSession,
                   pending, repeats, chargeVars>>

(* send_request_and_await_response, in the establishment: the response, or  *)
(* a timeout that repeats the request or gives up (Create succeeds anyway). *)
AwaitEstablishment(s) ==
    /\ At(s, "await")
    /\ \/ \E p \in Responses(create[s].call) :
             /\ pending' = pending \ {p}
             /\ create' = [create EXCEPT ![s].pc = "register", ![s].upSeid = p.seid]
             /\ UNCHANGED <<net, repeats>>
       \/ /\ Responses(create[s].call) = {}
          /\ create[s].attempt < MaxAttempts
          /\ create' = [create EXCEPT ![s].attempt = @ + 1]
          /\ Repeat(EstablishRequest(create'[s]))
          /\ UNCHANGED pending
       \/ /\ Responses(create[s].call) = {}
          /\ create[s].attempt = MaxAttempts
          /\ Return(s) /\ UNCHANGED <<net, pending, repeats>>
    /\ UNCHANGED <<associated, storeVars, write, release, reauth, nextCpSeid, cpSession,
                   nextCall, chargeVars>>

(* A session with a URR is registered for its usage reports first.          *)
RegisterSession(s) ==
    /\ At(s, "register")
    /\ cpSession' = IF create[s].grant = 0 THEN cpSession
                    ELSE [cpSession EXCEPT ![create[s].cpSeid] =
                             [session |-> s, upSeid |-> create[s].upSeid]]
    /\ create' = [create EXCEPT ![s].pc = "save", ![s].copy = ctx[s]]
    /\ UNCHANGED <<net, associated, storeVars, write, release, reauth, nextCpSeid,
                   callVars, chargeVars>>

(* ... and then the context stores the UPF's SEID and the uplink TEID, from *)
(* where a gNB is told of it.  The 201 follows.                             *)
StoreUpSeid(s) ==
    /\ At(s, "save")
    /\ update(s, create[s].copy \cup {"upSeid"})
    /\ Return(s)
    /\ UNCHANGED <<net, associated, write, release, reauth, nextCpSeid, cpSession,
                   callVars, chargeVars>>

---------------------------------------------------------------------------
(* pcf-notify and modify: read the context, write it back with one key set. *)

ReadContext(w, s, key) ==
    /\ Arrives(w)
    /\ s \in contexts
    /\ write' = [write EXCEPT ![w] = [pc |-> key, session |-> s, copy |-> ctx[s]]]
    /\ UNCHANGED <<net, associated, storeVars, create, release, reauth, nextCpSeid,
                   cpSession, callVars, chargeVars>>

(* The PCF knows the callback as soon as it handled CreateSMPolicy.         *)
pcf_notify(w) ==
    \E s \in Sessions : create[s].pc \notin {"new", "policy"}
                        /\ ReadContext(w, s, "pcfPolicyUpdate")

(* The AMF knows the reference from the 201.                                *)
modify(w) ==
    \E s \in Sessions : At(s, "done") /\ ReadContext(w, s, "hoState")

WriteContext(w) ==
    /\ write[w].pc \in Keys
    /\ update(write[w].session, write[w].copy \cup {write[w].pc})
    /\ write' = [write EXCEPT ![w] = [NewWrite EXCEPT !.pc = "done"]]
    /\ UNCHANGED <<net, associated, create, release, reauth, nextCpSeid, cpSession,
                   callVars, chargeVars>>

---------------------------------------------------------------------------
(* POST /sm-contexts/{ref}/release                                          *)

ReleaseSMContext(r) ==
    /\ Arrives(r)
    /\ \E s \in contexts :
          /\ At(s, "done")
          /\ release' = [release EXCEPT ![r] = [pc |-> "charging", session |-> s,
                                                copy |-> ctx[s]]]
    /\ UNCHANGED <<net, associated, storeVars, create, write, reauth, nextCpSeid,
                   cpSession, callVars, chargeVars>>

(* Mutant: Release always sends number 2.                                   *)
ChargingDataRelease_Two(r) ==
    LET s == release[r].session IN
    /\ release[r].pc = "charging"
    /\ n40Calls' = n40Calls \cup {<<s, 2, <<"release", r>>>>}
    /\ open' = open \ {s}
    /\ release' = [release EXCEPT ![r].pc = "remove"]
    /\ UNCHANGED <<net, associated, storeVars, create, write, reauth, nextCpSeid,
                   cpSession, callVars, invocation>>

(* Nchf_ConvergedCharging_Release, if the context as it was read names a    *)
(* charging data resource; the CHF may be unreachable.                      *)
ChargingDataRelease(r) ==
    LET s == release[r].session IN
    /\ release[r].pc = "charging"
    /\ \/ /\ "chargingDataRef" \in release[r].copy
          /\ get_and_advance(s)
          /\ n40Calls' = n40Calls \cup {<<s, Invocation(s), <<"release", r>>>>}
          /\ open' \in {open, open \ {s}}
       \/ "chargingDataRef" \notin release[r].copy /\ UNCHANGED chargeVars
    /\ release' = [release EXCEPT ![r].pc = "remove"]
    /\ UNCHANGED <<net, associated, storeVars, create, write, reauth, nextCpSeid,
                   cpSession, callVars>>

(* Neither the UPF's session nor the SEID's registration is removed.        *)
RemoveContext(r) ==
    /\ release[r].pc = "remove"
    /\ contexts' = contexts \ {release[r].session}
    /\ release' = [release EXCEPT ![r] = [NewRelease EXCEPT !.pc = "done"]]
    /\ UNCHANGED <<net, associated, ctx, create, write, reauth, nextCpSeid, cpSession,
                   callVars, chargeVars>>

---------------------------------------------------------------------------
(* Usage reports.                                                           *)

(* The session report handler, on the receive thread: it takes the number   *)
(* of the N40 call and leaves the call to a detached thread.                *)
session_report_handler(m, u) ==
    /\ m \in net /\ m.type = "report"
    /\ net' = net \ {m}
    /\ LET info == cpSession[m.seid] IN
       IF info # NoSession
       THEN /\ Arrives(u)
            /\ get_and_advance(info.session)
            /\ reauth' = [reauth EXCEPT ![u] =
                  [NewReauth EXCEPT !.pc = "update", !.session = info.session,
                                    !.upSeid = info.upSeid, !.used = m.total,
                                    !.invocation = Invocation(info.session)]]
       ELSE UNCHANGED <<invocation, reauth>>
    /\ UNCHANGED <<associated, storeVars, create, write, release, nextCpSeid, cpSession,
                   callVars, open, n40Calls>>

(* Nchf_ConvergedCharging_Update, and the Session Modification that carries *)
(* a new grant to the UPF.  A released resource is answered 404.            *)
ChargingDataUpdate(u) ==
    /\ reauth[u].pc = "update"
    /\ n40Calls' = n40Calls \cup
          {<<reauth[u].session, reauth[u].invocation, <<"update", u>>>>}
    /\ \/ /\ reauth[u].session \in open
          /\ \E g \in Grants :
                reauth' = [reauth EXCEPT ![u].pc = "await", ![u].grant = g,
                                         ![u].call = nextCall, ![u].attempt = 1]
          /\ nextCall' = nextCall + 1
          /\ net' = net \cup {ModifyRequest(reauth'[u])}
       \/ /\ reauth' = [reauth EXCEPT ![u] = [NewReauth EXCEPT !.pc = "done"]]
          /\ UNCHANGED <<net, nextCall>>
    /\ UNCHANGED <<associated, storeVars, create, write, release, nextCpSeid, cpSession,
                   pending, repeats, invocation, open>>

(* send_request_and_await_response, in the modification: nothing is done    *)
(* with the outcome.                                                        *)
AwaitModification(u) ==
    /\ reauth[u].pc = "await"
    /\ \/ \E p \in Responses(reauth[u].call) :
             /\ pending' = pending \ {p}
             /\ reauth' = [reauth EXCEPT ![u] = [NewReauth EXCEPT !.pc = "done"]]
             /\ UNCHANGED <<net, repeats>>
       \/ /\ Responses(reauth[u].call) = {}
          /\ reauth[u].attempt < MaxAttempts
          /\ reauth' = [reauth EXCEPT ![u].attempt = @ + 1]
          /\ Repeat(ModifyRequest(reauth'[u]))
          /\ UNCHANGED pending
       \/ /\ Responses(reauth[u].call) = {}
          /\ reauth[u].attempt = MaxAttempts
          /\ reauth' = [reauth EXCEPT ![u] = [NewReauth EXCEPT !.pc = "done"]]
          /\ UNCHANGED <<net, pending, repeats>>
    /\ UNCHANGED <<associated, storeVars, create, write, release, nextCpSeid, cpSession,
                   nextCall, chargeVars>>
==========================================================================
