---------------------------- MODULE NfLifecycle ----------------------------
(***************************************************************************)
(* The NFs' side of the registry.  Every NF daemon has a copy of           *)
(* run_nrf_lifecycle on a thread of its own: wait for the NRF, get a       *)
(* token, PUT the profile until that succeeds, then for ever sleep half    *)
(* the heartbeat timer, get a token, PATCH.  A heartbeat that fails, for   *)
(* whatever reason, is logged; nothing leads back to the registration.     *)
(* hello-nf does the same once, without retries, then deregisters and      *)
(* exits.  Requests have no time-out: a caller waits for the answer or     *)
(* until its connection breaks.                                            *)
(*                                                                         *)
(* Composed with NfRegistry.  Steps take no time except where a stall is   *)
(* spent: a tick passes when every thread sleeps, or, MaxTrouble times at  *)
(* most, while some thread could run or waits for an answer.               *)
(***************************************************************************)
EXTENDS NfRegistry

CONSTANTS
    MaxTrouble    \* bound: a tick in which a thread that could run did not
                  \* counts one, a broken call, lost notification or crash three

ASSUME LifecycleAssumption == MaxTrouble \in Nat

VARIABLES
    kind,         \* per instance: which program runs it
    pc,           \* where its lifecycle thread is
    phase,        \* registering, beating, leaving
    wait,         \* ticks it still sleeps
    cached,       \* OAuth2Client: the cached token's ticks by either clock
    trouble,
    slip,         \* history: ticks since the last stamp in which the thread
                  \* was not asleep
    missed,       \* history: ticks slept since then after attempts that
                  \* did not arrive
    waited        \* history: ticks the request in flight has taken, with
                  \* those its token took to come

vars == <<registryVars, kind, pc, phase, wait, cached, trouble, slip, missed,
          waited>>

clientVars == <<kind, pc, phase, wait, cached, waited>>
historyVars == <<slip, missed>>

----------------------------------------------------------------------------
(***************************************************************************)
(* The copies.  heartBeatTimer 30 s, a heartbeat every half of that,       *)
(* retries after 5 s.                                                      *)
(***************************************************************************)
Lifecycle(seconds) ==
    [timer |-> Ticks(seconds), sleep |-> Ticks(seconds \div 2), retry |-> Ticks(5),
     once |-> FALSE]

amf_lifecycle == Lifecycle(30)
ausf_lifecycle == Lifecycle(30)
bsf_lifecycle == Lifecycle(30)
chf_lifecycle == Lifecycle(30)
eir_lifecycle == Lifecycle(30)
gmlc_lifecycle == Lifecycle(30)
lmf_lifecycle == Lifecycle(30)
nef_lifecycle == Lifecycle(30)
nsacf_lifecycle == Lifecycle(30)
nssf_lifecycle == Lifecycle(30)
pcf_lifecycle == Lifecycle(30)
scp_lifecycle == Lifecycle(30)
smf_lifecycle == Lifecycle(30)
smsf_lifecycle == Lifecycle(30)
udm_lifecycle == Lifecycle(30)
udr_lifecycle == Lifecycle(30)
upf_lifecycle == Lifecycle(30)

hello_nf == [Lifecycle(30) EXCEPT !.once = TRUE]

Lifecycles ==
    {amf_lifecycle, ausf_lifecycle, bsf_lifecycle, chf_lifecycle, eir_lifecycle,
     gmlc_lifecycle, lmf_lifecycle, nef_lifecycle, nsacf_lifecycle, nssf_lifecycle,
     pcf_lifecycle, scp_lifecycle, smf_lifecycle, smsf_lifecycle, udm_lifecycle,
     udr_lifecycle, upf_lifecycle, hello_nf}

\* OAuth2Client::get_bearer_token: 10 s before the end a token is not used.
kSafetyMargin == Ticks(10)

NoToken == [client |-> 0, server |-> -1, took |-> 0]

----------------------------------------------------------------------------
TypeOK ==
    /\ RegistryTypeOK
    /\ kind \in [NF -> Lifecycles]
    /\ pc \in [NF -> {"probing", "running", "calling", "asleep", "exited", "crashed"}]
    /\ phase \in [NF -> {"registering", "beating", "leaving"}]
    /\ wait \in [NF -> 0..3 * Grain]
    /\ cached \in [NF -> [client : 0..TokenTtl, server : -1..TokenTtl, took : Nat]]
    /\ trouble \in 0..MaxTrouble
    /\ slip \in [NF -> Nat] /\ missed \in [NF -> Nat] /\ waited \in [NF -> Nat]

Init ==
    /\ RegistryInit
    /\ kind \in [NF -> Lifecycles]
    /\ pc = [n \in NF |-> "probing"]
    /\ phase = [n \in NF |-> "registering"]
    /\ wait = [n \in NF |-> 0]
    /\ cached = [n \in NF |-> NoToken]
    /\ trouble = 0
    /\ slip = [n \in NF |-> 0] /\ missed = [n \in NF |-> 0] /\ waited = [n \in NF |-> 0]

Running(n) == pc[n] \notin {"exited", "crashed"}

Await(n) == <<n, "awaited">>

Fault == trouble + 3 <= MaxTrouble /\ trouble' = trouble + 3

----------------------------------------------------------------------------
(***************************************************************************)
(* The lifecycle thread.                                                   *)
(***************************************************************************)
\* wait_for_nrf and the probe loop: up to 300 attempts 100 ms apart (hello-nf
\* 20), after which a daemon goes on and hello-nf gives up.
Probe(n) ==
    /\ pc[n] = "probing"
    /\ \/ pc' = [pc EXCEPT ![n] = "running"] /\ UNCHANGED trouble
       \/ /\ kind[n].once /\ Fault
          /\ pc' = [pc EXCEPT ![n] = "exited"]
    /\ UNCHANGED <<registryVars, kind, phase, wait, cached, historyVars, waited>>

Send(n, op, ttl) ==
    /\ call' = [call EXCEPT ![Await(n)] = Request(op, ttl)]
    /\ pc' = [pc EXCEPT ![n] = "calling"]
    /\ UNCHANGED <<profiles, stamp, queue, sub, subops, searches, view, unsure>>

usable_without_margin(n) == cached[n].client > 0

usable(n) == cached[n].client > kSafetyMargin

\* hello-nf takes its token once and uses it to the end.
Holds(n) == usable(n) \/ (kind[n].once /\ phase[n] # "registering")

Ready(n) == pc[n] = "running" \/ (pc[n] = "asleep" /\ wait[n] = 0)

FetchToken(n) ==
    /\ Ready(n) /\ ~Holds(n)
    /\ Send(n, "token", TokenTtl)
    /\ waited' = [waited EXCEPT ![n] = 0]
    /\ UNCHANGED <<kind, phase, wait, cached, trouble, historyVars>>

MethodOf(p) == CASE p = "registering" -> "PUT" [] p = "beating" -> "PATCH"
                 [] p = "leaving" -> "DELETE"

SendRequest(n) ==
    /\ Ready(n) /\ Holds(n)
    /\ Send(n, MethodOf(phase[n]), cached[n].server)
    /\ waited' = [waited EXCEPT ![n] = cached[n].took]
    /\ UNCHANGED <<kind, phase, wait, cached, trouble, historyVars>>

Sleep(n, ticks) ==
    /\ pc' = [pc EXCEPT ![n] = "asleep"]
    /\ wait' = [wait EXCEPT ![n] = ticks]

Pause(n) == IF phase[n] = "registering" THEN kind[n].retry ELSE kind[n].sleep

AfterFailure_GivesUpRegistering(n) ==
    IF kind[n].once
    THEN pc' = [pc EXCEPT ![n] = "exited"] /\ UNCHANGED <<phase, wait>>
    ELSE Sleep(n, Pause(n)) /\ phase' = [phase EXCEPT ![n] = "beating"]

AfterFailure(n) ==
    IF kind[n].once
    THEN pc' = [pc EXCEPT ![n] = "exited"] /\ UNCHANGED <<phase, wait>>
    ELSE Sleep(n, Pause(n)) /\ UNCHANGED phase

Accepted(n, status) ==
    CASE phase[n] = "registering" -> status \in {200, 201}
      [] phase[n] = "beating" -> status = 200
      [] phase[n] = "leaving" -> status = 204

AfterSuccess(n) ==
    IF kind[n].once
    THEN /\ phase' = [phase EXCEPT ![n] = IF @ = "registering" THEN "beating" ELSE "leaving"]
         /\ pc' = [pc EXCEPT ![n] = IF phase[n] = "leaving" THEN "exited" ELSE "running"]
         /\ UNCHANGED wait
    ELSE /\ phase' = [phase EXCEPT ![n] = "beating"]
         /\ Sleep(n, kind[n].sleep)

\* fetch_token: the client's expiry counts from the answer; the token is
\* used whatever is left of it.
ReceiveToken(n) ==
    LET c == call[Await(n)] IN
    /\ pc[n] = "calling" /\ c # NoCall /\ c.op = "token" /\ c.stage = "answered"
    /\ cached' = [cached EXCEPT ![n] = [client |-> TokenTtl, server |-> c.ttl,
                                        took |-> waited[n]]]
    /\ Send(n, MethodOf(phase[n]), c.ttl)
    /\ UNCHANGED <<kind, phase, wait, trouble, historyVars, waited>>

Upto(k, cap) == IF k < cap THEN k ELSE cap

\* Where the history's counts stop.
SilenceCap == 4 * Grain + 1
DelayCap == 2 * Grain

\* History: a request that set no time stamp, and the pause that follows.
Arrived(c) ==
    c.op # "token" /\ c.stage \in {"notify", "answered"} /\ c.status \notin {401, 404}

Miss(n) ==
    missed' = [missed EXCEPT ![n] = Upto(@ + Pause(n), SilenceCap)]

ReceiveAnswer(n) ==
    LET c == call[Await(n)] IN
    /\ pc[n] = "calling" /\ c # NoCall /\ c.op # "token" /\ c.stage = "answered"
    /\ IF Accepted(n, c.status) THEN AfterSuccess(n) /\ UNCHANGED missed
                                ELSE AfterFailure(n) /\ Miss(n)
    /\ call' = [call EXCEPT ![Await(n)] = NoCall]
    /\ waited' = [waited EXCEPT ![n] = 0]
    /\ UNCHANGED <<profiles, stamp, queue, sub, subops, searches, view, unsure, kind,
                   cached, trouble, slip>>

\* A request that is left is not seen by the server, or is still worked on.
Leave(n) ==
    \/ /\ call[Await(n)].stage \in {"sent", "answered"}
       /\ call' = [call EXCEPT ![Await(n)] = NoCall]
    \/ /\ call[<<n, "abandoned">>] = NoCall /\ call[Await(n)].stage # "answered"
       /\ call' = [call EXCEPT ![Await(n)] = NoCall,
                               ![<<n, "abandoned">>] = call[Await(n)]]

\* The connection of a call breaks.
Broken(n) ==
    /\ pc[n] = "calling" /\ call[Await(n)] # NoCall
    /\ Fault
    /\ Leave(n)
    /\ AfterFailure(n)
    /\ IF Arrived(call[Await(n)]) THEN UNCHANGED missed ELSE Miss(n)
    /\ waited' = [waited EXCEPT ![n] = 0]
    /\ UNCHANGED <<profiles, stamp, queue, sub, subops, searches, view, unsure, kind,
                   cached, slip>>

\* The NRF went away under the call.
Refused(n) ==
    /\ pc[n] = "calling" /\ call[Await(n)] = NoCall
    /\ AfterFailure(n) /\ Miss(n)
    /\ waited' = [waited EXCEPT ![n] = 0]
    /\ UNCHANGED <<registryVars, kind, cached, trouble, slip>>

\* The process ends; its request, if any, is still in the server.
Crash(n) ==
    /\ Running(n) /\ Fault
    /\ pc' = [pc EXCEPT ![n] = "crashed"]
    /\ \/ call[Await(n)] = NoCall /\ UNCHANGED call
       \/ call[Await(n)] # NoCall /\ Leave(n)
    /\ wait' = [wait EXCEPT ![n] = 0]
    /\ cached' = [cached EXCEPT ![n] = NoToken]
    /\ waited' = [waited EXCEPT ![n] = 0]
    /\ UNCHANGED <<profiles, stamp, queue, sub, subops, searches, view, unsure, kind, phase,
                   historyVars>>

----------------------------------------------------------------------------
(***************************************************************************)
(* The NRF's steps.  History: what touches the stamp starts the count of   *)
(* misses anew.                                                            *)
(***************************************************************************)
Heard(n) ==
    /\ slip' = [slip EXCEPT ![n] = 0]
    /\ missed' = [missed EXCEPT ![n] = 0]

Handle(s) ==
    \/ /\ Unauthorized(s) \/ IssueToken(s) \/ UpdateNFInstance(s)
          \/ DeregisterNFInstance(s) \/ NotifyAndAnswer(s, TRUE)
       /\ UNCHANGED <<clientVars, trouble, historyVars>>
    \/ /\ RegisterNFInstance(s, kind[s[1]].timer) \/ TouchHeartbeat(s)
       /\ Heard(s[1])
       /\ UNCHANGED <<clientVars, trouble>>

Sweeping ==
    /\ Sweep \/ \E n \in NF : SweepNotify(n, TRUE)
    /\ UNCHANGED <<clientVars, trouble, historyVars>>

NotificationLost ==
    /\ Fault /\ sub = "uri"
    /\ \/ \E s \in Slots : NotifyAndAnswer(s, FALSE)
       \/ \E n \in NF : SweepNotify(n, FALSE)
    /\ UNCHANGED <<clientVars, historyVars>>

Subscriber ==
    /\ \/ CreateSubscription \/ UpdateSubscription \/ RemoveSubscription
       \/ SearchNFInstances
    /\ UNCHANGED <<clientVars, trouble, historyVars>>

Restart ==
    /\ Fault
    /\ RestartNrf
    /\ UNCHANGED <<clientVars, historyVars>>

----------------------------------------------------------------------------
(***************************************************************************)
(* Time.                                                                   *)
(***************************************************************************)
Quiet ==
    /\ \A n \in NF : \/ pc[n] \in {"exited", "crashed"}
                     \/ pc[n] = "asleep" /\ wait[n] > 0
    /\ \A s \in Slots : call[s] = NoCall
    /\ queue = {} /\ \A n \in NF : ~Overdue(n)

Less(k) == IF k = 0 THEN 0 ELSE k - 1
Awake(n) == Running(n) /\ ~(pc[n] = "asleep" /\ wait[n] > 0)

Tick ==
    /\ \/ Quiet /\ UNCHANGED trouble
       \/ ~Quiet /\ trouble < MaxTrouble /\ trouble' = trouble + 1
    /\ RegistryTick
    /\ wait' = [n \in NF |-> Less(wait[n])]
    /\ cached' = [n \in NF |-> [client |-> Less(cached[n].client),
                                server |-> IF cached[n].server = -1 THEN -1
                                           ELSE cached[n].server - 1,
                                took |-> cached[n].took]]
    /\ slip' = [n \in NF |-> IF Awake(n) THEN Upto(slip[n] + 1, SilenceCap) ELSE slip[n]]
    /\ waited' = [n \in NF |-> IF pc[n] = "calling" THEN Upto(waited[n] + 1, DelayCap)
                                ELSE waited[n]]
    /\ UNCHANGED <<kind, pc, phase, missed>>

Step(n) ==
    \/ Probe(n) \/ FetchToken(n) \/ SendRequest(n) \/ ReceiveToken(n) \/ ReceiveAnswer(n)
    \/ Refused(n)

Next ==
    \/ \E n \in NF : Step(n) \/ Broken(n) \/ Crash(n)
    \/ \E s \in Slots : Handle(s)
    \/ Sweeping \/ NotificationLost \/ Subscriber \/ Restart \/ Tick

(***************************************************************************)
(* Threads are scheduled, time passes, and a request that is not lost is   *)
(* answered: the callers' calls have no time-out, so nothing else would    *)
(* end them.                                                               *)
(***************************************************************************)
Fairness ==
    /\ \A n \in NF : WF_vars(Step(n))
    /\ \A s \in Slots : WF_vars(Handle(s))
    /\ WF_vars(Sweeping) /\ WF_vars(Tick)

Spec == Init /\ [][Next]_vars /\ Fairness

----------------------------------------------------------------------------
(***************************************************************************)
(* An NF that is alive is swept out of the registry only when, since its   *)
(* last stamp, the pauses after attempts that did not arrive (a failed     *)
(* heartbeat, a retry of a registration whose answer was lost) and the     *)
(* delays of its thread and calls come to more than 20 s: two heartbeats   *)
(* missed in a row, one and just over 5 s of delay, or 20 s of delay.  One *)
(* missed heartbeat alone is survived, with 5 s to spare: timer (30 s) and *)
(* margin (5 s) less the two halves of the timer.  The sweep's period adds *)
(* nothing to rely on, its phase being arbitrary.                          *)
(***************************************************************************)
SweptOnlyIfSilent ==
    [][\A n \in NF :
         n \in queue' \ queue /\ Running(n) =>
            missed[n] + slip[n] > 4 * Grain]_vars

(***************************************************************************)
(* A daemon's token is refused only if the answer that brought it and the  *)
(* request that used it took more than 9 s together: the client counts the *)
(* lifetime from when the token came, the NRF from when it was issued, and *)
(* less the second that exp may be cut by, the 10 s margin covers that.    *)
(***************************************************************************)
TokenAccepted ==
    \A n \in NF :
        LET c == call[Await(n)] IN
        pc[n] = "calling" /\ c # NoCall /\ c.status = 401 /\ ~kind[n].once =>
            5 * waited[n] > 9 * Grain

(***************************************************************************)
(* The subscriber's picture of an instance is that of the registry, once   *)
(* nothing about it is being notified, if it has had every notification    *)
(* and no two were under way together: whoever changes the registry also   *)
(* tells.                                                                  *)
(***************************************************************************)
SubscriberFollows ==
    \A n \in NF : ~Pending(n) /\ n \notin unsure => (n \in view <=> n \in registered)

(***************************************************************************)
(* An instance that has crashed is in the end out of the registry for      *)
(* good, whatever of its requests was still in the server.                 *)
(***************************************************************************)
CrashedIsSwept == \A n \in NF : pc[n] = "crashed" ~> [](n \notin registered)

(***************************************************************************)
(* A daemon that has started gets registered, unless it crashes: calls     *)
(* that are lost, or made while the NRF is away, are retried.              *)
(***************************************************************************)
RegistersEventually ==
    \A n \in NF : ~kind[n].once /\ pc[n] = "running" /\ phase[n] = "registering"
                     ~> n \in registered \/ pc[n] = "crashed"

=============================================================================
