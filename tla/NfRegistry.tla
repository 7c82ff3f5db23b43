----------------------------- MODULE NfRegistry -----------------------------
(***************************************************************************)
(* The NRF: the registry of NF instances with the time of their last       *)
(* heartbeat, the thread that sweeps out the instances that stopped        *)
(* sending any, one subscriber of status notifications, the stored         *)
(* searches and the access tokens.  Everything is in memory.  A request    *)
(* runs on one of the server's threads in several steps: each operation    *)
(* of the registry takes the mutex for itself, and notifications are sent  *)
(* after it is released.  A PATCH locks twice, to change the profile and   *)
(* to note the time, and the sweep fits between.                           *)
(*                                                                         *)
(* Time is counted in ticks, Grain of them in 5 s.  Every length the code  *)
(* gives is a multiple of 5 s; what a call or a thread is held up is any   *)
(* number of ticks.  A comparison that is strict in the code is strict     *)
(* here, so at a coarse Grain an instant just past a limit is a tick past  *)
(* it: what TLC shows at one Grain is proved at every one.                 *)
(***************************************************************************)
EXTENDS Integers, FiniteSets, Sequences

CONSTANTS
    NF,           \* NF instances: a restarted NF registers under a new id
    Grain,        \* ticks in 5 s: the resolution of the clock
    TokenTtl,     \* ticks a token is good for (3600 s in the code)
    MaxSubs       \* bound: requests of the subscriber

ASSUME RegistryAssumption ==
    /\ Grain \in Nat \ {0}
    /\ TokenTtl \in Nat /\ TokenTtl > 2 * Grain   \* more than its users' margin
    /\ MaxSubs \in Nat

VARIABLES
    profiles,     \* per instance: heartBeatTimer of its profile, or 0
    stamp,        \* last_heartbeat_, as ticks ago; -1 for none
    queue,        \* what the queue has removed and has yet to notify
    call,         \* requests the server is working on
    sub,          \* the subscription: none, with or without its URI
    subops,
    searches,     \* stored results
    view,         \* instances the subscriber believes to be registered
    unsure        \* history: instances whose notifications have crossed,
                  \* got lost, or were not subscribed to

registryVars ==
    <<profiles, stamp, queue, call, sub, subops, searches, view, unsure>>

(***************************************************************************)
(* A caller waits for at most one request; one it gave up on (the          *)
(* connection broke) is still worked on, and its answer goes nowhere.      *)
(***************************************************************************)
Slots == NF \X {"awaited", "abandoned"}
Methods == {"token", "PUT", "PATCH", "DELETE"}
Stages == {"sent", "patched", "notify", "answered"}

NoCall == [op |-> "none"]

\* ttl: ticks until the token of the request expires, by the NRF's clock.
Request(op, ttl) == [op |-> op, stage |-> "sent", ttl |-> ttl, status |-> 0]

Ticks(seconds) == (seconds \div 5) * Grain

kHeartbeatExpiryMargin == Ticks(5)
kHeartbeatSweepInterval == Ticks(5)

registered == {n \in NF : profiles[n] > 0}

\* The handlers of n that have yet to notify what they did, and the queue.
Notifying(n) ==
    {s \in Slots : s[1] = n /\ call[s] # NoCall /\ call[s].stage \in {"patched", "notify"}}

Pending(n) == Notifying(n) # {} \/ n \in queue

RegistryInit ==
    /\ profiles = [n \in NF |-> 0]
    /\ stamp = [n \in NF |-> -1]
    /\ queue = {}
    /\ call = [s \in Slots |-> NoCall]
    /\ sub \in {"none", "uri"} /\ subops = 0   \* it may have come first
    /\ searches = <<>>
    /\ view = {}
    /\ unsure = IF sub = "uri" THEN {} ELSE NF

RegistryTypeOK ==
    /\ profiles \in [NF -> Nat]
    /\ stamp \in [NF -> {-1} \cup Nat]
    /\ queue \subseteq NF
    /\ \A s \in Slots : \/ call[s] = NoCall
                        \/ /\ call[s].op \in Methods /\ call[s].stage \in Stages
                           /\ call[s].ttl \in -1..TokenTtl
                           /\ call[s].status \in {0, 200, 201, 204, 401, 404}
    /\ sub \in {"none", "uri", "no_uri"} /\ subops \in 0..MaxSubs
    /\ searches \in Seq(SUBSET NF)
    /\ view \subseteq NF /\ unsure \subseteq NF

----------------------------------------------------------------------------
(***************************************************************************)
(* The operations of the registry, each under its mutex.                   *)
(***************************************************************************)
put_without_stamp(n, timer) ==
    /\ profiles' = [profiles EXCEPT ![n] = timer]
    /\ UNCHANGED stamp

put(n, timer) ==
    /\ profiles' = [profiles EXCEPT ![n] = timer]
    /\ stamp' = [stamp EXCEPT ![n] = 0]

\* A JSON Patch of nfStatus leaves the timer as it is.
apply_patch(n) == n \in registered /\ UNCHANGED <<profiles, stamp>>

touch_heartbeat(n) == stamp' = [stamp EXCEPT ![n] = 0] /\ UNCHANGED profiles

remove(n) ==
    /\ profiles' = [profiles EXCEPT ![n] = 0]
    /\ stamp' = [stamp EXCEPT ![n] = -1]

expired_at_timer(n, margin) == n \in registered /\ stamp[n] > profiles[n]

\* An instance without a time stamp counts as heard of now.
expired(n, margin) == n \in registered /\ stamp[n] > profiles[n] + margin

sweep_expired(margin) ==
    LET gone == {n \in NF : expired(n, margin)} IN
    /\ profiles' = [n \in NF |-> IF n \in gone THEN 0 ELSE profiles[n]]
    /\ stamp' = [n \in NF |-> IF n \in gone THEN -1 ELSE stamp[n]]
    /\ queue' = gone
    /\ unsure' = unsure \cup {n \in gone : Notifying(n) # {}}

----------------------------------------------------------------------------
(***************************************************************************)
(* notify: one POST to the URI of the subscription, if it has one, as it   *)
(* is when the loop begins; a POST that fails is logged.                   *)
(***************************************************************************)
Applied(event, n) ==
    IF event = "NF_DEREGISTERED" THEN view \ {n} ELSE view \cup {n}

notify(event, n, delivered) ==
    IF sub = "uri" /\ delivered
    THEN view' = Applied(event, n) /\ UNCHANGED unsure
    ELSE unsure' = unsure \cup {n} /\ UNCHANGED view

\* The event a handler is about to send.
EventOf(c) == IF c.op = "DELETE" THEN "NF_DEREGISTERED" ELSE "NF_REGISTERED"

----------------------------------------------------------------------------
(***************************************************************************)
(* The handlers.  s is the request, n the instance it is about.            *)
(***************************************************************************)
Answered(s, status) ==
    IF s[2] = "abandoned" THEN NoCall
    ELSE [call[s] EXCEPT !.stage = "answered", !.status = status]

Answer(s, status) == call' = [call EXCEPT ![s] = Answered(s, status)]

GoesOn(s, stage, status) ==
    /\ call' = [call EXCEPT ![s].stage = stage, ![s].status = status]
    /\ unsure' = IF Pending(s[1]) THEN unsure \cup {s[1]} ELSE unsure

\* check_bearer: a token is verified if there is one; it has expired when the
\* clock is past exp.
check_bearer(s) == call[s].ttl >= 0

Unauthorized(s) ==
    /\ call[s] # NoCall /\ call[s].stage = "sent" /\ call[s].op # "token"
    /\ ~check_bearer(s)
    /\ Answer(s, 401)
    /\ UNCHANGED <<profiles, stamp, queue, sub, subops, searches, view, unsure>>

\* POST /oauth2/token: anybody gets a token; its exp counts from here, so
\* the ttl of the call begins to run with the answer.  exp is in whole
\* seconds, what is cut off (less than one) in ticks.
IssueToken(s) ==
    /\ call[s] # NoCall /\ call[s].op = "token" /\ call[s].stage = "sent"
    /\ \E cut \in 0..Grain :
          /\ 5 * cut <= Grain
          /\ call' = [call EXCEPT ![s] =
                        IF s[2] = "abandoned" THEN NoCall
                        ELSE [op |-> "token", stage |-> "answered",
                              ttl |-> TokenTtl - cut, status |-> 200]]
    /\ UNCHANGED <<profiles, stamp, queue, sub, subops, searches, view, unsure>>

RegisterNFInstance(s, timer) ==
    /\ call[s] # NoCall /\ call[s].op = "PUT" /\ call[s].stage = "sent"
    /\ check_bearer(s)
    /\ put(s[1], timer)
    /\ GoesOn(s, "notify", IF s[1] \in registered THEN 200 ELSE 201)
    /\ UNCHANGED <<queue, sub, subops, searches, view>>

UpdateNFInstance(s) ==
    /\ call[s] # NoCall /\ call[s].op = "PATCH" /\ call[s].stage = "sent"
    /\ check_bearer(s)
    /\ \/ apply_patch(s[1]) /\ GoesOn(s, "patched", 200)
       \/ /\ s[1] \notin registered
          /\ Answer(s, 404)
          /\ UNCHANGED <<profiles, stamp, unsure>>
    /\ UNCHANGED <<queue, sub, subops, searches, view>>

TouchHeartbeat(s) ==
    /\ call[s] # NoCall /\ call[s].stage = "patched"
    /\ touch_heartbeat(s[1])
    /\ call' = [call EXCEPT ![s].stage = "notify"]
    /\ UNCHANGED <<queue, sub, subops, searches, view, unsure>>

DeregisterNFInstanceQuietly(s) ==
    /\ call[s] # NoCall /\ call[s].op = "DELETE" /\ call[s].stage = "sent"
    /\ check_bearer(s)
    /\ remove(s[1])
    /\ Answer(s, 204)
    /\ UNCHANGED <<queue, sub, subops, searches, view, unsure>>

DeregisterNFInstance(s) ==
    /\ call[s] # NoCall /\ call[s].op = "DELETE" /\ call[s].stage = "sent"
    /\ check_bearer(s)
    /\ remove(s[1])
    /\ IF s[1] \in registered THEN GoesOn(s, "notify", 204)
                              ELSE Answer(s, 204) /\ UNCHANGED unsure
    /\ UNCHANGED <<queue, sub, subops, searches, view>>

\* The end of the three handlers.
NotifyAndAnswer(s, delivered) ==
    /\ call[s] # NoCall /\ call[s].stage = "notify"
    /\ notify(EventOf(call[s]), s[1], delivered)
    /\ Answer(s, call[s].status)
    /\ UNCHANGED <<profiles, stamp, queue, sub, subops, searches>>

----------------------------------------------------------------------------
(***************************************************************************)
(* The sweep thread: sleeps kHeartbeatSweepInterval, sweeps, notifies one  *)
(* instance after another.  When its next sweep comes is not tracked: a    *)
(* sweep that finds nothing is left out, one that finds something may come *)
(* at any time from then on, and if nothing holds the thread up it has     *)
(* come before an interval is over (Overdue).                              *)
(***************************************************************************)
Overdue(n) ==
    /\ n \in registered
    /\ stamp[n] >= profiles[n] + kHeartbeatExpiryMargin + kHeartbeatSweepInterval

Sweep ==
    /\ queue = {}
    /\ \E n \in NF : expired(n, kHeartbeatExpiryMargin)
    /\ sweep_expired(kHeartbeatExpiryMargin)
    /\ UNCHANGED <<call, sub, subops, searches, view>>

SweepNotify(n, delivered) ==
    /\ n \in queue
    /\ notify("NF_DEREGISTERED", n, delivered)
    /\ queue' = queue \ {n}
    /\ UNCHANGED <<profiles, stamp, call, sub, subops, searches>>

----------------------------------------------------------------------------
(***************************************************************************)
(* The subscriber: Create, Update (which checks nothing and may leave the  *)
(* URI out) and Remove, and discovery.                                     *)
(***************************************************************************)
SubscriptionOp(new) ==
    /\ subops < MaxSubs /\ subops' = subops + 1
    /\ sub' = new
    /\ unsure' = IF sub = "uri" THEN unsure ELSE NF
    /\ UNCHANGED <<profiles, stamp, queue, call, searches, view>>

CreateSubscription == sub = "none" /\ SubscriptionOp("uri")

UpdateSubscription == \E new \in {"uri", "no_uri"} : sub # "none" /\ SubscriptionOp(new)

RemoveSubscription == sub # "none" /\ SubscriptionOp("none")

\* SearchNFInstances: the result is also stored under a searchId.
SearchNFInstances ==
    /\ subops < MaxSubs /\ subops' = subops + 1
    /\ searches' = Append(searches, registered)
    /\ view' = registered
    /\ unsure' = {n \in unsure : Pending(n)}
    /\ UNCHANGED <<profiles, stamp, queue, call, sub>>

----------------------------------------------------------------------------
(***************************************************************************)
(* A restart of the NRF: nothing is stored, and callers see their          *)
(* connections break.                                                      *)
(***************************************************************************)
RestartNrf ==
    /\ profiles' = [n \in NF |-> 0]
    /\ stamp' = [n \in NF |-> -1]
    /\ queue' = {}
    /\ call' = [s \in Slots |-> NoCall]
    /\ sub' = "none"
    /\ searches' = <<>>
    /\ unsure' = NF
    /\ UNCHANGED <<subops, view>>

\* Time in the NRF: ages stop counting where they no longer matter.
AgeCap == 8 * Grain

Older(n) == IF stamp[n] = -1 THEN -1 ELSE IF stamp[n] < AgeCap THEN stamp[n] + 1 ELSE AgeCap

Fading(c) ==
    IF c = NoCall THEN c
    ELSE IF c.ttl = -1 \/ (c.op = "token" /\ c.stage = "sent") THEN c
    ELSE [c EXCEPT !.ttl = @ - 1]

RegistryTick ==
    /\ stamp' = [n \in NF |-> Older(n)]
    /\ call' = [s \in Slots |-> Fading(call[s])]
    /\ UNCHANGED <<profiles, queue, sub, subops, searches, view, unsure>>

=============================================================================
