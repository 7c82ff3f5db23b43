------------------------- MODULE NfLifecycleProofs -------------------------
(***************************************************************************)
(* The subscriber's picture follows the registry, a daemon's cached token  *)
(* is good unless its messages took too long, and only a daemon that was   *)
(* long silent is swept: SubscriberFollows, TokenAccepted and              *)
(* SweptOnlyIfSilent, for any number of NF instances, any token lifetime   *)
(* above the client's margin, any amount of trouble and any resolution of  *)
(* the clock: that TLC's ticks are coarse does not matter to them.         *)
(***************************************************************************)
EXTENDS NfLifecycle, TLAPS

Call == [op : Methods, stage : Stages, ttl : Int, status : Int]

Places == {"probing", "running", "calling", "asleep", "exited", "crashed"}

\* A handler that has changed the registry and has yet to tell.
Telling(c) == c # NoCall /\ c.stage \in {"patched", "notify"}

(***************************************************************************)
(* What the steps need of the calls and the threads: a thread that is not  *)
(* waiting for an answer has no call in the server but the abandoned ones. *)
(***************************************************************************)
CallInv ==
    /\ call \in [Slots -> Call \cup {NoCall}]
    /\ pc \in [NF -> Places]
    /\ \A n \in NF : pc[n] # "calling" => call[Await(n)] = NoCall
    /\ kind \in [NF -> Lifecycles]
    /\ profiles \in [NF -> Nat]

(***************************************************************************)
(* Of an instance that is not in doubt, at most one change is yet to be    *)
(* told, by one handler or by the sweep, and what it will say is true; if  *)
(* there is none, the picture is right already.                            *)
(***************************************************************************)
FollowsAt(n) ==
    /\ n \in queue => n \notin registered /\ Notifying(n) = {}
    /\ \A s \in Notifying(n) : /\ n \in registered <=> call[s].op # "DELETE"
                               /\ Notifying(n) = {s}
    /\ ~Pending(n) => (n \in view <=> n \in registered)

FollowInv == \A n \in NF : n \notin unsure => FollowsAt(n)

Inv == CallInv /\ FollowInv

(* What a thread makes its next request from.                               *)
ThreadInv ==
    /\ cached \in [NF -> [client : Int, server : Int, took : Int]]
    /\ waited \in [NF -> Int]
    /\ phase \in [NF -> {"registering", "beating", "leaving"}]

----------------------------------------------------------------------------
(* NoCall is told from a call by its op.                                    *)
LEMMA CallIsCall == NoCall \notin Call /\ \A c \in Call : c # NoCall
BY DEF Call, NoCall, Methods

(* The lengths of the code, in ticks.                                       *)
LEMMA Lengths ==
    /\ Grain \in Nat \ {0} /\ TokenTtl \in Nat /\ TokenTtl > 2 * Grain
    /\ Ticks(30) = 6 * Grain /\ Ticks(10) = 2 * Grain /\ Ticks(5) = Grain
    /\ Lifecycle(30) = [timer |-> 6 * Grain, sleep |-> 3 * Grain, retry |-> Grain,
                        once |-> FALSE]
<1>1. Grain \in Nat \ {0} /\ TokenTtl \in Nat /\ TokenTtl > 2 * Grain
    BY RegistryAssumption
<1>2. /\ 30 \div 5 = 6 /\ 30 \div 2 = 15 /\ 15 \div 5 = 3 /\ 10 \div 5 = 2 /\ 5 \div 5 = 1
    OBVIOUS
<1>3. /\ Ticks(30) = 6 * Grain /\ Ticks(10) = 2 * Grain /\ Ticks(15) = 3 * Grain
      /\ Ticks(5) = Grain
    BY <1>1, <1>2 DEF Ticks
<1>4. Ticks(30 \div 2) = 3 * Grain
    BY <1>2, <1>3
<1>5. QED
    BY <1>1, <1>3, <1>4 DEF Lifecycle

(* Every daemon, and hello-nf, announces a timer of 30 s.                   *)
LEMMA TimerPositive == \A k \in Lifecycles : k.timer = 6 * Grain
BY Lengths DEF Lifecycles, hello_nf, amf_lifecycle, ausf_lifecycle, bsf_lifecycle,
       chf_lifecycle, eir_lifecycle, gmlc_lifecycle, lmf_lifecycle, nef_lifecycle,
       nsacf_lifecycle, nssf_lifecycle, pcf_lifecycle, scp_lifecycle, smf_lifecycle,
       smsf_lifecycle, udm_lifecycle, udr_lifecycle, upf_lifecycle

(* The handlers of n that are telling, slot by slot.                        *)
LEMMA NotifyingDef ==
    ASSUME NEW n \in NF, NEW s
    PROVE  s \in Notifying(n) <=> s \in Slots /\ s[1] = n /\ Telling(call[s])
BY DEF Notifying, Telling

(* The properties of an instance survive a step that leaves its entry, its  *)
(* place in the sweep's queue, the picture of it and what is being told of  *)
(* it as they were.                                                         *)
LEMMA Undisturbed ==
    ASSUME NEW n \in NF, FollowsAt(n),
           n \in queue' <=> n \in queue,
           n \in registered' <=> n \in registered,
           n \in view' <=> n \in view,
           Notifying(n)' = Notifying(n),
           \A s \in Notifying(n) : call'[s].op = call[s].op
    PROVE  FollowsAt(n)'
BY DEF FollowsAt, Pending

(***************************************************************************)
(* A call that the server works on is replaced by another or ends: the     *)
(* threads that do not wait still have none.                               *)
(***************************************************************************)
LEMMA OneSlot ==
    ASSUME CallInv, NEW s \in Slots, call[s] # NoCall,
           call' \in [Slots -> Call \cup {NoCall}],
           \A t \in Slots : t # s => call'[t] = call[t],
           UNCHANGED <<pc, kind>>, profiles' \in [NF -> Nat]
    PROVE  CallInv'
<1>1. ASSUME NEW n \in NF, pc'[n] # "calling" PROVE call'[Await(n)] = NoCall
    <2>1. call[Await(n)] = NoCall
        BY <1>1 DEF CallInv
    <2>2. Await(n) \in Slots /\ Await(n) # s
        BY <2>1 DEF Await, Slots
    <2>3. QED
        BY <2>1, <2>2
<1>2. QED
    BY <1>1 DEF CallInv, Await

(***************************************************************************)
(* The same for the picture: a step that changes no more than calls, and   *)
(* leaves what each of them is about to tell, disturbs nothing.            *)
(***************************************************************************)
LEMMA SameTelling ==
    ASSUME FollowInv, UNCHANGED <<profiles, queue, view>>, unsure \subseteq unsure',
           \A t \in Slots : /\ Telling(call'[t]) <=> Telling(call[t])
                            /\ Telling(call[t]) => call'[t].op = call[t].op
    PROVE  FollowInv'
<1> SUFFICES ASSUME NEW n \in NF, n \notin unsure' PROVE FollowsAt(n)'
    BY DEF FollowInv
<1>1. FollowsAt(n)
    BY DEF FollowInv
<1>2. Notifying(n)' = Notifying(n)
    BY DEF Notifying, Telling
<1>3. \A s \in Notifying(n) : call'[s].op = call[s].op
    BY DEF Notifying, Telling
<1>4. n \in registered' <=> n \in registered
    BY DEF registered
<1>5. QED
    BY <1>1, <1>2, <1>3, <1>4, Undisturbed

(* An answered call, and what is left of an abandoned one.                  *)
LEMMA AnsweredCall ==
    ASSUME NEW s \in Slots, NEW status \in Int, call[s] \in Call
    PROVE  /\ Answered(s, status) \in Call \cup {NoCall}
           /\ ~Telling(Answered(s, status))
BY DEF Answered, Call, Stages, Telling

(* A call that has been worked on but has not been answered.                *)
LEMMA WentOn ==
    ASSUME CallInv, NEW s \in Slots, call[s] # NoCall, NEW status \in Int,
           NEW stage \in {"patched", "notify"}, GoesOn(s, stage, status)
    PROVE  /\ call' \in [Slots -> Call \cup {NoCall}]
           /\ \A t \in Slots : t # s => call'[t] = call[t]
           /\ call'[s] # NoCall /\ call'[s].stage = stage /\ call'[s].op = call[s].op
           /\ call'[s] \in Call /\ call'[s].ttl = call[s].ttl /\ call'[s].status = status
           /\ Telling(call'[s])
<1>1. call \in [Slots -> Call \cup {NoCall}] /\ call[s] \in Call
    BY DEF CallInv
<1>2. call' = [call EXCEPT ![s] = [call[s] EXCEPT !.stage = stage, !.status = status]]
    BY <1>1 DEF GoesOn, Call
<1>3. [call[s] EXCEPT !.stage = stage, !.status = status] \in Call
    BY <1>1 DEF Call, Stages
<1>4. call' \in [Slots -> Call \cup {NoCall}] /\ call'[s] \in Call
      /\ call'[s] = [call[s] EXCEPT !.stage = stage, !.status = status]
      /\ \A t \in Slots : t # s => call'[t] = call[t]
    BY <1>1, <1>2, <1>3
<1>5. /\ call'[s].stage = stage /\ call'[s].op = call[s].op
      /\ call'[s].ttl = call[s].ttl /\ call'[s].status = status
    BY <1>1, <1>4 DEF Call
<1>6. QED
    BY <1>4, <1>5, CallIsCall DEF Telling

----------------------------------------------------------------------------
(* The NRF's handlers, one by one.                                          *)

(* A call that had nothing to tell is replaced by one that has nothing to   *)
(* tell, or ends.                                                           *)
LEMMA SilentCallStep ==
    ASSUME Inv, NEW s \in Slots, call[s] # NoCall, ~Telling(call[s]),
           NEW d \in Call \cup {NoCall}, ~Telling(d), call' = [call EXCEPT ![s] = d],
           UNCHANGED <<profiles, queue, view, unsure, pc, kind>>
    PROVE  Inv'
<1>1. call \in [Slots -> Call \cup {NoCall}]
    BY DEF Inv, CallInv
<1>2. /\ call' \in [Slots -> Call \cup {NoCall}]
      /\ call'[s] = d
      /\ \A t \in Slots : t # s => call'[t] = call[t]
    BY <1>1
<1>3. CallInv'
    BY <1>2, OneSlot DEF Inv, CallInv
<1>4. FollowInv'
    BY <1>2, SameTelling DEF Inv
<1>5. QED
    BY <1>3, <1>4 DEF Inv

(* An answer to a call that had nothing to tell.                            *)
LEMMA AnswerStep ==
    ASSUME Inv, NEW s \in Slots, call[s] # NoCall, NEW status \in Int,
           ~Telling(call[s]), Answer(s, status),
           UNCHANGED <<profiles, queue, view, unsure, pc, kind>>
    PROVE  Inv'
<1>1. call[s] \in Call
    BY DEF Inv, CallInv
<1>2. /\ Answered(s, status) \in Call \cup {NoCall}
      /\ ~Telling(Answered(s, status))
    BY <1>1, AnsweredCall
<1>3. QED
    BY <1>2, SilentCallStep DEF Answer

(* A token that is issued: its lifetime may be cut, by a second at most.    *)
LEMMA IssuedToken ==
    ASSUME CallInv, NEW s \in Slots, IssueToken(s)
    PROVE  /\ call[s] # NoCall /\ call[s].op = "token" /\ call[s].stage = "sent"
           /\ \E d : /\ call' = [call EXCEPT ![s] = d]
                     /\ d = NoCall \/ /\ d \in Call /\ d.op = "token"
                                      /\ d.stage = "answered" /\ d.status = 200
                                      /\ 5 * d.ttl >= 5 * TokenTtl - Grain
                     /\ s = Await(s[1]) => d # NoCall
<1>1. PICK cut \in 0..Grain :
        /\ 5 * cut <= Grain
        /\ call' = [call EXCEPT ![s] =
                      IF s[2] = "abandoned" THEN NoCall
                      ELSE [op |-> "token", stage |-> "answered",
                            ttl |-> TokenTtl - cut, status |-> 200]]
    BY DEF IssueToken
<1>2. PICK d : d = [op |-> "token", stage |-> "answered", ttl |-> TokenTtl - cut,
                    status |-> 200]
    OBVIOUS
<1>3. /\ d.op = "token" /\ d.stage = "answered" /\ d.status = 200
      /\ d.ttl = TokenTtl - cut
    BY <1>2
<1>4. d \in Call /\ 5 * d.ttl >= 5 * TokenTtl - Grain
    BY <1>1, <1>2, <1>3, Lengths DEF Call, Methods, Stages
<1>5. d # NoCall
    BY <1>4, CallIsCall
<1>6. call[s] # NoCall /\ call[s].op = "token" /\ call[s].stage = "sent"
    BY DEF IssueToken
<1>7. CASE s[2] = "abandoned"
    <2>1. call' = [call EXCEPT ![s] = NoCall] /\ s # Await(s[1])
        BY <1>1, <1>7 DEF Await
    <2>2. QED
        BY <1>6, <2>1
<1>8. CASE s[2] # "abandoned"
    <2>1. call' = [call EXCEPT ![s] = d]
        BY <1>1, <1>2, <1>8
    <2>2. QED
        BY <1>3, <1>4, <1>5, <1>6, <2>1
<1>9. QED
    BY <1>7, <1>8

(* 401, and a token.                                                        *)
LEMMA UnauthorizedStep ==
    ASSUME Inv, NEW s \in Slots, Unauthorized(s), UNCHANGED clientVars
    PROVE  Inv'
<1>1. ~Telling(call[s])
    BY DEF Unauthorized, Telling
<1>2. QED
    BY <1>1, AnswerStep DEF Unauthorized, clientVars

LEMMA IssueStep ==
    ASSUME Inv, NEW s \in Slots, IssueToken(s), UNCHANGED clientVars
    PROVE  Inv'
<1>1. PICK d : /\ call' = [call EXCEPT ![s] = d]
               /\ d = NoCall \/ (d \in Call /\ d.stage = "answered")
    BY IssuedToken DEF Inv
<1>2. ~Telling(call[s]) /\ ~Telling(d) /\ call[s] # NoCall
    BY <1>1 DEF IssueToken, Telling
<1>3. QED
    BY <1>1, <1>2, SilentCallStep DEF IssueToken, clientVars

(* A change of the registry for one instance, which its handler is now to   *)
(* tell: n was in nobody's hands, or is in doubt from here on.              *)
LEMMA ChangeStep ==
    ASSUME Inv, NEW s \in Slots, call[s] # NoCall, ~Telling(call[s]),
           NEW stage \in {"patched", "notify"}, NEW status \in Int, GoesOn(s, stage, status),
           UNCHANGED <<queue, view, pc, kind>>, profiles' \in [NF -> Nat],
           \A n \in NF : n # s[1] => profiles'[n] = profiles[n],
           s[1] \in registered' <=> call[s].op # "DELETE"
    PROVE  Inv'
<1>1. /\ call' \in [Slots -> Call \cup {NoCall}]
      /\ \A t \in Slots : t # s => call'[t] = call[t]
      /\ call'[s] # NoCall /\ call'[s].stage = stage /\ call'[s].op = call[s].op
      /\ Telling(call'[s])
    BY WentOn DEF Inv
<1>2. CallInv'
    BY <1>1, OneSlot DEF Inv
<1>3. ASSUME NEW n \in NF, n \notin unsure', n # s[1] PROVE FollowsAt(n)'
    <2>1. n \notin unsure /\ FollowsAt(n)
        BY <1>3 DEF GoesOn, Inv, FollowInv
    <2>2. Notifying(n)' = Notifying(n) /\ \A t \in Notifying(n) : call'[t] = call[t]
        BY <1>1, <1>3 DEF Notifying
    <2>3. n \in registered' <=> n \in registered
        BY <1>3 DEF registered
    <2>4. QED
        BY <2>1, <2>2, <2>3, Undisturbed
<1>4. ASSUME NEW n \in NF, n \notin unsure', n = s[1] PROVE FollowsAt(n)'
    <2>1. ~Pending(n)
        BY <1>4 DEF GoesOn
    <2>2. Notifying(n)' = {s}
        BY <1>1, <1>4, <2>1 DEF Notifying, Pending, Telling
    <2>3. n \notin queue'
        BY <2>1 DEF Pending
    <2>4. QED
        BY <1>1, <1>4, <2>2, <2>3 DEF FollowsAt, Pending
<1>5. QED
    BY <1>2, <1>3, <1>4 DEF Inv, FollowInv

(* PUT.                                                                     *)
LEMMA RegisterStep ==
    ASSUME Inv, NEW s \in Slots, RegisterNFInstance(s, kind[s[1]].timer), UNCHANGED clientVars
    PROVE  Inv'
<1>1. s[1] \in NF
    BY DEF Slots
<1>2. PICK timer \in Nat : timer = kind[s[1]].timer /\ timer > 0
    BY <1>1, TimerPositive, Lengths DEF Inv, CallInv
<1>3. profiles' = [profiles EXCEPT ![s[1]] = timer]
    BY <1>2 DEF RegisterNFInstance, put
<1>4. /\ profiles' \in [NF -> Nat] /\ profiles'[s[1]] = timer
      /\ \A n \in NF : n # s[1] => profiles'[n] = profiles[n]
    BY <1>1, <1>3 DEF Inv, CallInv
<1>5. s[1] \in registered'
    BY <1>1, <1>2, <1>4 DEF registered
<1>6. call[s] # NoCall /\ call[s].op # "DELETE" /\ ~Telling(call[s])
    BY DEF RegisterNFInstance, Telling
<1>7. \E status \in Int : GoesOn(s, "notify", status)
    BY DEF RegisterNFInstance
<1>8. UNCHANGED <<queue, view, pc, kind>>
    BY DEF RegisterNFInstance, clientVars
<1>9. QED
    BY <1>4, <1>5, <1>6, <1>7, <1>8, ChangeStep

(* PATCH, its first critical section.                                       *)
LEMMA UpdateStep ==
    ASSUME Inv, NEW s \in Slots, UpdateNFInstance(s), UNCHANGED clientVars
    PROVE  Inv'
<1>1. /\ call[s] # NoCall /\ call[s].op # "DELETE" /\ ~Telling(call[s])
      /\ UNCHANGED <<queue, view, pc, kind>>
    BY DEF UpdateNFInstance, Telling, clientVars
<1>2. CASE apply_patch(s[1]) /\ GoesOn(s, "patched", 200)
    <2>1. UNCHANGED profiles /\ s[1] \in registered'
        BY <1>2 DEF apply_patch, registered
    <2>2. profiles' \in [NF -> Nat]
        BY <2>1 DEF Inv, CallInv
    <2>3. QED
        BY <1>1, <1>2, <2>1, <2>2, ChangeStep
<1>3. CASE Answer(s, 404) /\ UNCHANGED <<profiles, stamp, unsure>>
    BY <1>1, <1>3, AnswerStep
<1>4. QED
    BY <1>2, <1>3 DEF UpdateNFInstance

(* PATCH, its second: the heartbeat is noted, for an instance that the      *)
(* sweep may have removed in the meantime.                                  *)
LEMMA TouchStep ==
    ASSUME Inv, NEW s \in Slots, TouchHeartbeat(s), UNCHANGED clientVars
    PROVE  Inv'
<1>1. call \in [Slots -> Call \cup {NoCall}] /\ call[s] \in Call
    BY DEF Inv, CallInv, TouchHeartbeat
<1>2. call' = [call EXCEPT ![s] = [call[s] EXCEPT !.stage = "notify"]]
    BY DEF TouchHeartbeat
<1>3. [call[s] EXCEPT !.stage = "notify"] \in Call
    BY <1>1 DEF Call, Stages
<1>4. /\ call' \in [Slots -> Call \cup {NoCall}] /\ call'[s] \in Call
      /\ call'[s] = [call[s] EXCEPT !.stage = "notify"]
      /\ \A t \in Slots : t # s => call'[t] = call[t]
    BY <1>1, <1>2, <1>3
<1>5. call'[s].stage = "notify" /\ call'[s].op = call[s].op
    BY <1>1, <1>4 DEF Call
<1>6. Telling(call[s]) /\ Telling(call'[s])
    BY <1>1, <1>4, <1>5, CallIsCall DEF Telling, TouchHeartbeat
<1>7. UNCHANGED <<profiles, queue, view, unsure, pc, kind>>
    BY DEF TouchHeartbeat, touch_heartbeat, clientVars
<1>8. CallInv'
    BY <1>1, <1>4, <1>7, OneSlot, CallIsCall DEF Inv, CallInv
<1>9. FollowInv'
    BY <1>4, <1>5, <1>6, <1>7, SameTelling DEF Inv
<1>10. QED
    BY <1>8, <1>9 DEF Inv

(* DELETE.                                                                  *)
LEMMA DeregisterStep ==
    ASSUME Inv, NEW s \in Slots, DeregisterNFInstance(s), UNCHANGED clientVars
    PROVE  Inv'
<1>1. /\ call[s] # NoCall /\ call[s].op = "DELETE" /\ ~Telling(call[s])
      /\ UNCHANGED <<queue, view, pc, kind>> /\ s[1] \in NF
    BY DEF DeregisterNFInstance, Telling, clientVars, Slots
<1>2. /\ profiles' \in [NF -> Nat] /\ profiles'[s[1]] = 0
      /\ \A n \in NF : n # s[1] => profiles'[n] = profiles[n]
    BY <1>1 DEF DeregisterNFInstance, remove, Inv, CallInv
<1>3. s[1] \notin registered'
    BY <1>1, <1>2 DEF registered
<1>4. CASE s[1] \in registered
    <2>1. GoesOn(s, "notify", 204)
        BY <1>4 DEF DeregisterNFInstance
    <2>2. QED
        BY <1>1, <1>2, <1>3, <2>1, ChangeStep
<1>5. CASE s[1] \notin registered
    <2>1. Answer(s, 204) /\ UNCHANGED unsure
        BY <1>5 DEF DeregisterNFInstance
    <2>2. profiles \in [NF -> Nat] /\ profiles[s[1]] = 0
        BY <1>1, <1>5 DEF registered, Inv, CallInv
    <2>3. UNCHANGED profiles
        BY <1>1, <2>2 DEF DeregisterNFInstance, remove
    <2>4. QED
        BY <1>1, <2>1, <2>3, AnswerStep
<1>6. QED
    BY <1>4, <1>5

(* The notification of a handler, which arrives or not.                     *)
LEMMA NotifyStep ==
    ASSUME Inv, NEW s \in Slots, NEW delivered \in BOOLEAN, NotifyAndAnswer(s, delivered),
           UNCHANGED clientVars
    PROVE  Inv'
<1>1. /\ call \in [Slots -> Call \cup {NoCall}] /\ call[s] \in Call
      /\ call[s].status \in Int /\ s[1] \in NF
    BY DEF Inv, CallInv, NotifyAndAnswer, Call, Slots
<1>2. /\ Answered(s, call[s].status) \in Call \cup {NoCall}
      /\ ~Telling(Answered(s, call[s].status))
    BY <1>1, AnsweredCall
<1>3. /\ call' \in [Slots -> Call \cup {NoCall}]
      /\ call'[s] = Answered(s, call[s].status)
      /\ \A t \in Slots : t # s => call'[t] = call[t]
    BY <1>1, <1>2 DEF Answer, NotifyAndAnswer
<1>4. UNCHANGED <<profiles, queue, pc, kind>> /\ call[s] # NoCall /\ Telling(call[s])
    BY DEF NotifyAndAnswer, clientVars, Telling
<1>5. CallInv'
    BY <1>3, <1>4, OneSlot DEF Inv, CallInv
<1>6. unsure \subseteq unsure' /\ \A n \in NF : n # s[1] => (n \in view' <=> n \in view)
    BY DEF NotifyAndAnswer, notify, Applied
<1>7. registered' = registered
    BY <1>4 DEF registered
<1>8. ASSUME NEW n \in NF, n \notin unsure', n # s[1] PROVE FollowsAt(n)'
    <2>1. FollowsAt(n)
        BY <1>6, <1>8 DEF Inv, FollowInv
    <2>2. Notifying(n)' = Notifying(n) /\ \A t \in Notifying(n) : call'[t] = call[t]
        BY <1>3, <1>8 DEF Notifying
    <2>3. QED
        BY <1>4, <1>6, <1>7, <1>8, <2>1, <2>2, Undisturbed
<1>9. ASSUME NEW n \in NF, n \notin unsure', n = s[1] PROVE FollowsAt(n)'
    <2>1. FollowsAt(n)
        BY <1>6, <1>9 DEF Inv, FollowInv
    <2>2. s \in Notifying(n)
        BY <1>4, <1>9 DEF Notifying, Telling
    <2>3. /\ n \in registered <=> call[s].op # "DELETE"
          /\ Notifying(n) = {s} /\ n \notin queue
        BY <2>1, <2>2 DEF FollowsAt
    <2>4. Notifying(n)' = {}
        BY <1>2, <1>3, <2>3 DEF Notifying, Telling
    <2>5. view' = Applied(EventOf(call[s]), n)
        BY <1>9 DEF NotifyAndAnswer, notify
    <2>6. n \in view' <=> call[s].op # "DELETE"
        BY <2>5 DEF Applied, EventOf
    <2>7. QED
        BY <1>4, <1>7, <2>3, <2>4, <2>6 DEF FollowsAt, Pending
<1>10. QED
    BY <1>5, <1>8, <1>9 DEF Inv, FollowInv

----------------------------------------------------------------------------
(* The sweep and the subscriber.                                            *)

(* The sweep takes out what has expired; what a handler is still to tell of *)
(* such an instance is in doubt, of the others the sweep will tell.         *)
LEMMA SweepStep ==
    ASSUME Inv, Sweep, UNCHANGED clientVars
    PROVE  Inv'
<1> DEFINE gone == {n \in NF : expired(n, kHeartbeatExpiryMargin)}
<1>1. /\ queue = {} /\ queue' = gone /\ UNCHANGED <<call, view, pc, kind>>
      /\ profiles' = [n \in NF |-> IF n \in gone THEN 0 ELSE profiles[n]]
      /\ unsure' = unsure \cup {n \in gone : Notifying(n) # {}}
    BY DEF Sweep, sweep_expired, clientVars
<1>2. gone \subseteq registered
    BY DEF expired
<1> HIDE DEF gone
<1>3. CallInv'
    BY <1>1 DEF Inv, CallInv, Await
<1>4. \A n \in NF : n \in registered' <=> n \in registered /\ n \notin gone
    BY <1>1 DEF registered, Inv, CallInv
<1>5. \A n \in NF : Notifying(n)' = Notifying(n)
    BY <1>1 DEF Notifying
<1>6. ASSUME NEW n \in NF, n \notin unsure' PROVE FollowsAt(n)'
    <2>1. FollowsAt(n)
        BY <1>1, <1>6 DEF Inv, FollowInv
    <2>2. CASE n \in gone
        <3>1. Notifying(n)' = {} /\ n \notin registered' /\ n \in queue'
            BY <1>1, <1>4, <1>5, <1>6, <2>2
        <3>2. QED
            BY <3>1 DEF FollowsAt, Pending
    <2>3. CASE n \notin gone
        BY <1>1, <1>4, <1>5, <2>1, <2>3, Undisturbed
    <2>4. QED
        BY <2>2, <2>3
<1>7. QED
    BY <1>3, <1>6 DEF Inv, FollowInv

(* The sweep's notification of one instance.                                *)
LEMMA SweepNotifyStep ==
    ASSUME Inv, NEW m \in NF, NEW delivered \in BOOLEAN, SweepNotify(m, delivered),
           UNCHANGED clientVars
    PROVE  Inv'
<1>1. /\ m \in queue /\ queue' = queue \ {m} /\ UNCHANGED <<call, profiles, pc, kind>>
      /\ unsure \subseteq unsure' /\ \A n \in NF : n # m => (n \in view' <=> n \in view)
      /\ m \notin unsure' => m \notin view'
    BY DEF SweepNotify, notify, Applied, clientVars
<1>2. CallInv'
    BY <1>1 DEF Inv, CallInv, Await
<1>3. \A n \in NF : n \in registered' <=> n \in registered
    BY <1>1 DEF registered
<1>4. \A n \in NF : Notifying(n)' = Notifying(n)
    BY <1>1 DEF Notifying
<1>5. ASSUME NEW n \in NF, n \notin unsure' PROVE FollowsAt(n)'
    <2>1. FollowsAt(n)
        BY <1>1, <1>5 DEF Inv, FollowInv
    <2>2. CASE n = m
        <3>1. Notifying(n) = {} /\ n \notin registered
            BY <1>1, <2>1, <2>2 DEF FollowsAt
        <3>2. QED
            BY <1>1, <1>3, <1>4, <1>5, <2>2, <3>1 DEF FollowsAt, Pending
    <2>3. CASE n # m
        BY <1>1, <1>3, <1>4, <2>1, <2>3, Undisturbed
    <2>4. QED
        BY <2>2, <2>3
<1>6. QED
    BY <1>2, <1>5 DEF Inv, FollowInv

(* Subscriptions come and go: the doubts only grow.  A search sets the      *)
(* picture right, except where a change is still to be told.                *)
LEMMA SubscriberStep ==
    ASSUME Inv, UNCHANGED clientVars,
           CreateSubscription \/ UpdateSubscription \/ RemoveSubscription \/ SearchNFInstances
    PROVE  Inv'
<1>1. UNCHANGED <<call, profiles, queue, pc, kind>>
    BY DEF CreateSubscription, UpdateSubscription, RemoveSubscription, SearchNFInstances,
           SubscriptionOp, clientVars
<1>2. CallInv'
    BY <1>1 DEF Inv, CallInv, Await
<1>3. /\ registered' = registered
      /\ \A n \in NF : Notifying(n)' = Notifying(n)
    BY <1>1 DEF registered, Notifying
<1>4. CASE \E new \in {"none", "uri", "no_uri"} : SubscriptionOp(new)
    <2>1. UNCHANGED view /\ \A n \in NF : n \in unsure => n \in unsure'
        BY <1>4 DEF SubscriptionOp
    <2>2. ASSUME NEW n \in NF, n \notin unsure' PROVE FollowsAt(n)'
        BY <1>1, <1>3, <2>1, <2>2, Undisturbed DEF Inv, FollowInv
    <2>3. QED
        BY <1>2, <2>2 DEF Inv, FollowInv
<1>5. CASE SearchNFInstances
    <2>1. view' = registered /\ unsure' = {n \in unsure : Pending(n)}
        BY <1>5 DEF SearchNFInstances
    <2>2. ASSUME NEW n \in NF, n \notin unsure' PROVE FollowsAt(n)'
        <3>1. ~Pending(n) \/ FollowsAt(n)
            BY <2>1, <2>2 DEF Inv, FollowInv
        <3>2. Pending(n)' <=> Pending(n)
            BY <1>1, <1>3 DEF Pending
        <3>3. CASE ~Pending(n)
            BY <1>1, <1>3, <2>1, <3>2, <3>3 DEF FollowsAt, Pending
        <3>4. CASE FollowsAt(n) /\ Pending(n)
            BY <1>1, <1>3, <3>2, <3>4 DEF FollowsAt
        <3>5. QED
            BY <3>1, <3>3, <3>4
    <2>3. QED
        BY <1>2, <2>2 DEF Inv, FollowInv
<1>6. QED
    BY <1>4, <1>5 DEF CreateSubscription, UpdateSubscription, RemoveSubscription

(* After a restart everything is in doubt, and nothing is registered.       *)
LEMMA RestartStep ==
    ASSUME Inv, RestartNrf, UNCHANGED clientVars
    PROVE  Inv'
<1>1. CallInv'
    <2>1. call' \in [Slots -> Call \cup {NoCall}] /\ \A s \in Slots : call'[s] = NoCall
        BY DEF RestartNrf
    <2>2. \A n \in NF : Await(n) \in Slots
        BY DEF Await, Slots
    <2>3. UNCHANGED <<pc, kind>> /\ profiles' \in [NF -> Nat]
        BY DEF RestartNrf, clientVars
    <2>4. QED
        BY <2>1, <2>2, <2>3 DEF Inv, CallInv, Await
<1>2. FollowInv'
    BY DEF RestartNrf, FollowInv
<1>3. QED
    BY <1>1, <1>2 DEF Inv

----------------------------------------------------------------------------
(* The lifecycle threads.                                                   *)

LEMMA SlotsOf ==
    ASSUME NEW n \in NF
    PROVE  /\ Await(n) \in Slots /\ <<n, "abandoned">> \in Slots
           /\ Await(n) # <<n, "abandoned">>
           /\ Await(n)[1] = n /\ <<n, "abandoned">>[1] = n
           /\ \A s \in Slots : s[1] = n => s = Await(n) \/ s = <<n, "abandoned">>
           /\ \A m \in NF : m # n => Await(m) # Await(n) /\ Await(m) # <<n, "abandoned">>
BY DEF Await, Slots

(* A step of the thread of n leaves the calls of the others alone, and n    *)
(* waits afterwards or has no call.                                         *)
LEMMA ThreadCalls ==
    ASSUME CallInv, NEW n \in NF,
           call' \in [Slots -> Call \cup {NoCall}],
           \A s \in Slots : s # Await(n) /\ s # <<n, "abandoned">> => call'[s] = call[s],
           pc' \in [NF -> Places], \A m \in NF : m # n => pc'[m] = pc[m],
           pc'[n] = "calling" \/ call'[Await(n)] = NoCall,
           UNCHANGED <<kind, profiles>>
    PROVE  CallInv'
<1>1. ASSUME NEW m \in NF, pc'[m] # "calling" PROVE call'[Await(m)] = NoCall
    <2>1. CASE m = n
        BY <1>1, <2>1
    <2>2. CASE m # n
        <3>1. call[Await(m)] = NoCall
            BY <1>1, <2>2 DEF CallInv
        <3>2. Await(m) \in Slots /\ Await(m) # Await(n) /\ Await(m) # <<n, "abandoned">>
            BY <2>2, SlotsOf
        <3>3. QED
            BY <3>1, <3>2
    <2>3. QED
        BY <2>1, <2>2
<1>2. QED
    BY <1>1 DEF CallInv, Await

(* A new request, in the place of one that has nothing to tell.             *)
LEMMA SendStep ==
    ASSUME Inv, NEW n \in NF, NEW op \in Methods, NEW ttl \in Int, Send(n, op, ttl),
           ~Telling(call[Await(n)]), UNCHANGED kind
    PROVE  Inv'
<1>1. Request(op, ttl) \in Call /\ ~Telling(Request(op, ttl))
    BY DEF Request, Call, Stages, Telling
<1>2. call \in [Slots -> Call \cup {NoCall}] /\ Await(n) \in Slots
    BY SlotsOf DEF Inv, CallInv
<1>3. /\ call' \in [Slots -> Call \cup {NoCall}] /\ call'[Await(n)] = Request(op, ttl)
      /\ \A s \in Slots : s # Await(n) => call'[s] = call[s]
    BY <1>1, <1>2 DEF Send
<1>4. /\ pc' \in [NF -> Places] /\ \A m \in NF : m # n => pc'[m] = pc[m]
      /\ pc'[n] = "calling" /\ UNCHANGED <<profiles, queue, view, unsure>>
    BY DEF Send, Inv, CallInv, Places
<1>5. CallInv'
    BY <1>3, <1>4, ThreadCalls DEF Inv
<1>6. FollowInv'
    BY <1>1, <1>3, <1>4, SameTelling DEF Inv
<1>7. QED
    BY <1>5, <1>6 DEF Inv

LEMMA MethodIsMethod ==
    ASSUME ThreadInv, NEW n \in NF
    PROVE  MethodOf(phase[n]) \in Methods
<1>1. phase[n] \in {"registering", "beating", "leaving"}
    BY DEF ThreadInv
<1>2. QED
    BY <1>1 DEF MethodOf, Methods

(* The thread asks for a token, sends its request, and sends it once it has *)
(* the token.                                                               *)
LEMMA RequestStep ==
    ASSUME Inv, ThreadInv, NEW n \in NF, FetchToken(n) \/ SendRequest(n) \/ ReceiveToken(n)
    PROVE  Inv' /\ ThreadInv'
<1>1. MethodOf(phase[n]) \in Methods
    BY MethodIsMethod
<1>2. Ready(n) => ~Telling(call[Await(n)])
    BY DEF Ready, Inv, CallInv, Telling
<1>3. CASE FetchToken(n)
    <2>1. TokenTtl \in Int /\ "token" \in Methods
        BY RegistryAssumption DEF Methods
    <2>2. Inv'
        BY <1>2, <1>3, <2>1, SendStep DEF FetchToken
    <2>3. ThreadInv'
        BY <1>3 DEF FetchToken, ThreadInv
    <2>4. QED
        BY <2>2, <2>3
<1>4. CASE SendRequest(n)
    <2>1. cached[n].server \in Int /\ cached[n].took \in Int
        BY DEF ThreadInv
    <2>2. Inv'
        BY <1>1, <1>2, <1>4, <2>1, SendStep DEF SendRequest
    <2>3. ThreadInv'
        BY <1>4, <2>1 DEF SendRequest, ThreadInv
    <2>4. QED
        BY <2>2, <2>3
<1>5. CASE ReceiveToken(n)
    <2>1. call[Await(n)] # NoCall /\ call[Await(n)].stage = "answered"
        BY <1>5 DEF ReceiveToken
    <2> Await(n) \in Slots
        BY SlotsOf
    <2>2. call[Await(n)] \in Call
        BY <2>1 DEF Inv, CallInv
    <2>3. call[Await(n)].ttl \in Int /\ ~Telling(call[Await(n)])
        BY <2>1, <2>2 DEF Call, Telling
    <2>4. Inv'
        BY <1>1, <1>5, <2>3, SendStep DEF ReceiveToken
    <2>5. TokenTtl \in Int
        BY RegistryAssumption
    <2>6. ThreadInv'
        BY <1>5, <2>3, <2>5 DEF ReceiveToken, ThreadInv
    <2>7. QED
        BY <2>4, <2>6
<1>6. QED
    BY <1>3, <1>4, <1>5

(* Where the thread is after an answer, a broken call or a refusal: not     *)
(* waiting.                                                                 *)
LEMMA ThreadGoesOn ==
    ASSUME CallInv, ThreadInv, NEW n \in NF, AfterFailure(n) \/ AfterSuccess(n),
           UNCHANGED cached, waited' = [waited EXCEPT ![n] = 0]
    PROVE  /\ pc' \in [NF -> Places] /\ \A m \in NF : m # n => pc'[m] = pc[m]
           /\ ThreadInv'
<1>1. PICK place \in Places : pc' = [pc EXCEPT ![n] = place]
    BY DEF AfterFailure, AfterSuccess, Sleep, Places
<1>2. \/ UNCHANGED phase
      \/ \E p \in {"registering", "beating", "leaving"} : phase' = [phase EXCEPT ![n] = p]
    BY DEF AfterFailure, AfterSuccess
<1>3. pc' \in [NF -> Places] /\ \A m \in NF : m # n => pc'[m] = pc[m]
    BY <1>1 DEF CallInv
<1>4. ThreadInv'
    BY <1>2 DEF ThreadInv
<1>5. QED
    BY <1>3, <1>4

(* A call ends or is left without telling anything less than before.        *)
LEMMA EndCallStep ==
    ASSUME Inv, NEW n \in NF, ~Telling(call[Await(n)]),
           call' = [call EXCEPT ![Await(n)] = NoCall],
           pc' \in [NF -> Places], \A m \in NF : m # n => pc'[m] = pc[m],
           UNCHANGED <<kind, profiles, queue, view, unsure>>
    PROVE  Inv'
<1>1. call \in [Slots -> Call \cup {NoCall}] /\ Await(n) \in Slots
    BY SlotsOf DEF Inv, CallInv
<1>2. /\ call' \in [Slots -> Call \cup {NoCall}] /\ call'[Await(n)] = NoCall
      /\ \A s \in Slots : s # Await(n) => call'[s] = call[s]
    BY <1>1
<1>3. CallInv'
    BY <1>2, ThreadCalls DEF Inv
<1>4. FollowInv'
    BY <1>2, SameTelling DEF Inv, Telling
<1>5. QED
    BY <1>3, <1>4 DEF Inv

(* A call that is left in the server goes on there, and tells what it has   *)
(* to tell from its new place.                                              *)
LEMMA AbandonStep ==
    ASSUME Inv, NEW n \in NF, call[<<n, "abandoned">>] = NoCall, call[Await(n)] # NoCall,
           call' = [call EXCEPT ![Await(n)] = NoCall,
                                ![<<n, "abandoned">>] = call[Await(n)]],
           pc' \in [NF -> Places], \A m \in NF : m # n => pc'[m] = pc[m],
           UNCHANGED <<kind, profiles, queue, view, unsure>>
    PROVE  Inv'
<1> DEFINE a == Await(n)
           b == <<n, "abandoned">>
<1>1. /\ a \in Slots /\ b \in Slots /\ a # b /\ a[1] = n /\ b[1] = n
      /\ \A s \in Slots : s[1] = n => s = a \/ s = b
    BY SlotsOf
<1>2. call \in [Slots -> Call \cup {NoCall}]
    BY DEF Inv, CallInv
<1>3. call[b] = NoCall /\ call' = [call EXCEPT ![a] = NoCall, ![b] = call[a]]
    OBVIOUS
<1> HIDE DEF a, b
<1>4. /\ call' \in [Slots -> Call \cup {NoCall}] /\ call'[a] = NoCall /\ call'[b] = call[a]
      /\ \A s \in Slots : s # a /\ s # b => call'[s] = call[s]
    BY <1>1, <1>2, <1>3
<1>5. CallInv'
    BY <1>4, ThreadCalls DEF Inv, a, b
<1>6. registered' = registered
    BY DEF registered
<1>7. ASSUME NEW m \in NF, m \notin unsure', m # n PROVE FollowsAt(m)'
    <2>1. FollowsAt(m)
        BY <1>7 DEF Inv, FollowInv
    <2>2. \A s \in Slots : s[1] = m => call'[s] = call[s]
        BY <1>1, <1>4, <1>7
    <2>3. Notifying(m)' = Notifying(m) /\ \A s \in Notifying(m) : call'[s] = call[s]
        BY <2>2 DEF Notifying
    <2>4. QED
        BY <1>6, <2>1, <2>3, Undisturbed
<1>8. ASSUME n \notin unsure' PROVE FollowsAt(n)'
    <2>1. FollowsAt(n)
        BY <1>8 DEF Inv, FollowInv
    <2>2. \A s : s \in Notifying(n) <=> s = a /\ Telling(call[a])
        BY <1>1, <1>3 DEF Notifying, Telling
    <2>3. \A s : s \in Notifying(n)' <=> s = b /\ Telling(call[a])
        BY <1>1, <1>4 DEF Notifying, Telling
    <2>4. CASE Telling(call[a])
        <3>1. Notifying(n) = {a} /\ Notifying(n)' = {b}
            BY <2>2, <2>3, <2>4
        <3>2. QED
            BY <1>4, <1>6, <2>1, <3>1 DEF FollowsAt, Pending
    <2>5. CASE ~Telling(call[a])
        <3>1. Notifying(n) = {} /\ Notifying(n)' = {}
            BY <2>2, <2>3, <2>5
        <3>2. QED
            BY <1>6, <2>1, <3>1 DEF FollowsAt, Pending
    <2>6. QED
        BY <2>4, <2>5
<1>9. QED
    BY <1>5, <1>7, <1>8 DEF Inv, FollowInv

LEMMA LeaveStep ==
    ASSUME Inv, NEW n \in NF, Leave(n), call[Await(n)] # NoCall,
           pc' \in [NF -> Places], \A m \in NF : m # n => pc'[m] = pc[m],
           UNCHANGED <<kind, profiles, queue, view, unsure>>
    PROVE  Inv'
<1>1. CASE call[Await(n)].stage \in {"sent", "answered"}
           /\ call' = [call EXCEPT ![Await(n)] = NoCall]
    BY <1>1, EndCallStep DEF Telling
<1>2. CASE /\ call[<<n, "abandoned">>] = NoCall
           /\ call' = [call EXCEPT ![Await(n)] = NoCall,
                                   ![<<n, "abandoned">>] = call[Await(n)]]
    BY <1>2, AbandonStep
<1>3. QED
    BY <1>1, <1>2 DEF Leave

(* An answer arrives, the connection breaks, the NRF is gone, the process   *)
(* crashes; and the probe before the first request.                         *)
LEMMA AnswerArrives ==
    ASSUME Inv, ThreadInv, NEW n \in NF, ReceiveAnswer(n) \/ Broken(n) \/ Refused(n)
    PROVE  Inv' /\ ThreadInv'
<1>1. /\ AfterFailure(n) \/ AfterSuccess(n)
      /\ UNCHANGED cached /\ waited' = [waited EXCEPT ![n] = 0]
    BY DEF ReceiveAnswer, Broken, Refused
<1>2. /\ pc' \in [NF -> Places] /\ \A m \in NF : m # n => pc'[m] = pc[m]
      /\ ThreadInv'
    BY <1>1, ThreadGoesOn DEF Inv
<1>3. UNCHANGED <<kind, profiles, queue, view, unsure>>
    BY DEF ReceiveAnswer, Broken, Refused, registryVars
<1>4. CASE ReceiveAnswer(n)
    <2>1. call[Await(n)].stage = "answered" /\ call' = [call EXCEPT ![Await(n)] = NoCall]
        BY <1>4 DEF ReceiveAnswer
    <2>2. Inv'
        BY <1>2, <1>3, <2>1, EndCallStep DEF Telling
    <2>3. QED
        BY <1>2, <2>2
<1>5. CASE Broken(n)
    BY <1>2, <1>3, <1>5, LeaveStep DEF Broken
<1>6. CASE Refused(n)
    <2>1. call[Await(n)] = NoCall /\ UNCHANGED call
        BY <1>6 DEF Refused, registryVars
    <2>2. CallInv'
        BY <1>2, <1>3, <2>1, ThreadCalls DEF Inv, CallInv
    <2>3. FollowInv'
        BY <1>3, <2>1, SameTelling DEF Inv
    <2>4. QED
        BY <1>2, <2>2, <2>3 DEF Inv
<1>7. QED
    BY <1>4, <1>5, <1>6

LEMMA ProbeOrCrash ==
    ASSUME Inv, ThreadInv, NEW n \in NF, Probe(n) \/ Crash(n)
    PROVE  Inv' /\ ThreadInv'
<1>1. PICK place \in Places : pc' = [pc EXCEPT ![n] = place]
    BY DEF Probe, Crash, Places
<1>2. pc' \in [NF -> Places] /\ \A m \in NF : m # n => pc'[m] = pc[m]
    BY <1>1 DEF Inv, CallInv
<1>3. /\ UNCHANGED <<kind, profiles, queue, view, unsure, phase>>
      /\ \/ UNCHANGED <<cached, waited>>
         \/ /\ cached' = [cached EXCEPT ![n] = NoToken]
            /\ waited' = [waited EXCEPT ![n] = 0]
    BY DEF Probe, Crash, registryVars
<1>4. ThreadInv'
    BY <1>3 DEF ThreadInv, NoToken
<1>5. CASE call[Await(n)] = NoCall /\ UNCHANGED call
    <2>1. CallInv'
        BY <1>2, <1>3, <1>5, ThreadCalls DEF Inv, CallInv
    <2>2. FollowInv'
        BY <1>3, <1>5, SameTelling DEF Inv
    <2>3. QED
        BY <1>4, <2>1, <2>2 DEF Inv
<1>6. CASE call[Await(n)] # NoCall /\ Leave(n)
    BY <1>2, <1>3, <1>4, <1>6, LeaveStep
<1>7. Probe(n) => call[Await(n)] = NoCall /\ UNCHANGED call
    BY DEF Probe, registryVars, Inv, CallInv
<1>8. QED
    BY <1>5, <1>6, <1>7 DEF Crash

----------------------------------------------------------------------------
(* Time passes: lifetimes run out, and nothing else moves.                  *)
LEMMA TickStep ==
    ASSUME Inv, ThreadInv, Tick
    PROVE  Inv' /\ ThreadInv'
<1>1. /\ UNCHANGED <<profiles, queue, view, unsure, kind, pc, phase>>
      /\ call' = [s \in Slots |-> Fading(call[s])]
    BY DEF Tick, RegistryTick
<1>2. ASSUME NEW c \in Call
      PROVE  Fading(c) \in Call /\ Fading(c).op = c.op /\ Fading(c).stage = c.stage
    <2>1. c # NoCall /\ c.ttl \in Int /\ c.ttl - 1 \in Int
        BY <1>2, CallIsCall DEF Call
    <2>2. CASE Fading(c) = c
        BY <1>2, <2>2
    <2>3. CASE Fading(c) = [c EXCEPT !.ttl = c.ttl - 1]
        BY <1>2, <2>1, <2>3 DEF Call
    <2>4. QED
        BY <2>1, <2>2, <2>3 DEF Fading
<1>3. Fading(NoCall) = NoCall
    BY DEF Fading
<1>4. call \in [Slots -> Call \cup {NoCall}]
    BY DEF Inv, CallInv
<1>5. ASSUME NEW s \in Slots
      PROVE  /\ call'[s] \in Call \cup {NoCall}
             /\ call'[s] = NoCall <=> call[s] = NoCall
             /\ Telling(call'[s]) <=> Telling(call[s])
             /\ Telling(call[s]) => call'[s].op = call[s].op
    <2>1. call'[s] = Fading(call[s])
        BY <1>1
    <2>2. CASE call[s] = NoCall
        BY <1>3, <2>1, <2>2 DEF Telling
    <2>3. CASE call[s] \in Call
        BY <1>2, <2>1, <2>3, CallIsCall DEF Telling
    <2>4. QED
        BY <1>4, <2>2, <2>3
<1>6. call' \in [Slots -> Call \cup {NoCall}]
    BY <1>1, <1>5
<1>7. CallInv'
    <2>1. ASSUME NEW n \in NF, pc'[n] # "calling" PROVE call'[Await(n)] = NoCall
        <3>1. call[Await(n)] = NoCall
            BY <1>1, <2>1 DEF Inv, CallInv
        <3>2. Await(n) \in Slots
            BY SlotsOf
        <3>3. QED
            BY <1>5, <3>1, <3>2
    <2>2. QED
        BY <1>1, <1>6, <2>1 DEF Inv, CallInv, Await
<1>8. FollowInv'
    BY <1>1, <1>5, SameTelling DEF Inv
<1>9. ThreadInv'
    <2>1. \A k \in Int : Less(k) \in Int /\ Upto(k + 1, DelayCap) \in Int /\ k - 1 \in Int
        BY Lengths DEF Less, Upto, DelayCap
    <2>2. waited' \in [NF -> Int]
        BY <2>1 DEF Tick, ThreadInv
    <2>3. ASSUME NEW n \in NF
          PROVE  /\ Less(cached[n].client) \in Int /\ cached[n].took \in Int
                 /\ (IF cached[n].server = -1 THEN -1 ELSE cached[n].server - 1) \in Int
        BY <2>1 DEF ThreadInv
    <2>4. cached' \in [NF -> [client : Int, server : Int, took : Int]]
        BY <2>3 DEF Tick
    <2>5. QED
        BY <1>1, <2>2, <2>4 DEF ThreadInv
<1>10. QED
    BY <1>7, <1>8, <1>9 DEF Inv

----------------------------------------------------------------------------
LEMMA InitInv == Init => Inv /\ ThreadInv
<1> SUFFICES ASSUME Init PROVE Inv /\ ThreadInv
    OBVIOUS
<1>1. /\ call = [s \in Slots |-> NoCall] /\ profiles = [n \in NF |-> 0]
      /\ pc = [n \in NF |-> "probing"] /\ kind \in [NF -> Lifecycles]
      /\ queue = {} /\ view = {}
    BY DEF Init, RegistryInit
<1>2. CallInv
    BY <1>1, SlotsOf DEF CallInv, Places
<1>3. ASSUME NEW n \in NF PROVE FollowsAt(n)
    <2>1. Notifying(n) = {} /\ n \notin registered
        BY <1>1 DEF Notifying, registered
    <2>2. QED
        BY <1>1, <2>1 DEF FollowsAt
<1>4. ThreadInv
    BY DEF Init, ThreadInv, NoToken
<1>5. QED
    BY <1>2, <1>3, <1>4 DEF Inv, FollowInv

(* A step of the server for one request.                                    *)
LEMMA HandleStep ==
    ASSUME Inv, ThreadInv, NEW s \in Slots, Handle(s)
    PROVE  Inv' /\ ThreadInv'
<1>1. UNCHANGED clientVars
    BY DEF Handle
<1>2. ThreadInv'
    BY <1>1 DEF ThreadInv, clientVars
<1>3. \/ Unauthorized(s) \/ IssueToken(s) \/ UpdateNFInstance(s)
      \/ DeregisterNFInstance(s) \/ NotifyAndAnswer(s, TRUE)
      \/ RegisterNFInstance(s, kind[s[1]].timer) \/ TouchHeartbeat(s)
    BY DEF Handle
<1>4. CASE Unauthorized(s) \/ IssueToken(s)
    BY <1>1, <1>2, <1>4, UnauthorizedStep, IssueStep
<1>5. CASE UpdateNFInstance(s)
    BY <1>1, <1>2, <1>5, UpdateStep
<1>6. CASE DeregisterNFInstance(s)
    BY <1>1, <1>2, <1>6, DeregisterStep
<1>7. CASE NotifyAndAnswer(s, TRUE)
    BY <1>1, <1>2, <1>7, NotifyStep
<1>8. CASE RegisterNFInstance(s, kind[s[1]].timer)
    BY <1>1, <1>2, <1>8, RegisterStep
<1>9. CASE TouchHeartbeat(s)
    BY <1>1, <1>2, <1>9, TouchStep
<1>10. QED
    BY <1>3, <1>4, <1>5, <1>6, <1>7, <1>8, <1>9

LEMMA NextInv ==
    ASSUME Inv, ThreadInv, [Next]_vars
    PROVE  Inv' /\ ThreadInv'
<1>1. ASSUME NEW n \in NF, Step(n) \/ Broken(n) \/ Crash(n) PROVE Inv' /\ ThreadInv'
    BY <1>1, RequestStep, AnswerArrives, ProbeOrCrash DEF Step
<1>2. ASSUME NEW s \in Slots, Handle(s) PROVE Inv' /\ ThreadInv'
    BY <1>2, HandleStep
<1>3. CASE Sweeping
    <2>1. UNCHANGED clientVars /\ (Sweep \/ \E n \in NF : SweepNotify(n, TRUE))
        BY <1>3 DEF Sweeping
    <2>2. QED
        BY <2>1, SweepStep, SweepNotifyStep DEF ThreadInv, clientVars
<1>4. CASE NotificationLost
    <2>1. UNCHANGED clientVars /\ (\/ \E s \in Slots : NotifyAndAnswer(s, FALSE)
                                   \/ \E n \in NF : SweepNotify(n, FALSE))
        BY <1>4 DEF NotificationLost
    <2>2. QED
        BY <2>1, NotifyStep, SweepNotifyStep DEF ThreadInv, clientVars
<1>5. CASE Subscriber
    BY <1>5, SubscriberStep DEF Subscriber, ThreadInv, clientVars
<1>6. CASE Restart
    BY <1>6, RestartStep DEF Restart, ThreadInv, clientVars
<1>7. CASE Tick
    BY <1>7, TickStep
<1>8. CASE UNCHANGED vars
    <2>1. UNCHANGED <<call, profiles, queue, view, unsure, pc, kind, cached, waited, phase>>
        BY <1>8 DEF vars, registryVars
    <2>2. CallInv' /\ ThreadInv'
        BY <2>1 DEF Inv, CallInv, ThreadInv, Await
    <2>3. FollowInv'
        BY <2>1, SameTelling DEF Inv
    <2>4. QED
        BY <2>2, <2>3 DEF Inv
<1>9. QED
    BY <1>1, <1>2, <1>3, <1>4, <1>5, <1>6, <1>7, <1>8 DEF Next

(***************************************************************************)
(* Whoever changes the NRF's registry also tells: whatever registers,      *)
(* beats, leaves, crashes or is swept, and however handlers, sweep and     *)
(* broken calls interleave, a subscriber that has had every notification,  *)
(* no two of them under way together, sees the instances that are there.   *)
(***************************************************************************)
THEOREM SubscriberSeesRegistry == Spec => []SubscriberFollows
<1>1. Inv => SubscriberFollows
    BY DEF Inv, FollowInv, FollowsAt, SubscriberFollows
<1>2. QED
    BY InitInv, NextInv, <1>1, PTL DEF Spec

----------------------------------------------------------------------------
(***************************************************************************)
(* Clocks.  ClockInv types what time is counted in.                        *)
(***************************************************************************)
ClockInv ==
    /\ stamp \in [NF -> Int]
    /\ slip \in [NF -> Nat] /\ missed \in [NF -> Nat]
    /\ wait \in [NF -> 0..3 * Grain] /\ waited \in [NF -> Nat]
    /\ cached \in [NF -> [client : Nat, server : Int, took : Nat]]
    /\ \A n \in NF : profiles[n] \in {0, 6 * Grain}

(***************************************************************************)
(* The time since an instance was last heard of is that of its delays, of  *)
(* the pauses after attempts that did not arrive, and of one sleep: the    *)
(* part of it that has passed.                                             *)
(***************************************************************************)
Within(n, k) ==
    stamp[n] <= slip[n] + missed[n] + k \/ slip[n] > 4 * Grain \/ missed[n] > 4 * Grain

ArrivedAt(n) == call[Await(n)] # NoCall /\ Arrived(call[Await(n)])

SilentAt(n) ==
    /\ Running(n) => Within(n, 3 * Grain)
    /\ pc[n] = "asleep" => Within(n, 3 * Grain - wait[n])
    /\ pc[n] = "calling" /\ ArrivedAt(n) => Within(n, 0)

(***************************************************************************)
(* The token's lifetime as the client and as the NRF count it differ by    *)
(* what the answer took and by the second that exp may be cut by: a fifth  *)
(* of Grain, so everything is counted in fifths of ticks.                  *)
(***************************************************************************)
Enough(w) == 5 * w > 9 * Grain

CacheAt(n) ==
    cached[n].client > 0 =>
        \/ Enough(cached[n].took)
        \/ 5 * (cached[n].server + cached[n].took) >= 5 * cached[n].client - Grain

AskedAt(n) ==
    LET c == call[Await(n)] IN
    pc[n] = "calling" /\ c # NoCall =>
        /\ c.op = "token" /\ c.stage = "sent" => c.ttl = TokenTtl
        /\ c.op = "token" /\ c.stage # "sent" =>
                \/ Enough(waited[n])
                \/ 5 * (c.ttl + waited[n]) >= 5 * TokenTtl - Grain
        /\ c.op # "token" /\ c.stage = "sent" =>
                \/ Enough(waited[n])
                \/ 5 * (c.ttl + waited[n]) > 9 * Grain
        /\ c.status = 401 => Enough(waited[n])

TokenAt(n) == ~kind[n].once => CacheAt(n) /\ AskedAt(n)

TimeInv == ClockInv /\ \A n \in NF : SilentAt(n) /\ TokenAt(n)

(* Every daemon sleeps 15 s between two heartbeats and 5 s before a retry.  *)
LEMMA Pauses == \A k \in Lifecycles : k.sleep = 3 * Grain /\ k.retry = Grain
BY Lengths DEF Lifecycles, hello_nf, amf_lifecycle, ausf_lifecycle, bsf_lifecycle,
       chf_lifecycle, eir_lifecycle, gmlc_lifecycle, lmf_lifecycle, nef_lifecycle,
       nsacf_lifecycle, nssf_lifecycle, pcf_lifecycle, scp_lifecycle, smf_lifecycle,
       smsf_lifecycle, udm_lifecycle, udr_lifecycle, upf_lifecycle

(* An instance whose thread, call, clocks and stamp a step leaves alone.    *)
LEMMA Untouched ==
    ASSUME NEW n \in NF, SilentAt(n), TokenAt(n),
           pc'[n] = pc[n], kind'[n] = kind[n], call'[Await(n)] = call[Await(n)],
           wait'[n] = wait[n], waited'[n] = waited[n], cached'[n] = cached[n],
           stamp'[n] = stamp[n], slip'[n] = slip[n], missed'[n] = missed[n]
    PROVE  SilentAt(n)' /\ TokenAt(n)'
<1>1. Await(n)' = Await(n)
    BY DEF Await
<1>2. SilentAt(n)'
    BY <1>1 DEF SilentAt, Within, ArrivedAt, Running
<1>3. TokenAt(n)'
    BY <1>1 DEF TokenAt, CacheAt, AskedAt
<1>4. QED
    BY <1>2, <1>3

(***************************************************************************)
(* A handler goes on with the call of n, or answers it: what it does to    *)
(* the call, and whether it stamps.                                        *)
(***************************************************************************)
Worked(c, d, n) ==
    /\ d \in Call /\ d.op = c.op /\ d.stage # "sent"
    /\ \/ d.ttl = c.ttl
       \/ c.op = "token" /\ c.stage = "sent" /\ 5 * d.ttl >= 5 * TokenTtl - Grain
    /\ d.status = 401 => c.status = 401 \/ (c.op # "token" /\ c.stage = "sent" /\ c.ttl < 0)
    /\ Arrived(d) => Arrived(c) \/ stamp'[n] <= 0

Stamped(n) ==
    /\ stamp' \in [NF -> Int] /\ slip' \in [NF -> Nat] /\ missed' \in [NF -> Nat]
    /\ \A m \in NF : m # n => /\ stamp'[m] = stamp[m] /\ slip'[m] = slip[m]
                             /\ missed'[m] = missed[m]
    /\ \/ stamp'[n] <= 0
       \/ stamp'[n] = stamp[n] /\ slip'[n] = slip[n] /\ missed'[n] = missed[n]

LEMMA Handled ==
    ASSUME CallInv, TimeInv, NEW s \in Slots, NEW n \in NF, s[1] = n, call[s] # NoCall,
           NEW d, call'[s] = d, \A t \in Slots : t # s => call'[t] = call[t],
           s = Await(n) => Worked(call[s], d, n), Stamped(n),
           UNCHANGED clientVars, \A m \in NF : profiles'[m] \in {0, 6 * Grain}
    PROVE  TimeInv'
<1>1. UNCHANGED <<kind, pc, phase, wait, cached, waited>>
    BY DEF clientVars
<1>2. ClockInv'
    BY <1>1 DEF TimeInv, ClockInv, Stamped
<1>3. ASSUME NEW m \in NF, m # n PROVE SilentAt(m)' /\ TokenAt(m)'
    <2>1. Await(m) \in Slots /\ Await(m) # s
        BY <1>3, SlotsOf DEF Await
    <2>2. QED
        BY <1>1, <1>3, <2>1, Untouched DEF TimeInv, Stamped
<1>4. SilentAt(n)' /\ TokenAt(n)'
    <2>1. Await(n) \in Slots /\ Await(n)' = Await(n)
        BY SlotsOf DEF Await
    <2>2. SilentAt(n) /\ TokenAt(n) /\ wait[n] \in 0..3 * Grain /\ waited[n] \in Nat
        BY DEF TimeInv, ClockInv
    <2>3. /\ stamp'[n] \in Int /\ slip'[n] \in Nat /\ missed'[n] \in Nat
          /\ stamp[n] \in Int /\ slip[n] \in Nat /\ missed[n] \in Nat
        BY DEF Stamped, TimeInv, ClockInv
    <2>4. \A k \in 0..3 * Grain : Within(n, k) \/ stamp'[n] <= 0 => Within(n, k)'
        BY <2>3 DEF Within, Stamped
    <2>5. pc[n] = "calling" /\ ArrivedAt(n)' => ArrivedAt(n) \/ stamp'[n] <= 0
        <3>1. CASE s = Await(n)
            BY <2>1, <3>1 DEF ArrivedAt, Worked
        <3>2. CASE s # Await(n)
            BY <2>1, <3>2 DEF ArrivedAt
        <3>3. QED
            BY <3>1, <3>2
    <2>6. SilentAt(n)'
        <3>1. 3 * Grain - wait[n] \in 0..3 * Grain
            BY <2>2, Lengths
        <3>2. QED
            BY <1>1, <2>2, <2>4, <2>5, <3>1, Lengths DEF SilentAt, Running
    <2>7. TokenAt(n)'
        <3>1. CASE s = Await(n)
            <4> SUFFICES ASSUME ~kind[n].once, pc[n] = "calling" PROVE AskedAt(n)'
                BY <1>1, <2>2 DEF TokenAt, CacheAt, AskedAt
            <4>1. PICK c : c = call[s]
                OBVIOUS
            <4>2. c \in Call /\ TokenTtl \in Nat
                BY <4>1, RegistryAssumption DEF CallInv
            <4>3. /\ c.ttl \in Int /\ d.ttl \in Int /\ c.op = d.op /\ d.stage # "sent"
                  /\ \/ d.ttl = c.ttl
                     \/ /\ c.op = "token" /\ c.stage = "sent"
                        /\ 5 * d.ttl >= 5 * TokenTtl - Grain
                BY <3>1, <4>1, <4>2 DEF Worked, Call
            <4>4. AskedAt(n)
                BY <2>2 DEF TokenAt
            <4>5. /\ c.op = "token" /\ c.stage = "sent" => c.ttl = TokenTtl
                  /\ c.op = "token" /\ c.stage # "sent" =>
                          \/ Enough(waited[n])
                          \/ 5 * (c.ttl + waited[n]) >= 5 * TokenTtl - Grain
                  /\ c.op # "token" /\ c.stage = "sent" =>
                          \/ Enough(waited[n])
                          \/ 5 * (c.ttl + waited[n]) > 9 * Grain
                  /\ c.status = 401 => Enough(waited[n])
                BY <3>1, <4>1, <4>4 DEF AskedAt
            <4>6. d.op = "token" => \/ Enough(waited[n])
                                    \/ 5 * (d.ttl + waited[n]) >= 5 * TokenTtl - Grain
                <5>1. CASE c.op = "token" /\ c.stage = "sent"
                    BY <2>2, <4>2, <4>3, <4>5, <5>1, Lengths
                <5>2. CASE ~(c.op = "token" /\ c.stage = "sent")
                    BY <4>3, <4>5, <5>2
                <5>3. QED
                    BY <5>1, <5>2
            <4>7. d.status = 401 => Enough(waited[n])
                <5>1. \/ d.status = 401 => c.status = 401
                      \/ c.op # "token" /\ c.stage = "sent" /\ c.ttl < 0
                    BY <3>1, <4>1 DEF Worked
                <5>2. c.op # "token" /\ c.stage = "sent" /\ c.ttl < 0 => Enough(waited[n])
                    BY <2>2, <4>3, <4>5, Lengths DEF Enough
                <5>3. QED
                    BY <4>5, <5>1, <5>2
            <4>8. QED
                BY <1>1, <2>1, <3>1, <4>3, <4>6, <4>7 DEF AskedAt
        <3>2. CASE s # Await(n)
            <4>1. call'[Await(n)] = call[Await(n)]
                BY <2>1, <3>2
            <4>2. QED
                BY <1>1, <2>1, <2>2, <4>1 DEF TokenAt, CacheAt, AskedAt
        <3>3. QED
            BY <3>1, <3>2
    <2>8. QED
        BY <2>6, <2>7
<1>5. QED
    BY <1>2, <1>3, <1>4 DEF TimeInv

(* An answer that stamps nothing: 401, a token, 404, and the end of the     *)
(* handlers that have told.                                                 *)
LEMMA AnsweredTime ==
    ASSUME CallInv, TimeInv, NEW s \in Slots, call[s] # NoCall, NEW status \in Int,
           Answer(s, status), UNCHANGED clientVars, Stamped(s[1]),
           \A m \in NF : profiles'[m] \in {0, 6 * Grain},
           status = 401 => \/ call[s].status = 401
                           \/ call[s].op # "token" /\ call[s].stage = "sent" /\ call[s].ttl < 0,
           \/ call[s].op = "token" \/ status \in {401, 404} \/ stamp'[s[1]] <= 0
           \/ call[s].stage = "notify" /\ call[s].status = status
    PROVE  TimeInv'
<1>1. PICK n, c : n \in NF /\ s[1] = n /\ c = call[s]
    BY DEF Slots
<1>2. c \in Call /\ call \in [Slots -> Call \cup {NoCall}]
    BY <1>1 DEF CallInv
<1>3. PICK d : d = Answered(s, status)
    OBVIOUS
<1>4. call'[s] = d /\ \A t \in Slots : t # s => call'[t] = call[t]
    BY <1>2, <1>3 DEF Answer
<1>5. ASSUME s = Await(n) PROVE Worked(c, d, n)
    <2>1. d = [c EXCEPT !.stage = "answered", !.status = status]
        BY <1>1, <1>3, <1>5 DEF Answered, Await
    <2>2. /\ d \in Call /\ d.op = c.op /\ d.ttl = c.ttl
          /\ d.stage = "answered" /\ d.status = status
        BY <1>2, <2>1 DEF Call, Stages
    <2>3. QED
        BY <1>1, <2>2 DEF Worked, Arrived
<1>6. QED
    BY <1>1, <1>4, <1>5, Handled

(* A handler goes on to its stamp or to its notifications.                  *)
LEMMA WentOnTime ==
    ASSUME CallInv, TimeInv, NEW s \in Slots, call[s] # NoCall, NEW status \in {200, 201, 204},
           NEW stage \in {"patched", "notify"}, GoesOn(s, stage, status),
           UNCHANGED clientVars, Stamped(s[1]), \A m \in NF : profiles'[m] \in {0, 6 * Grain},
           stage = "notify" => stamp'[s[1]] <= 0
    PROVE  TimeInv'
<1>1. status \in Int
    OBVIOUS
<1>2. /\ \A t \in Slots : t # s => call'[t] = call[t]
      /\ call'[s].stage = stage /\ call'[s].op = call[s].op
      /\ call'[s] \in Call /\ call'[s].ttl = call[s].ttl /\ call'[s].status = status
    BY <1>1, WentOn
<1>3. PICK n, d : n \in NF /\ s[1] = n /\ d = call'[s]
    BY DEF Slots
<1>4. Worked(call[s], d, n)
    BY <1>2, <1>3 DEF Worked, Arrived
<1>5. QED
    BY <1>2, <1>3, <1>4, Handled

LEMMA HandleTime ==
    ASSUME CallInv, TimeInv, NEW s \in Slots, Handle(s)
    PROVE  TimeInv'
<1>1. UNCHANGED clientVars /\ s[1] \in NF
    BY DEF Handle, Slots
<1>2. /\ stamp \in [NF -> Int] /\ slip \in [NF -> Nat] /\ missed \in [NF -> Nat]
      /\ \A m \in NF : profiles[m] \in {0, 6 * Grain}
      /\ profiles \in [NF -> Nat]
    BY DEF TimeInv, ClockInv, CallInv
<1>3. \A n \in NF : UNCHANGED <<stamp, slip, missed>> => Stamped(n)
    BY <1>2 DEF Stamped
<1>4. call[s] # NoCall /\ call[s] \in Call
    BY DEF Handle, Unauthorized, IssueToken, UpdateNFInstance, DeregisterNFInstance,
           NotifyAndAnswer, RegisterNFInstance, TouchHeartbeat, CallInv
<1>5. CASE Unauthorized(s) /\ UNCHANGED historyVars
    <2>1. UNCHANGED <<stamp, slip, missed, profiles>> /\ Answer(s, 401)
        BY <1>5 DEF Unauthorized, historyVars
    <2>2. call[s].op # "token" /\ call[s].stage = "sent" /\ call[s].ttl < 0
        BY <1>4, <1>5 DEF Unauthorized, check_bearer, Call
    <2>3. QED
        BY <1>1, <1>2, <1>3, <1>4, <2>1, <2>2, AnsweredTime
<1>6. CASE IssueToken(s) /\ UNCHANGED historyVars
    <2>1. UNCHANGED <<stamp, slip, missed, profiles>>
        BY <1>6 DEF IssueToken, historyVars
    <2>2. PICK c, d :
            /\ c = call[s] /\ c.op = "token" /\ c.stage = "sent"
            /\ call' = [call EXCEPT ![s] = d]
            /\ d = NoCall \/ /\ d \in Call /\ d.op = "token"
                             /\ d.stage = "answered" /\ d.status = 200
                             /\ 5 * d.ttl >= 5 * TokenTtl - Grain
            /\ s = Await(s[1]) => d # NoCall
        BY <1>6, IssuedToken
    <2>3. call'[s] = d /\ \A t \in Slots : t # s => call'[t] = call[t]
        BY <2>2 DEF CallInv
    <2>4. s = Await(s[1]) => Worked(c, d, s[1])
        BY <2>2 DEF Worked, Arrived
    <2>5. PICK n : n \in NF /\ n = s[1]
        BY <1>1
    <2>6. Stamped(n)
        BY <1>3, <2>1, <2>5
    <2>7. QED
        BY <1>1, <1>2, <1>4, <2>1, <2>2, <2>3, <2>4, <2>5, <2>6, Handled
<1>7. CASE UpdateNFInstance(s) /\ UNCHANGED historyVars
    <2>1. UNCHANGED <<stamp, slip, missed, profiles>>
        BY <1>7 DEF UpdateNFInstance, apply_patch, historyVars
    <2>2. CASE GoesOn(s, "patched", 200)
        BY <1>1, <1>2, <1>3, <1>4, <2>1, <2>2, WentOnTime
    <2>3. CASE Answer(s, 404)
        BY <1>1, <1>2, <1>3, <1>4, <2>1, <2>3, AnsweredTime
    <2>4. QED
        BY <1>7, <2>2, <2>3 DEF UpdateNFInstance
<1>8. CASE DeregisterNFInstance(s) /\ UNCHANGED historyVars
    <2>1. remove(s[1]) /\ UNCHANGED <<slip, missed>>
        BY <1>8 DEF DeregisterNFInstance, historyVars
    <2>2. Stamped(s[1]) /\ stamp'[s[1]] <= 0 /\ \A m \in NF : profiles'[m] \in {0, 6 * Grain}
        BY <1>1, <1>2, <2>1 DEF remove, Stamped
    <2>3. CASE GoesOn(s, "notify", 204)
        BY <1>1, <1>4, <2>2, <2>3, WentOnTime
    <2>4. CASE Answer(s, 204)
        BY <1>1, <1>4, <2>2, <2>4, AnsweredTime
    <2>5. QED
        BY <1>8, <2>3, <2>4 DEF DeregisterNFInstance
<1>9. CASE NotifyAndAnswer(s, TRUE) /\ UNCHANGED historyVars
    <2>1. /\ UNCHANGED <<stamp, slip, missed, profiles>> /\ Answer(s, call[s].status)
          /\ call[s].stage = "notify" /\ call[s].status \in Int
        BY <1>4, <1>9 DEF NotifyAndAnswer, historyVars, Call
    <2>2. QED
        BY <1>1, <1>2, <1>3, <1>4, <2>1, AnsweredTime
<1>10. CASE RegisterNFInstance(s, kind[s[1]].timer) /\ Heard(s[1])
    <2>1. kind[s[1]].timer = 6 * Grain
        BY <1>1, TimerPositive DEF CallInv
    <2>2. Stamped(s[1]) /\ stamp'[s[1]] <= 0 /\ \A m \in NF : profiles'[m] \in {0, 6 * Grain}
        BY <1>1, <1>2, <1>10, <2>1 DEF RegisterNFInstance, put, Stamped, Heard
    <2>3. PICK status \in {200, 201} : GoesOn(s, "notify", status)
        BY <1>10 DEF RegisterNFInstance
    <2>4. QED
        BY <1>1, <1>4, <2>2, <2>3, WentOnTime
<1>11. CASE TouchHeartbeat(s) /\ Heard(s[1])
    <2>1. PICK n, c : n \in NF /\ n = s[1] /\ c = call[s]
        BY <1>1
    <2>2. PICK d : d = [c EXCEPT !.stage = "notify"]
        OBVIOUS
    <2>3. call' = [call EXCEPT ![s] = d] /\ call \in [Slots -> Call \cup {NoCall}]
        BY <1>11, <2>1, <2>2 DEF TouchHeartbeat, CallInv
    <2>4. call'[s] = d /\ \A t \in Slots : t # s => call'[t] = call[t]
        BY <2>3
    <2>5. /\ d \in Call /\ d.op = c.op /\ d.ttl = c.ttl /\ d.stage = "notify"
          /\ d.status = c.status
        BY <1>4, <2>1, <2>2 DEF Call, Stages
    <2>6. Stamped(n) /\ stamp'[n] <= 0 /\ UNCHANGED profiles
        BY <1>2, <1>11, <2>1 DEF TouchHeartbeat, touch_heartbeat, Stamped, Heard
    <2>7. Worked(c, d, n)
        BY <2>5, <2>6 DEF Worked
    <2>8. QED
        BY <1>1, <1>2, <1>4, <2>1, <2>4, <2>6, <2>7, Handled
<1>12. QED
    BY <1>5, <1>6, <1>7, <1>8, <1>9, <1>10, <1>11 DEF Handle

(* The sweep, and what happens beside the calls.                            *)
LEMMA BesideTime ==
    ASSUME CallInv, TimeInv, UNCHANGED <<clientVars, historyVars, call>>,
           stamp' \in [NF -> Int],
           \A n \in NF : /\ stamp'[n] = stamp[n] \/ stamp'[n] <= 0
                        /\ profiles'[n] \in {0, 6 * Grain}
    PROVE  TimeInv'
<1>1. UNCHANGED <<kind, pc, phase, wait, cached, waited, slip, missed, call>>
    BY DEF clientVars, historyVars
<1>2. ClockInv'
    BY <1>1 DEF TimeInv, ClockInv
<1>3. ASSUME NEW n \in NF PROVE SilentAt(n)' /\ TokenAt(n)'
    <2>1. SilentAt(n) /\ TokenAt(n) /\ wait[n] \in 0..3 * Grain
        BY DEF TimeInv, ClockInv
    <2>2. CASE stamp'[n] = stamp[n]
        BY <1>1, <2>1, <2>2, Untouched
    <2>3. CASE stamp'[n] <= 0
        <3>1. \A k \in 0..3 * Grain : Within(n, k)'
            BY <1>1, <2>3 DEF Within, TimeInv, ClockInv
        <3>2. SilentAt(n)'
            BY <1>1, <2>1, <3>1, Lengths DEF SilentAt
        <3>3. TokenAt(n)'
            BY <1>1, <2>1 DEF TokenAt, CacheAt, AskedAt, Await
        <3>4. QED
            BY <3>2, <3>3
    <2>4. QED
        BY <2>2, <2>3
<1>4. QED
    BY <1>2, <1>3 DEF TimeInv

LEMMA ServerTime ==
    ASSUME CallInv, TimeInv, Sweeping \/ NotificationLost \/ Subscriber
    PROVE  TimeInv'
<1>1. /\ stamp \in [NF -> Int] /\ \A m \in NF : profiles[m] \in {0, 6 * Grain}
    BY DEF TimeInv, ClockInv
<1>2. CASE Sweep /\ UNCHANGED <<clientVars, historyVars>>
    <2>1. /\ stamp' \in [NF -> Int]
          /\ \A n \in NF : /\ stamp'[n] = stamp[n] \/ stamp'[n] <= 0
                           /\ profiles'[n] \in {0, 6 * Grain}
        BY <1>1, <1>2 DEF Sweep, sweep_expired
    <2>2. QED
        BY <1>2, <2>1, BesideTime DEF Sweep
<1>3. CASE UNCHANGED <<clientVars, historyVars, stamp, profiles, call>>
    BY <1>1, <1>3, BesideTime
<1>4. ASSUME NEW s \in Slots, NotifyAndAnswer(s, FALSE), UNCHANGED <<clientVars, historyVars>>
      PROVE  TimeInv'
    <2>1. call[s] # NoCall /\ call[s] \in Call /\ s[1] \in NF
        BY <1>4 DEF NotifyAndAnswer, CallInv, Slots
    <2>2. /\ UNCHANGED <<stamp, slip, missed, profiles>> /\ Answer(s, call[s].status)
          /\ call[s].stage = "notify" /\ call[s].status \in Int
        BY <1>4, <2>1 DEF NotifyAndAnswer, historyVars, Call
    <2>3. Stamped(s[1])
        BY <2>1, <2>2 DEF Stamped, TimeInv, ClockInv
    <2>4. QED
        BY <1>1, <1>4, <2>1, <2>2, <2>3, AnsweredTime
<1>5. CASE Sweeping
    BY <1>2, <1>3, <1>5 DEF Sweeping, SweepNotify
<1>6. CASE NotificationLost
    BY <1>3, <1>4, <1>6 DEF NotificationLost, SweepNotify
<1>7. CASE Subscriber
    BY <1>3, <1>7 DEF Subscriber, CreateSubscription, UpdateSubscription, RemoveSubscription,
                      SubscriptionOp, SearchNFInstances
<1>8. QED
    BY <1>5, <1>6, <1>7

LEMMA RestartTime ==
    ASSUME CallInv, TimeInv, Restart
    PROVE  TimeInv'
<1>1. /\ UNCHANGED <<kind, pc, phase, wait, cached, waited, slip, missed>>
      /\ stamp' = [n \in NF |-> -1] /\ profiles' = [n \in NF |-> 0]
      /\ call' = [s \in Slots |-> NoCall]
    BY DEF Restart, RestartNrf, clientVars, historyVars
<1>2. ClockInv'
    BY <1>1 DEF TimeInv, ClockInv
<1>3. ASSUME NEW n \in NF PROVE SilentAt(n)' /\ TokenAt(n)'
    <2>1. call'[Await(n)] = NoCall /\ TokenAt(n) /\ wait[n] \in 0..3 * Grain
        BY <1>1, SlotsOf DEF TimeInv, ClockInv
    <2>2. \A k \in 0..3 * Grain : Within(n, k)'
        BY <1>1 DEF Within, TimeInv, ClockInv
    <2>3. SilentAt(n)'
        BY <1>1, <2>1, <2>2, Lengths DEF SilentAt
    <2>4. TokenAt(n)'
        BY <1>1, <2>1 DEF TokenAt, CacheAt, AskedAt, Await
    <2>5. QED
        BY <2>3, <2>4
<1>4. QED
    BY <1>2, <1>3 DEF TimeInv

----------------------------------------------------------------------------
(* The lifecycle thread of n: the others' clocks are not its business.      *)
LEMMA ThreadTime ==
    ASSUME TimeInv, NEW n \in NF,
           UNCHANGED <<kind, stamp, slip, profiles>>,
           \A m \in NF : m # n => /\ pc'[m] = pc[m] /\ wait'[m] = wait[m]
                                  /\ waited'[m] = waited[m] /\ cached'[m] = cached[m]
                                  /\ missed'[m] = missed[m]
                                  /\ call'[Await(m)] = call[Await(m)],
           wait' \in [NF -> 0..3 * Grain], waited' \in [NF -> Nat], missed' \in [NF -> Nat],
           cached' \in [NF -> [client : Nat, server : Int, took : Nat]],
           SilentAt(n)', TokenAt(n)'
    PROVE  TimeInv'
<1>1. ClockInv'
    BY DEF TimeInv, ClockInv
<1>2. ASSUME NEW m \in NF, m # n PROVE SilentAt(m)' /\ TokenAt(m)'
    BY <1>2, Untouched DEF TimeInv
<1>3. QED
    BY <1>1, <1>2 DEF TimeInv

(* A request for n is sent.                                                 *)
LEMMA SendTime ==
    ASSUME CallInv, TimeInv, NEW n \in NF, NEW op \in Methods, NEW ttl \in Int,
           Send(n, op, ttl), Running(n), UNCHANGED <<kind, wait, historyVars>>,
           \A m \in NF : m # n => waited'[m] = waited[m] /\ cached'[m] = cached[m],
           waited' \in [NF -> Nat],
           cached' \in [NF -> [client : Nat, server : Int, took : Nat]],
           ~kind[n].once => /\ CacheAt(n)'
                            /\ op = "token" => ttl = TokenTtl
                            /\ op # "token" =>
                                    \/ Enough(waited'[n])
                                    \/ 5 * (ttl + waited'[n]) > 9 * Grain
    PROVE  TimeInv'
<1>1. call \in [Slots -> Call \cup {NoCall}] /\ Await(n) \in Slots
    BY SlotsOf DEF CallInv
<1>2. PICK d : d = Request(op, ttl)
    OBVIOUS
<1>3. d # NoCall /\ d.op = op /\ d.stage = "sent" /\ d.ttl = ttl /\ d.status = 0
    BY <1>2 DEF Request, NoCall, Methods
<1>4. /\ call'[Await(n)] = d /\ \A m \in NF : m # n => call'[Await(m)] = call[Await(m)]
    BY <1>1, <1>2, SlotsOf DEF Send
<1>5. pc'[n] = "calling" /\ \A m \in NF : m # n => pc'[m] = pc[m]
    BY DEF Send, CallInv
<1>6. UNCHANGED <<stamp, slip, profiles, missed, wait, kind>>
    BY DEF Send, historyVars
<1>7. SilentAt(n)'
    <2>1. ~ArrivedAt(n)'
        BY <1>3, <1>4 DEF ArrivedAt, Arrived, Await
    <2>2. Within(n, 3 * Grain)'
        BY <1>6 DEF TimeInv, SilentAt, Within
    <2>3. QED
        BY <1>5, <2>1, <2>2 DEF SilentAt
<1>8. TokenAt(n)'
    BY <1>3, <1>4, <1>6 DEF TokenAt, AskedAt, Await
<1>9. QED
    BY <1>4, <1>5, <1>6, <1>7, <1>8, ThreadTime DEF TimeInv, ClockInv

LEMMA RequestTime ==
    ASSUME CallInv, ThreadInv, TimeInv, NEW n \in NF,
           FetchToken(n) \/ SendRequest(n) \/ ReceiveToken(n)
    PROVE  TimeInv'
<1>1. MethodOf(phase[n]) \in Methods /\ MethodOf(phase[n]) # "token"
    BY MethodIsMethod DEF MethodOf, ThreadInv
<1>2. Running(n)
    BY DEF FetchToken, SendRequest, ReceiveToken, Ready, Running
<1>3. /\ cached \in [NF -> [client : Nat, server : Int, took : Nat]]
      /\ waited \in [NF -> Nat] /\ TokenAt(n)
    BY DEF TimeInv, ClockInv
<1>4. /\ TokenTtl \in Nat /\ TokenTtl > 2 * Grain /\ TokenTtl \in Int
      /\ Grain \in Nat \ {0} /\ kSafetyMargin = 2 * Grain
    BY Lengths DEF kSafetyMargin
<1>5. CASE FetchToken(n)
    <2>1. /\ Send(n, "token", TokenTtl) /\ UNCHANGED <<kind, wait, historyVars, cached>>
          /\ waited' = [waited EXCEPT ![n] = 0]
        BY <1>5 DEF FetchToken
    <2>2. waited' \in [NF -> Nat] /\ \A m \in NF : m # n => waited'[m] = waited[m]
        BY <1>3, <2>1
    <2>3. ~kind[n].once => CacheAt(n)'
        BY <1>3, <2>1 DEF TokenAt, CacheAt
    <2>4. "token" \in Methods
        BY DEF Methods
    <2>5. QED
        BY <1>2, <1>3, <1>4, <2>1, <2>2, <2>3, <2>4, SendTime
<1>6. CASE SendRequest(n)
    <2>1. /\ Send(n, MethodOf(phase[n]), cached[n].server)
          /\ UNCHANGED <<kind, wait, historyVars, cached>>
          /\ waited' = [waited EXCEPT ![n] = cached[n].took]
        BY <1>6 DEF SendRequest
    <2>2. cached[n].client \in Nat /\ cached[n].server \in Int /\ cached[n].took \in Nat
        BY <1>3
    <2>3. /\ waited' \in [NF -> Nat] /\ waited'[n] = cached[n].took
          /\ \A m \in NF : m # n => waited'[m] = waited[m]
        BY <1>3, <2>1, <2>2
    <2>4. ~kind[n].once => CacheAt(n)'
        BY <1>3, <2>1 DEF TokenAt, CacheAt
    <2>5. ~kind[n].once => cached[n].client > 2 * Grain
        BY <1>4, <1>6 DEF SendRequest, Holds, usable
    <2>6. ~kind[n].once =>
            \/ Enough(waited'[n])
            \/ 5 * (cached[n].server + waited'[n]) > 9 * Grain
        <3>1. ~kind[n].once => CacheAt(n) /\ cached[n].client > 0
            BY <1>3, <1>4, <2>2, <2>5 DEF TokenAt
        <3>2. QED
            BY <1>4, <2>2, <2>3, <2>5, <3>1 DEF CacheAt
    <2>7. QED
        BY <1>1, <1>2, <1>3, <2>1, <2>2, <2>3, <2>4, <2>6, SendTime
<1>7. CASE ReceiveToken(n)
    <2>1. PICK c : c = call[Await(n)]
        OBVIOUS
    <2>2. /\ Send(n, MethodOf(phase[n]), c.ttl)
          /\ UNCHANGED <<kind, wait, historyVars, waited>>
          /\ cached' = [cached EXCEPT ![n] = [client |-> TokenTtl, server |-> c.ttl,
                                              took |-> waited[n]]]
          /\ pc[n] = "calling" /\ c # NoCall /\ c.op = "token" /\ c.stage = "answered"
        BY <1>7, <2>1 DEF ReceiveToken
    <2>3. c.ttl \in Int
        <3>1. Await(n) \in Slots
            BY SlotsOf
        <3>2. c \in Call
            BY <2>1, <2>2, <3>1 DEF CallInv
        <3>3. QED
            BY <3>2 DEF Call
    <2>4. ~kind[n].once =>
            \/ Enough(waited[n])
            \/ 5 * (c.ttl + waited[n]) >= 5 * TokenTtl - Grain
        BY <1>3, <2>1, <2>2 DEF TokenAt, AskedAt
    <2>5. /\ cached' \in [NF -> [client : Nat, server : Int, took : Nat]]
          /\ \A m \in NF : m # n => cached'[m] = cached[m]
          /\ cached'[n] = [client |-> TokenTtl, server |-> c.ttl, took |-> waited[n]]
        BY <1>3, <1>4, <2>2, <2>3
    <2>6. cached'[n].client = TokenTtl /\ cached'[n].server = c.ttl /\ cached'[n].took = waited[n]
        BY <2>5
    <2>7. ~kind[n].once => CacheAt(n)'
        BY <2>2, <2>4, <2>6 DEF CacheAt
    <2>8. ~kind[n].once => Enough(waited'[n]) \/ 5 * (c.ttl + waited'[n]) > 9 * Grain
        BY <1>3, <1>4, <2>2, <2>3, <2>4
    <2>9. QED
        BY <1>1, <1>2, <1>3, <2>2, <2>3, <2>5, <2>7, <2>8, SendTime
<1>8. QED
    BY <1>5, <1>6, <1>7

(* A call of n ends, and its thread with it or not.                         *)
LEMMA CallEnds ==
    ASSUME CallInv, TimeInv, NEW n \in NF, NEW place \in Places, place # "calling",
           pc' = [pc EXCEPT ![n] = place],
           \A m \in NF : m # n => call'[Await(m)] = call[Await(m)] /\ missed'[m] = missed[m]
                                  /\ wait'[m] = wait[m] /\ waited'[m] = waited[m]
                                  /\ cached'[m] = cached[m],
           waited' \in [NF -> Nat],
           cached' \in [NF -> [client : Nat, server : Int, took : Nat]],
           cached'[n] = cached[n] \/ cached'[n] = NoToken,
           wait' \in [NF -> 0..3 * Grain], missed' \in [NF -> Nat],
           UNCHANGED <<kind, stamp, slip, profiles>>,
           place \notin {"exited", "crashed"} => Within(n, 3 * Grain)',
           place = "asleep" => Within(n, 3 * Grain - wait[n])'
    PROVE  TimeInv'
<1>1. pc'[n] = place /\ \A m \in NF : m # n => pc'[m] = pc[m]
    BY DEF CallInv
<1>2. SilentAt(n)'
    BY <1>1 DEF SilentAt, Running
<1>3. TokenAt(n)'
    <2>1. TokenAt(n) => (~kind[n].once => CacheAt(n)')
        BY DEF TokenAt, CacheAt, NoToken
    <2>2. QED
        BY <1>1, <2>1 DEF TimeInv, TokenAt, AskedAt
<1>4. QED
    BY <1>1, <1>2, <1>3, ThreadTime DEF TimeInv, ClockInv

(* What is left of the calls of the others when one is answered or left.    *)
LEMMA OthersCalls ==
    ASSUME CallInv, NEW n \in NF,
           \/ UNCHANGED call \/ Leave(n) \/ call' = [call EXCEPT ![Await(n)] = NoCall]
    PROVE  \A m \in NF : m # n => call'[Await(m)] = call[Await(m)]
<1> SUFFICES ASSUME NEW m \in NF, m # n PROVE call'[Await(m)] = call[Await(m)]
    OBVIOUS
<1>1. call \in [Slots -> Call \cup {NoCall}]
    BY DEF CallInv
<1>2. PICK a, b, c : a = Await(n) /\ b = <<n, "abandoned">> /\ c = Await(m)
    OBVIOUS
<1>3. c \in Slots /\ c # a /\ c # b
    BY <1>2, SlotsOf DEF Await
<1>4. \/ UNCHANGED call \/ call' = [call EXCEPT ![a] = NoCall]
      \/ call' = [call EXCEPT ![a] = NoCall, ![b] = call[a]]
    BY <1>2 DEF Leave
<1>5. call'[c] = call[c]
    BY <1>1, <1>3, <1>4
<1>6. QED
    BY <1>2, <1>5

LEMMA AnswerTime ==
    ASSUME CallInv, ThreadInv, TimeInv, NEW n \in NF,
           ReceiveAnswer(n) \/ Broken(n) \/ Refused(n)
    PROVE  TimeInv'
<1>1. /\ UNCHANGED <<kind, stamp, slip, profiles, cached>> /\ pc[n] = "calling"
      /\ waited' \in [NF -> Nat] /\ \A m \in NF : m # n => waited'[m] = waited[m]
      /\ cached \in [NF -> [client : Nat, server : Int, took : Nat]]
    BY DEF ReceiveAnswer, Broken, Refused, registryVars, TimeInv, ClockInv
<1>2. \A m \in NF : m # n => call'[Await(m)] = call[Await(m)]
    <2>1. \/ UNCHANGED call \/ Leave(n) \/ call' = [call EXCEPT ![Await(n)] = NoCall]
        BY DEF ReceiveAnswer, Broken, Refused, registryVars
    <2>2. QED
        BY <2>1, OthersCalls
<1>3. /\ stamp[n] \in Int /\ slip[n] \in Nat /\ missed \in [NF -> Nat] /\ wait \in [NF -> 0..3 * Grain]
      /\ Within(n, 3 * Grain)
    BY <1>1 DEF TimeInv, ClockInv, SilentAt, Running
<1>4. kind[n].sleep = 3 * Grain /\ Pause(n) \in {Grain, 3 * Grain} /\ Grain \in Nat
    BY Pauses, Lengths DEF CallInv, Pause
<1>5. ArrivedAt(n) => Within(n, 0)
    BY <1>1 DEF TimeInv, SilentAt
<1>6. CASE AfterFailure(n) /\ (Miss(n) \/ (ArrivedAt(n) /\ UNCHANGED missed))
    <2>1. missed' \in [NF -> Nat] /\ \A m \in NF : m # n => missed'[m] = missed[m]
        BY <1>3, <1>4, <1>6, Lengths DEF Miss, Upto, SilenceCap
    <2>2. CASE kind[n].once
        <3>1. pc' = [pc EXCEPT ![n] = "exited"] /\ UNCHANGED wait
            BY <1>6, <2>2 DEF AfterFailure
        <3>2. "exited" \in Places
            BY DEF Places
        <3>3. QED
            BY <1>1, <1>2, <1>3, <2>1, <3>1, <3>2, CallEnds
    <2>3. CASE ~kind[n].once
        <3>1. pc' = [pc EXCEPT ![n] = "asleep"] /\ wait' = [wait EXCEPT ![n] = Pause(n)]
            BY <1>6, <2>3 DEF AfterFailure, Sleep
        <3>2. /\ wait' \in [NF -> 0..3 * Grain] /\ wait'[n] = Pause(n)
              /\ \A m \in NF : m # n => wait'[m] = wait[m]
            BY <1>3, <1>4, <3>1
        <3>5. \/ stamp[n] <= slip[n] + missed'[n] + (3 * Grain - Pause(n))
              \/ slip[n] > 4 * Grain
              \/ missed'[n] > 4 * Grain
            <4>1. missed[n] \in Nat
                BY <1>3
            <4>2. CASE Miss(n)
                <5>1. \/ missed'[n] = missed[n] + Pause(n)
                      \/ missed'[n] > 4 * Grain
                    BY <1>3, <1>4, <4>1, <4>2, Lengths DEF Miss, Upto, SilenceCap
                <5>2. QED
                    BY <1>3, <1>4, <4>1, <5>1, Lengths DEF Within
            <4>3. CASE ArrivedAt(n) /\ UNCHANGED missed
                BY <1>3, <1>4, <1>5, <4>1, <4>3 DEF Within
            <4>4. QED
                BY <1>6, <4>2, <4>3
        <3>6. Within(n, 3 * Grain)' /\ Within(n, 3 * Grain - wait[n])'
            <4>1. missed'[n] \in Nat
                BY <2>1
            <4>2. Within(n, 3 * Grain)'
                BY <1>1, <1>3, <1>4, <3>5, <4>1 DEF Within
            <4>3. 3 * Grain - Pause(n) = 3 * Grain - wait'[n]
                BY <3>2
            <4>4. QED
                BY <1>1, <3>5, <4>2, <4>3 DEF Within
        <3>7. "asleep" \in Places
            BY DEF Places
        <3>8. QED
            BY <1>1, <1>2, <2>1, <3>1, <3>2, <3>6, <3>7, CallEnds
    <2>4. QED
        BY <2>2, <2>3
<1>7. CASE AfterSuccess(n) /\ UNCHANGED missed /\ ArrivedAt(n)
    <2>1. CASE kind[n].once
        <3>1. PICK place \in {"exited", "running"} : pc' = [pc EXCEPT ![n] = place]
            BY <1>7, <2>1 DEF AfterSuccess
        <3>2. UNCHANGED <<wait, missed>> /\ place \in Places
            BY <1>7, <2>1 DEF AfterSuccess, Places
        <3>3. Within(n, 3 * Grain)'
            BY <1>1, <1>3, <3>2 DEF Within
        <3>4. QED
            BY <1>1, <1>2, <1>3, <3>1, <3>2, <3>3, CallEnds
    <2>2. CASE ~kind[n].once
        <3>1. pc' = [pc EXCEPT ![n] = "asleep"] /\ wait' = [wait EXCEPT ![n] = 3 * Grain]
            BY <1>4, <1>7, <2>2 DEF AfterSuccess, Sleep
        <3>2. /\ wait' \in [NF -> 0..3 * Grain] /\ wait'[n] = 3 * Grain
              /\ \A m \in NF : m # n => wait'[m] = wait[m]
            BY <1>3, <3>1, Lengths
        <3>3. Within(n, 3 * Grain)' /\ Within(n, 3 * Grain - wait[n])'
            BY <1>1, <1>3, <1>5, <1>7, <3>2 DEF Within
        <3>4. "asleep" \in Places
            BY DEF Places
        <3>5. QED
            BY <1>1, <1>2, <1>3, <1>7, <3>1, <3>2, <3>3, <3>4, CallEnds
    <2>3. QED
        BY <2>1, <2>2
<1>8. CASE ReceiveAnswer(n)
    <2>1. PICK c : c = call[Await(n)]
        OBVIOUS
    <2>2. c # NoCall /\ c.op # "token" /\ c.stage = "answered"
        BY <1>8, <2>1 DEF ReceiveAnswer
    <2>3. Accepted(n, c.status) => ArrivedAt(n)
        <3>1. phase[n] \in {"registering", "beating", "leaving"}
            BY DEF ThreadInv
        <3>2. Accepted(n, c.status) => c.status \in {200, 201, 204}
            BY <3>1 DEF Accepted
        <3>3. QED
            BY <2>1, <2>2, <3>2 DEF ArrivedAt, Arrived
    <2>4. QED
        BY <1>6, <1>7, <1>8, <2>1, <2>3 DEF ReceiveAnswer
<1>9. CASE Broken(n)
    BY <1>6, <1>9 DEF Broken, ArrivedAt
<1>10. CASE Refused(n)
    BY <1>6, <1>10 DEF Refused
<1>11. QED
    BY <1>8, <1>9, <1>10

LEMMA ProbeOrCrashTime ==
    ASSUME CallInv, TimeInv, NEW n \in NF, Probe(n) \/ Crash(n)
    PROVE  TimeInv'
<1>1. UNCHANGED <<kind, stamp, slip, profiles, missed>>
    BY DEF Probe, Crash, registryVars, historyVars
<1>7. /\ wait' \in [NF -> 0..3 * Grain] /\ waited' \in [NF -> Nat]
      /\ cached' \in [NF -> [client : Nat, server : Int, took : Nat]]
      /\ cached'[n] = cached[n] \/ cached'[n] = NoToken
      /\ \A m \in NF : m # n => /\ wait'[m] = wait[m] /\ waited'[m] = waited[m]
                               /\ cached'[m] = cached[m]
    <2>1. /\ wait \in [NF -> 0..3 * Grain] /\ waited \in [NF -> Nat]
          /\ cached \in [NF -> [client : Nat, server : Int, took : Nat]]
        BY DEF TimeInv, ClockInv
    <2>2. 0 \in 0..3 * Grain /\ NoToken \in [client : Nat, server : Int, took : Nat]
        BY Lengths DEF NoToken
    <2>3. CASE UNCHANGED <<wait, waited, cached>>
        BY <2>1, <2>3
    <2>4. CASE /\ wait' = [wait EXCEPT ![n] = 0] /\ waited' = [waited EXCEPT ![n] = 0]
               /\ cached' = [cached EXCEPT ![n] = NoToken]
        BY <2>1, <2>2, <2>4
    <2>5. QED
        BY <2>3, <2>4 DEF Probe, Crash
<1>2. \A m \in NF : m # n => call'[Await(m)] = call[Await(m)]
    <2>1. \/ UNCHANGED call \/ Leave(n)
        BY DEF Probe, Crash, registryVars
    <2>2. QED
        BY <2>1, OthersCalls
<1>3. PICK place \in {"running", "exited", "crashed"} : pc' = [pc EXCEPT ![n] = place]
    BY DEF Probe, Crash
<1>4. Within(n, 3 * Grain) /\ place \in Places
    BY DEF TimeInv, SilentAt, Running, Probe, Crash, Places
<1>5. Within(n, 3 * Grain)'
    BY <1>1, <1>4 DEF Within
<1>6. QED
    BY <1>1, <1>2, <1>3, <1>4, <1>5, <1>7, CallEnds DEF TimeInv, ClockInv

----------------------------------------------------------------------------
(* Time passes for the calls: only the lifetime of the token changes, and   *)
(* not before the token is issued.                                          *)
LEMMA FadedCall ==
    ASSUME NEW c \in Call
    PROVE  /\ Fading(c) \in Call /\ Fading(c).op = c.op /\ Fading(c).stage = c.stage
           /\ Fading(c).status = c.status /\ Fading(c).ttl >= c.ttl - 1
           /\ c.op = "token" /\ c.stage = "sent" => Fading(c).ttl = c.ttl
<1>1. c # NoCall /\ c.ttl \in Int /\ c.ttl - 1 \in Int
    BY CallIsCall DEF Call
<1>2. CASE c.ttl = -1 \/ (c.op = "token" /\ c.stage = "sent")
    <2>1. Fading(c) = c
        BY <1>1, <1>2 DEF Fading
    <2>2. QED
        BY <1>1, <2>1
<1>3. CASE ~(c.ttl = -1 \/ (c.op = "token" /\ c.stage = "sent"))
    <2>1. Fading(c) = [c EXCEPT !.ttl = c.ttl - 1]
        BY <1>1, <1>3 DEF Fading
    <2>2. QED
        BY <1>1, <1>3, <2>1 DEF Call
<1>4. QED
    BY <1>2, <1>3

(* A tick is slept, or counted as a delay.                                  *)
LEMMA TickSilent ==
    ASSUME CallInv, TimeInv, NEW n \in NF, Tick,
           ArrivedAt(n)' => ArrivedAt(n)
    PROVE  SilentAt(n)'
<1>1. /\ stamp[n] \in Int /\ slip[n] \in Nat /\ missed[n] \in Nat /\ wait[n] \in 0..3 * Grain
      /\ SilentAt(n)
    BY DEF TimeInv, ClockInv
<1>2. /\ stamp'[n] = Older(n) /\ wait'[n] = Less(wait[n]) /\ missed'[n] = missed[n]
      /\ slip'[n] = (IF Awake(n) THEN Upto(slip[n] + 1, SilenceCap) ELSE slip[n]) /\ pc'[n] = pc[n]
    BY DEF Tick, RegistryTick
<1>3. stamp'[n] \in Int /\ stamp'[n] <= stamp[n] + 1
    BY <1>1, <1>2, Lengths DEF Older, AgeCap
<1>4. /\ wait[n] = 0 => wait'[n] = 0
      /\ wait[n] > 0 => wait'[n] = wait[n] - 1
    BY <1>1, <1>2 DEF Less
<1>5. CASE Awake(n)
    <2>1. /\ slip'[n] = slip[n] + 1 \/ slip'[n] > 4 * Grain
          /\ slip[n] > 4 * Grain => slip'[n] > 4 * Grain
          /\ slip'[n] \in Nat
        BY <1>1, <1>2, <1>5, Lengths DEF Upto, SilenceCap
    <2>2. \A k \in 0..3 * Grain : Within(n, k) => Within(n, k)'
        BY <1>1, <1>2, <1>3, <2>1, Lengths DEF Within
    <2>3. pc[n] = "asleep" => wait[n] = 0
        BY <1>1, <1>5 DEF Awake
    <2>4. Running(n) => Within(n, 3 * Grain)'
        BY <1>1, <2>2, Lengths DEF SilentAt
    <2>5. pc[n] = "asleep" => Within(n, 3 * Grain - wait[n])'
        <3>1. ASSUME pc[n] = "asleep" PROVE Within(n, 3 * Grain)' /\ wait'[n] = 0
            BY <1>4, <2>3, <2>4, <3>1 DEF Running
        <3>2. QED
            BY <3>1, Lengths DEF Within
    <2>6. pc[n] = "calling" /\ ArrivedAt(n) => Within(n, 0)'
        BY <1>1, <2>2, Lengths DEF SilentAt
    <2>7. QED
        BY <1>2, <2>4, <2>5, <2>6 DEF SilentAt, Running
<1>6. CASE ~Awake(n)
    <2>1. slip'[n] = slip[n]
        BY <1>2, <1>6
    <2>2. CASE ~Running(n)
        BY <1>2, <2>2 DEF SilentAt, Running
    <2>3. CASE pc[n] = "asleep" /\ wait[n] > 0
        <3>1. Within(n, 3 * Grain - wait[n])
            BY <1>1, <2>3 DEF SilentAt
        <3>2. /\ wait'[n] \in 0..3 * Grain
              /\ 3 * Grain - wait'[n] = 3 * Grain - wait[n] + 1
            BY <1>1, <1>4, <2>3, Lengths
        <3>3. \/ stamp'[n] <= slip'[n] + missed'[n] + (3 * Grain - wait'[n])
              \/ slip'[n] > 4 * Grain
              \/ missed'[n] > 4 * Grain
            BY <1>1, <1>2, <1>3, <2>1, <3>1, <3>2, Lengths DEF Within
        <3>4. \/ stamp'[n] <= slip'[n] + missed'[n] + 3 * Grain
              \/ slip'[n] > 4 * Grain
              \/ missed'[n] > 4 * Grain
            BY <1>1, <1>2, <1>3, <2>1, <3>2, <3>3, Lengths
        <3>5. QED
            BY <1>2, <2>3, <3>3, <3>4 DEF SilentAt, Within
    <2>4. QED
        BY <1>6, <2>2, <2>3 DEF Awake
<1>7. QED
    BY <1>5, <1>6

(* The two clocks of a token tick alike.                                    *)
LEMMA TickCache ==
    ASSUME TimeInv, NEW n \in NF, Tick, CacheAt(n)
    PROVE  CacheAt(n)'
<1>1. cached[n].client \in Nat /\ cached[n].server \in Int /\ cached[n].took \in Nat
    BY DEF TimeInv, ClockInv
<1>2. /\ cached'[n].client = Less(cached[n].client) /\ cached'[n].took = cached[n].took
      /\ cached'[n].server = (IF cached[n].server = -1 THEN -1 ELSE cached[n].server - 1)
    BY DEF Tick
<1>3. cached'[n].server >= cached[n].server - 1 /\ cached'[n].server \in Int
    BY <1>1, <1>2
<1>4. cached'[n].client > 0 => cached'[n].client = cached[n].client - 1
    BY <1>1, <1>2 DEF Less
<1>5. SUFFICES ASSUME cached'[n].client > 0, ~Enough(cached'[n].took)
               PROVE  5 * (cached'[n].server + cached'[n].took) >= 5 * cached'[n].client - Grain
    BY DEF CacheAt
<1>6. cached[n].client > 0 /\ cached'[n].client = cached[n].client - 1
    BY <1>1, <1>2, <1>4, <1>5 DEF Less
<1>7. 5 * (cached[n].server + cached[n].took) >= 5 * cached[n].client - Grain
    BY <1>2, <1>5, <1>6 DEF CacheAt
<1>8. QED
    BY <1>1, <1>2, <1>3, <1>6, <1>7, Lengths

LEMMA TickTime ==
    ASSUME CallInv, TimeInv, Tick
    PROVE  TimeInv'
<1>1. /\ UNCHANGED <<kind, pc, profiles, missed>>
      /\ call' = [s \in Slots |-> Fading(call[s])]
      /\ \A m \in NF : waited'[m] = (IF pc[m] = "calling" THEN Upto(waited[m] + 1, DelayCap) ELSE waited[m])
    BY DEF Tick, RegistryTick
<1>2. ClockInv'
    <2>1. /\ \A k \in 0..3 * Grain : Less(k) \in 0..3 * Grain
          /\ \A k \in Nat : /\ Less(k) \in Nat /\ Upto(k + 1, DelayCap) \in Nat
                             /\ Upto(k + 1, SilenceCap) \in Nat
          /\ \A k \in Int : k - 1 \in Int
        BY Lengths DEF Less, Upto, DelayCap, SilenceCap
    <2>2. stamp' \in [NF -> Int]
        <3>1. ASSUME NEW m \in NF PROVE Older(m) \in Int
            BY Lengths DEF Older, AgeCap, TimeInv, ClockInv
        <3>2. QED
            BY <3>1 DEF Tick, RegistryTick
    <2>3. slip' \in [NF -> Nat]
        BY <2>1 DEF Tick, TimeInv, ClockInv
    <2>4. wait' \in [NF -> 0..3 * Grain]
        BY <2>1 DEF Tick, TimeInv, ClockInv
    <2>5. waited' \in [NF -> Nat]
        BY <2>1 DEF Tick, TimeInv, ClockInv
    <2>6. cached' \in [NF -> [client : Nat, server : Int, took : Nat]]
        <3>1. ASSUME NEW m \in NF
              PROVE  /\ Less(cached[m].client) \in Nat /\ cached[m].took \in Nat
                     /\ (IF cached[m].server = -1 THEN -1 ELSE cached[m].server - 1) \in Int
            BY <2>1 DEF TimeInv, ClockInv
        <3>2. QED
            BY <3>1 DEF Tick
    <2>7. QED
        BY <1>1, <2>2, <2>3, <2>4, <2>5, <2>6 DEF TimeInv, ClockInv
<1>3. ASSUME NEW n \in NF PROVE SilentAt(n)' /\ TokenAt(n)'
    <2>1. PICK a : a = Await(n)
        OBVIOUS
    <2>2. a \in Slots /\ Await(n)' = a
        BY <2>1, SlotsOf DEF Await
    <2>3. call'[a] = Fading(call[a]) /\ call[a] \in Call \cup {NoCall}
        BY <1>1, <2>2 DEF CallInv
    <2>4. CASE call[a] = NoCall
        <3>1. call'[a] = NoCall
            BY <2>3, <2>4 DEF Fading
        <3>2. SilentAt(n)'
            BY <2>2, <3>1, TickSilent DEF ArrivedAt
        <3>3. TokenAt(n)'
            BY <1>1, <2>2, <3>1, TickCache DEF TimeInv, TokenAt, AskedAt
        <3>4. QED
            BY <3>2, <3>3
    <2>5. CASE call[a] \in Call
        <3>1. PICK c, d : c = call[a] /\ d = call'[a]
            OBVIOUS
        <3>2. /\ d \in Call /\ d.op = c.op /\ d.stage = c.stage /\ d.status = c.status
              /\ d.ttl >= c.ttl - 1 /\ (c.op = "token" /\ c.stage = "sent" => d.ttl = c.ttl)
              /\ c.ttl \in Int /\ d.ttl \in Int /\ c # NoCall /\ d # NoCall
            <4>1. c \in Call /\ d = Fading(c)
                BY <2>3, <2>5, <3>1
            <4>2. QED
                BY <4>1, FadedCall, CallIsCall DEF Call
        <3>3. SilentAt(n)'
            <4>1. ArrivedAt(n)' => ArrivedAt(n)
                BY <2>1, <2>2, <3>1, <3>2 DEF ArrivedAt, Arrived
            <4>2. QED
                BY <4>1, TickSilent
        <3>4. TokenAt(n)'
            <4>1. CASE pc[n] # "calling"
                BY <1>1, <4>1, TickCache DEF TimeInv, TokenAt, AskedAt
            <4>2. CASE pc[n] = "calling" /\ ~kind[n].once
                <5>1. /\ waited[n] \in Nat /\ AskedAt(n) /\ CacheAt(n)
                      /\ waited'[n] = Upto(waited[n] + 1, DelayCap)
                    BY <1>1, <4>2 DEF TimeInv, ClockInv, TokenAt
                <5>2. waited'[n] \in Nat /\ (Enough(waited'[n]) \/ waited'[n] = waited[n] + 1)
                    BY <5>1, Lengths DEF Upto, DelayCap, Enough
                <5>3. Enough(waited[n]) => Enough(waited'[n])
                    BY <5>1, Lengths DEF Upto, DelayCap, Enough
                <5>4. /\ c.op = "token" /\ c.stage = "sent" => c.ttl = TokenTtl
                      /\ c.op = "token" /\ c.stage # "sent" =>
                             \/ Enough(waited[n])
                             \/ 5 * (c.ttl + waited[n]) >= 5 * TokenTtl - Grain
                      /\ c.op # "token" /\ c.stage = "sent" =>
                             Enough(waited[n]) \/ 5 * (c.ttl + waited[n]) > 9 * Grain
                      /\ c.status = 401 => Enough(waited[n])
                    BY <2>1, <3>1, <3>2, <4>2, <5>1 DEF AskedAt
                <5>5. TokenTtl \in Nat
                    BY RegistryAssumption
                <5>6. /\ d.op = "token" /\ d.stage = "sent" => d.ttl = TokenTtl
                      /\ d.op = "token" /\ d.stage # "sent" =>
                             \/ Enough(waited'[n])
                             \/ 5 * (d.ttl + waited'[n]) >= 5 * TokenTtl - Grain
                      /\ d.op # "token" /\ d.stage = "sent" =>
                             Enough(waited'[n]) \/ 5 * (d.ttl + waited'[n]) > 9 * Grain
                      /\ d.status = 401 => Enough(waited'[n])
                    BY <3>2, <5>1, <5>2, <5>3, <5>4, <5>5, Lengths
                <5>7. AskedAt(n)'
                    BY <2>1, <2>2, <3>1, <5>6 DEF AskedAt
                <5>8. QED
                    BY <5>1, <5>7, TickCache DEF TokenAt
            <4>3. CASE kind[n].once
                BY <1>1, <4>3 DEF TokenAt
            <4>4. QED
                BY <4>1, <4>2, <4>3
        <3>5. QED
            BY <3>3, <3>4
    <2>6. QED
        BY <2>3, <2>4, <2>5
<1>4. QED
    BY <1>2, <1>3 DEF TimeInv

----------------------------------------------------------------------------
LEMMA InitTime == Init => TimeInv
<1> SUFFICES ASSUME Init PROVE TimeInv
    OBVIOUS
<1>1. /\ stamp = [n \in NF |-> -1] /\ profiles = [n \in NF |-> 0]
      /\ pc = [n \in NF |-> "probing"] /\ wait = [n \in NF |-> 0]
      /\ cached = [n \in NF |-> [client |-> 0, server |-> -1, took |-> 0]]
      /\ slip = [n \in NF |-> 0] /\ missed = [n \in NF |-> 0] /\ waited = [n \in NF |-> 0]
    BY DEF Init, RegistryInit, NoToken
<1>2. ClockInv
    BY <1>1, Lengths DEF ClockInv
<1>3. ASSUME NEW n \in NF PROVE SilentAt(n) /\ TokenAt(n)
    <2>1. Within(n, 3 * Grain)
        BY <1>1, Lengths DEF Within
    <2>2. QED
        BY <1>1, <2>1 DEF SilentAt, TokenAt, CacheAt, AskedAt
<1>4. QED
    BY <1>2, <1>3 DEF TimeInv

LEMMA NextTime ==
    ASSUME CallInv, ThreadInv, TimeInv, [Next]_vars
    PROVE  TimeInv'
<1>1. ASSUME NEW n \in NF, Step(n) \/ Broken(n) \/ Crash(n) PROVE TimeInv'
    BY <1>1, RequestTime, AnswerTime, ProbeOrCrashTime DEF Step
<1>2. ASSUME NEW s \in Slots, Handle(s) PROVE TimeInv'
    BY <1>2, HandleTime
<1>3. CASE Sweeping \/ NotificationLost \/ Subscriber
    BY <1>3, ServerTime
<1>4. CASE Restart
    BY <1>4, RestartTime
<1>5. CASE Tick
    BY <1>5, TickTime
<1>6. CASE UNCHANGED vars
    <2>1. UNCHANGED <<call, profiles, stamp, pc, kind, cached, waited, wait, slip, missed>>
        BY <1>6 DEF vars, registryVars
    <2>2. ClockInv'
        BY <2>1 DEF TimeInv, ClockInv
    <2>3. ASSUME NEW n \in NF PROVE SilentAt(n)' /\ TokenAt(n)'
        BY <2>1, Untouched DEF TimeInv
    <2>4. QED
        BY <2>2, <2>3 DEF TimeInv
<1>7. QED
    BY <1>1, <1>2, <1>3, <1>4, <1>5, <1>6 DEF Next

(***************************************************************************)
(* A daemon's token is refused (check_bearer answers 401) only when the     *)
(* answer that brought it and the request that used it took more than 9 s  *)
(* together: the client's 10 s margin, less the second that exp may be cut *)
(* by, covers every smaller difference between its clock, which starts at  *)
(* the answer, and the NRF's, which starts at the issue.  Grain being any, *)
(* nothing in this is due to the length of a tick.                         *)
(***************************************************************************)
THEOREM TokensAccepted == Spec => []TokenAccepted
<1>1. TimeInv => TokenAccepted
    BY DEF TimeInv, TokenAt, AskedAt, TokenAccepted, Enough
<1>2. Inv => CallInv
    BY DEF Inv
<1>3. QED
    BY InitInv, InitTime, NextInv, NextTime, <1>1, <1>2, PTL DEF Spec

(* Only the sweep puts an instance on the queue.                            *)
LEMMA OnlySweepQueues ==
    ASSUME [Next]_vars, NEW n, n \in queue' \ queue
    PROVE  Sweep
<1>1. ASSUME NEW m \in NF, Step(m) \/ Broken(m) \/ Crash(m) PROVE UNCHANGED queue
    BY <1>1 DEF Step, Probe, FetchToken, SendRequest, ReceiveToken, ReceiveAnswer, Refused,
                Broken, Crash, Send, registryVars
<1>2. ASSUME NEW s \in Slots, Handle(s) PROVE UNCHANGED queue
    BY <1>2 DEF Handle, Unauthorized, IssueToken, UpdateNFInstance, DeregisterNFInstance,
                NotifyAndAnswer, RegisterNFInstance, TouchHeartbeat
<1>3. CASE NotificationLost \/ Subscriber \/ Restart \/ Tick
    <2>1. queue' \subseteq queue
        BY <1>3 DEF NotificationLost, NotifyAndAnswer, SweepNotify, Subscriber,
                    CreateSubscription, UpdateSubscription, RemoveSubscription,
                    SubscriptionOp, SearchNFInstances, Restart, RestartNrf, Tick,
                    RegistryTick
    <2>2. QED
        BY <2>1
<1>4. CASE Sweeping
    BY <1>4 DEF Sweeping, SweepNotify
<1>5. CASE UNCHANGED vars
    BY <1>5 DEF vars, registryVars
<1>6. QED
    BY <1>1, <1>2, <1>3, <1>4, <1>5 DEF Next

(***************************************************************************)
(* sweep_expired takes an NF whose process runs out of the registry only   *)
(* after more than 20 s of failed attempts and delays since its last       *)
(* stamp: timer and margin, less the half timer slept before the first     *)
(* attempt, leave that much room, however its retries, broken calls,       *)
(* refusals and stalls follow on each other and whenever the sweep runs.   *)
(* Grain being any, nothing in this is due to the length of a tick.        *)
(***************************************************************************)
THEOREM SilentAreSwept == Spec => SweptOnlyIfSilent
<1> DEFINE Rightly == \A n \in NF :
                        n \in queue' \ queue /\ Running(n) => missed[n] + slip[n] > 4 * Grain
<1>1. ASSUME TimeInv, [Next]_vars PROVE Rightly
    <2> SUFFICES ASSUME NEW n \in NF, n \in queue' \ queue, Running(n)
                 PROVE  missed[n] + slip[n] > 4 * Grain
        OBVIOUS
    <2>1. Sweep
        BY <1>1, OnlySweepQueues
    <2>2. expired(n, Grain)
        BY <2>1, Lengths DEF Sweep, sweep_expired, kHeartbeatExpiryMargin
    <2>3. /\ stamp[n] \in Int /\ slip[n] \in Nat /\ missed[n] \in Nat
          /\ profiles[n] \in {0, 6 * Grain} /\ Within(n, 3 * Grain)
        BY <1>1 DEF TimeInv, ClockInv, SilentAt
    <2>4. stamp[n] > 7 * Grain
        BY <2>2, <2>3, Lengths DEF expired, registered
    <2>5. QED
        BY <2>3, <2>4, Lengths DEF Within
<1>2. Inv => CallInv
    BY DEF Inv
<1>3. TimeInv /\ [Next]_vars => [Rightly]_vars
    BY <1>1
<1> HIDE DEF Rightly
<1>4. Spec => [][Rightly]_vars
    BY InitInv, InitTime, NextInv, NextTime, <1>2, <1>3, PTL DEF Spec
<1>5. QED
    BY <1>4 DEF SweptOnlyIfSilent, Rightly
=============================================================================
