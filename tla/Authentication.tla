--------------------------- MODULE Authentication ---------------------------
(***************************************************************************)
(* 5G-AKA in the home network: the UDM's AuthenticationSubscriptionStore,  *)
(* which numbers the vectors with a sequence number per subscriber, and    *)
(* the AUSF's authentication contexts and KausfStore.  Both the            *)
(* subscription store and the contexts are in memory: a restart seeds the  *)
(* sequence numbers anew and starts the context ids at 1 again.            *)
(*                                                                         *)
(* RAND is random, so RES*, KAUSF and everything derived from a vector is  *)
(* its own: a vector is its place in `vectors' and stands for all of them. *)
(***************************************************************************)
EXTENDS Integers, Sequences, FiniteSets

CONSTANTS
    UE,           \* subscribers (SUPIs)
    ResyncJump,   \* what resync_sqn adds to the USIM's number (code: 2^16)
    MaxVectors    \* bound on the vectors generated

ASSUME AuthenticationAssumption ==
    ResyncJump \in Nat \ {0} /\ MaxVectors \in Nat

VARIABLES
    sqn,          \* AuthenticationSubscriptionStore: the next vector's SQN
    vectors,      \* every vector generated: <<[ue, sqn], ...>>
    contexts,     \* AuthContextStore: id -> vector, 0 if removed
    kausf         \* KausfStore: the vector whose KAUSF is stored, or 0

authVars == <<sqn, vectors, contexts, kausf>>

seed == 1         \* the SQN a subscriber is seeded with

Vector == 1..MaxVectors

AuthTypeOK ==
    /\ sqn \in [UE -> Nat]
    /\ vectors \in Seq([ue : UE, sqn : Nat]) /\ Len(vectors) <= MaxVectors
    /\ contexts \in Seq(0..MaxVectors)
    /\ kausf \in [UE -> 0..MaxVectors]

AuthInit ==
    /\ sqn = [u \in UE |-> seed]
    /\ vectors = << >> /\ contexts = << >>
    /\ kausf = [u \in UE |-> 0]

----------------------------------------------------------------------------
(***************************************************************************)
(* Nudm_UEAuthentication GenerateAuthData.  `resync' is <<>> or carries    *)
(* the RAND (a vector) and the AUTS, itself made for a RAND: it verifies   *)
(* only against that one, and a request with a bad AUTS changes nothing.   *)
(***************************************************************************)
NoResync == [rand |-> 0, auts |-> [rand |-> 0, sqn |-> 0]]

verified(resync) == resync.rand = resync.auts.rand

resync_sqn_to_ms(u, resync) == IF resync = NoResync THEN sqn[u] ELSE resync.auts.sqn

resync_sqn(u, resync) ==
    IF resync = NoResync THEN sqn[u] ELSE resync.auts.sqn + ResyncJump

get_and_advance_sqn(u, s) ==
    /\ Len(vectors) < MaxVectors
    /\ vectors' = Append(vectors, [ue |-> u, sqn |-> s])
    /\ sqn' = [sqn EXCEPT ![u] = s + 1]

GenerateAuthData(u, resync) ==
    verified(resync) /\ get_and_advance_sqn(u, resync_sqn(u, resync))

\* GenerateProseAV, GenerateAv, GenerateGbaAv: vectors for other domains.
GenerateOtherAv(u) ==
    /\ get_and_advance_sqn(u, sqn[u])
    /\ UNCHANGED <<contexts, kausf>>

RestartUdm ==
    /\ sqn' = [u \in UE |-> seed]
    /\ UNCHANGED <<vectors, contexts, kausf>>

----------------------------------------------------------------------------
(***************************************************************************)
(* Nausf_UEAuthentication.                                                 *)
(***************************************************************************)
\* POST ue-authentications: the context's id is the next one.
PostUeAuthentications(u, resync) ==
    /\ GenerateAuthData(u, resync)
    /\ contexts' = Append(contexts, Len(vectors) + 1)
    /\ UNCHANGED kausf

\* The request fails: nothing was done, the UDM's answer was lost on the way
\* to the AUSF, or the AUSF's on the way to the AMF.
PostUeAuthenticationsFails(u, resync) ==
    \/ UNCHANGED authVars
    \/ GenerateAuthData(u, resync) /\ UNCHANGED <<contexts, kausf>>
    \/ PostUeAuthentications(u, resync)

found(id) == id \in 1..Len(contexts) /\ contexts[id] # 0

\* PUT 5g-aka-confirmation: RES* against the context's XRES*.
confirmed(id, res) == found(id) /\ res = contexts[id]

store_fresh_kausf(id) ==
    /\ kausf' = [kausf EXCEPT ![vectors[contexts[id]].ue] = contexts[id]]
    /\ UNCHANGED <<sqn, vectors, contexts>>

\* DELETE 5g-aka-confirmation.
RemoveContext(id) ==
    /\ found(id)
    /\ contexts' = [contexts EXCEPT ![id] = 0]
    /\ UNCHANGED <<sqn, vectors, kausf>>

\* POST ue-authentications/deregister: remove_by_supi.
Deregister(u) ==
    /\ \E id \in 1..Len(contexts) : found(id) /\ vectors[contexts[id]].ue = u
    /\ contexts' = [id \in 1..Len(contexts) |->
                       IF found(id) /\ vectors[contexts[id]].ue = u THEN 0 ELSE contexts[id]]
    /\ UNCHANGED <<sqn, vectors, kausf>>

RestartAusf ==
    /\ contexts' = << >>
    /\ UNCHANGED <<sqn, vectors, kausf>>
=============================================================================
