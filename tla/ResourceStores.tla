--------------------------- MODULE ResourceStores ---------------------------
(***************************************************************************)
(* All resource stores of the core and the BSS, each under the requests of *)
(* all its routes at once, and what their consumers may rely on.           *)
(***************************************************************************)
EXTENDS DataManagement, PolicyControl, NetworkExposure, ServiceProducers

AllStores == UdrStores \cup UdmStores \cup PcfStores \cup NefStores \cup ProducerStores

Request ==
    \E w \in Workers, k \in Keys :
        UdrRequest(w, k) \/ UdmRequest(w, k) \/ PcfRequest(w, k) \/ NefRequest(w, k)
        \/ ProducerRequest(w, k)
Next == Request \/ Background
Spec == Init /\ [][Next]_vars
----------------------------------------------------------------------------
\* The stores some route of which looks, lets go of the mutex and comes back.
TwoStepStores ==
    {SmfRegistrationStore, ExposureDataSubsStore,                               \* UDR
     FiveGVnGroupStore, MbsGroupMembershipStore,                                \* UDM at UDR
     AmfRegistrationStore, AmfNon3GppRegistrationStore, SmsfRegistrationStore,  \* UDM
     IpSmGwRegistrationStore, RoamingInfoUpdateStore, UdmSmfRegistrationStore,
     NwdafRegistrationStore, SdmSubscriptionStore, SharedDataSubscriptionStore,
     EeSubscriptionStore,
     EcsAddrCfgInfoSubStore, InferEventSubStore, TrainEventsSubStore,           \* NEF
     VflInferSubStore, NefVflTrainSubStore,
     PcfBindingStore, PcfForUeBindingStore, PcfMbsBindingStore,                 \* BSF
     SacSubscriptionStore,                                                      \* NSACF
     UeContextStore, UeN1N2SubscriptionStore, NonUeN2SubscriptionStore,         \* AMF
     AmfStatusSubscriptionStore, AmfEventSubscriptionStore,
     AmfSetEventSubscriptionStore, MbsBroadcastContextStore}
    \cup PcfStores
\* The store that keeps a patch it has answered 400 to.
UncheckedStores == {NssaiAvailabilityStore}

\* The stores with a PUT that always answers 201 (UDR's first five, AMF) or always
\* 200 (the others), whether the document was there or not.
FixedStatusStores ==
    {UsageMonDataStore, BdtDataStore, PdtqDataStore,                            \* UDR
     FiveGVnGroupStore, MbsGroupMembershipStore,                                \* and UDM at it
     TrafficInfluenceSubStore, ApplicationDataSubsStore,
     UeContextStore, NssaiAvailabilityStore}                                    \* AMF, NSSF

Exact(k) ==
    /\ store \notin UncheckedStores
    /\ store \in TwoStepStores => <<k, "write">> \notin overlapped

StoreTypeOK ==
    /\ store \in Stores
    /\ doc \in [Keys -> Document \cup {Absent}]
    /\ truth \in [Keys -> Document \cup {Absent}]
    /\ \A w \in Workers :
          \/ work[w] = Free
          \/ work[w].at = "checked" /\ work[w].key \in Keys /\ work[w].request \in 1 .. MaxRequests
          \/ /\ work[w].at \in {"list", "send"}
             /\ work[w].key \in Keys /\ work[w].change \in Change
    /\ requests \in 0 .. MaxRequests
    /\ issued \subseteq Keys
    /\ subs \in [Watchers -> Scopes]
    /\ copy \in [Watchers -> Document \cup {Absent}]
    /\ overlapped \subseteq Keys \X {"write", "notify"}
    /\ misreported \subseteq Keys
    /\ missed \subseteq Watchers

\* No update is lost, and none comes back after a removal: a document is what
\* its requests make of it one after the other. Where a handler's look at the
\* store and its write are two critical sections, this needs that no other
\* request for the document comes in between.
NoLostUpdate == \A k \in Keys : Exact(k) => doc[k] = truth[k]

\* A route that tells its caller whether it created, replaced or removed the
\* document tells the truth, whatever other requests for it run at the time: of
\* several PUTs of a new document one is answered 201, of several DELETEs one is
\* answered 204.  A status that says nothing of this (204 to every PUT, 200 to a
\* patch that may create) cannot be wrong; in FixedStatusStores it often is, as
\* the PUT of a document already there is answered 201 or of a new one 200.
AnswersTrue ==
    \A k \in Keys : Exact(k) /\ store \notin FixedStatusStores => k \notin misreported

\* A subscriber of a document's changes, and UDR's copy of what NEF pushes, end
\* up with the document once the handlers working on it are done, provided no
\* delivery to it was lost, no route kept silent, and no two requests for the
\* document overlapped, whose notifications may arrive in either order.
WatcherFollows ==
    \A s \in Watchers :
        LET k == Watch[s]
        IN  (/\ subs[s] # "none" /\ s \in WatchersOf(k) \ missed /\ Exact(k)
             /\ \A p \in {"write", "notify"} : <<k, p>> \notin overlapped
             /\ \A w \in Workers : ~BusyOn(w, k))
            => copy[s] = doc[k]
=============================================================================
