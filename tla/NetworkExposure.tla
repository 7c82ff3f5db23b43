--------------------------- MODULE NetworkExposure ---------------------------
(***************************************************************************)
(* NEF (nfs/nef): subscriptions of application functions and NFs, in       *)
(* memory.  A traffic influence subscription is also pushed to UDR, after  *)
(* the store's mutex has been released and whatever becomes of the push.   *)
(***************************************************************************)
EXTENDS ResourceStore

PfdCatalogStore == Store("nef_pfd_catalog", FALSE, "refuse", "none", TRUE, "client")
PfdSubscriptionStore == Memory("nef_pfd_subscriptions", "refuse", "server")
DnaiMapSubStore == Memory("nef_dnai_map_subs", "refuse", "server")
EasDeploySubStore == Memory("nef_eas_deploy_subs", "refuse", "server")
NefSmContextStore == Memory("nef_sm_contexts", "refuse", "server")
EcsAddrCfgInfoSubStore == Memory("nef_ecs_addr_subs", "refuse", "server")
NefEventExposureSubStore == Memory("nef_event_exposure_subs", "refuse", "server")
TrafficInfluDataSubStore == Memory("nef_traffic_influence_subs", "refuse", "server")
InferEventSubStore == Memory("nef_inference_subs", "refuse", "server")
TrainEventsSubStore == Memory("nef_training_subs", "refuse", "server")
VflInferSubStore == Memory("nef_vfl_inference_subs", "refuse", "server")
NefVflTrainSubStore == Memory("nef_vfl_training_subs", "refuse", "server")
AfTrafficInfluenceSubStore ==
    Store("nef_af_traffic_influence", FALSE, "refuse", "push", FALSE, "server")

NefStores == {PfdCatalogStore, PfdSubscriptionStore, DnaiMapSubStore, EasDeploySubStore,
              NefSmContextStore, EcsAddrCfgInfoSubStore, NefEventExposureSubStore,
              TrafficInfluDataSubStore, InferEventSubStore, TrainEventsSubStore,
              VflInferSubStore, NefVflTrainSubStore, AfTrafficInfluenceSubStore}
----------------------------------------------------------------------------
PfdApplications(w, k) == store = PfdCatalogStore /\ Get(w, k)
PfdSubscriptions(w, k) ==
    /\ store = PfdSubscriptionStore
    /\ Create(w, k, Silent) \/ Update(w, k, Silent) \/ Remove(w, k, Silent)
\* Nnef_SMService, location and UE identifiers: answers without state.
NefStateless(w, k) == store = PfdCatalogStore /\ Get(w, k)
DnaiMapSubscriptions(w, k) ==
    /\ store = DnaiMapSubStore
    /\ Create(w, k, Silent) \/ Get(w, k) \/ Remove(w, k, Silent)
EasDeploySubscriptions(w, k) ==
    /\ store = EasDeploySubStore
    /\ Create(w, k, Silent) \/ Get(w, k) \/ Remove(w, k, Silent)
NefSmContexts(w, k) ==
    /\ store = NefSmContextStore
    /\ \/ Create(w, k, Silent) \/ Remove(w, k, Silent) \/ MergePatch(w, k, Silent)
       \/ Get(w, k)
UavAuthentication(w, k) == store = PfdCatalogStore /\ Get(w, k)
EcsAddressSubscriptions(w, k) ==
    /\ store = EcsAddrCfgInfoSubStore
    /\ \/ Create(w, k, Silent) \/ Get(w, k) \/ Update(w, k, Silent)
       \/ PatchThenGet(w, k, Silent) \/ Remove(w, k, Silent)
EventExposureSubscriptions(w, k) ==
    /\ store = NefEventExposureSubStore
    /\ Create(w, k, Silent) \/ Get(w, k) \/ Update(w, k, Silent) \/ Remove(w, k, Silent)
\* Nnef_TrafficInfluence towards the AF, mirrored in UDR's influenceData.
AfTrafficInfluenceSubscriptions(w, k) ==
    /\ store = AfTrafficInfluenceSubStore
    /\ \/ Get(w, k) \/ Create(w, k, Notify) \/ Update(w, k, Notify)
       \/ MergePatch(w, k, Notify)
AfTrafficInfluenceRemoval(w, k) ==
    store = AfTrafficInfluenceSubStore /\ Remove(w, k, Notify)
TrafficInfluenceSubscriptions(w, k) ==
    /\ store = TrafficInfluDataSubStore
    /\ Create(w, k, Silent) \/ Get(w, k) \/ Update(w, k, Silent) \/ Remove(w, k, Silent)
InferenceSubscriptions(w, k) ==
    /\ store = InferEventSubStore
    /\ \/ Create(w, k, Silent) \/ Update(w, k, Silent) \/ PatchThenGet(w, k, Silent)
       \/ Remove(w, k, Silent)
TrainingSubscriptions(w, k) ==
    /\ store = TrainEventsSubStore
    /\ \/ Create(w, k, Silent) \/ Update(w, k, Silent) \/ PatchThenGet(w, k, Silent)
       \/ Remove(w, k, Silent)
VflInferenceSubscriptions(w, k) ==
    /\ store = VflInferSubStore
    /\ \/ Create(w, k, Silent) \/ Get(w, k) \/ Update(w, k, Silent)
       \/ PatchThenGet(w, k, Silent) \/ Remove(w, k, Silent)
VflTrainingSubscriptions(w, k) ==
    /\ store = NefVflTrainSubStore
    /\ \/ Create(w, k, Silent) \/ Get(w, k) \/ Update(w, k, Silent)
       \/ PatchThenGet(w, k, Silent) \/ Remove(w, k, Silent)

NefRequest(w, k) ==
    /\ store \in NefStores
    /\ \/ PfdApplications(w, k) \/ PfdSubscriptions(w, k) \/ NefStateless(w, k)
       \/ DnaiMapSubscriptions(w, k) \/ EasDeploySubscriptions(w, k) \/ NefSmContexts(w, k)
       \/ UavAuthentication(w, k) \/ EcsAddressSubscriptions(w, k)
       \/ EventExposureSubscriptions(w, k) \/ AfTrafficInfluenceSubscriptions(w, k)
       \/ AfTrafficInfluenceRemoval(w, k) \/ TrafficInfluenceSubscriptions(w, k)
       \/ InferenceSubscriptions(w, k) \/ TrainingSubscriptions(w, k)
       \/ VflInferenceSubscriptions(w, k) \/ VflTrainingSubscriptions(w, k)
=============================================================================
