--------------------------- MODULE ServiceProducers ---------------------------
(***************************************************************************)
(* The smaller producers: BSF, NSSF, LMF, SMSF, GMLC, SCP, EIR, the        *)
(* subscriptions of NSACF and the SBI side of AMF, in memory; and the BSS  *)
(* services product-catalog, subscriber-management and roaming-            *)
(* interconnect, whose one thread writes PostgreSQL tables.                *)
(***************************************************************************)
EXTENDS ResourceStore

Events(name) == Store(name, FALSE, "refuse", "event", FALSE, "server")
BssTable(name) == Store(name, TRUE, "refuse", "none", FALSE, "server")

PcfBindingStore == Events("bsf_pcf_bindings")
BsfSubscriptionStore == Memory("bsf_subscriptions", "refuse", "server")
PcfForUeBindingStore == Events("bsf_pcf_ue_bindings")
PcfMbsBindingStore == Memory("bsf_pcf_mbs_bindings", "refuse", "server")
NssaiAvailabilityStore == Store("nssf_availability", FALSE, "refuse", "event", FALSE, "client")
NssaiAvailabilitySubscriptionStore == Memory("nssf_subscriptions", "refuse", "server")
UpSubscriptionStore == Memory("lmf_up_subscriptions", "refuse", "server")
LmfLocationContextStore == Memory("lmf_location_contexts", "refuse", "client")
UpConfigStore == Memory("lmf_up_configs", "refuse", "client")
DataExposureSubscriptionStore == Memory("lmf_data_exposure_subscriptions", "refuse", "server")
UeSmsContextStore == Memory("smsf_ue_contexts", "refuse", "client")
GmlcLocationContextStore == Memory("gmlc_location_contexts", "refuse", "client")
LocUpdateSubscriptionStore == Memory("gmlc_loc_update_subs", "refuse", "server")
GpsiAppLayerIdMappingStore == Store("gmlc_ids", FALSE, "refuse", "none", TRUE, "client")
ScpEventSubscriptionStore == Memory("scp_subscriptions", "refuse", "server")
EquipmentStatusStore == Store("eir_statuses", FALSE, "refuse", "none", TRUE, "client")
SacSubscriptionStore == Memory("nsacf_subscriptions", "refuse", "server")
UeContextStore == Memory("amf_ue_contexts", "refuse", "client")
UeN1N2SubscriptionStore == Memory("amf_ue_n1n2_subs", "refuse", "server")
NonUeN2SubscriptionStore == Memory("amf_non_ue_n2_subs", "refuse", "server")
AmfStatusSubscriptionStore == Memory("amf_status_subs", "refuse", "server")
AmfEventSubscriptionStore == Memory("amf_event_subs", "refuse", "server")
AmfSetEventSubscriptionStore == Memory("amf_set_event_subs", "refuse", "server")
MbsBroadcastContextStore == Memory("amf_mbs_broadcast_contexts", "refuse", "server")
ProductOfferingStore == BssTable("bss_offerings")
ProductOfferingPriceStore == BssTable("bss_offering_prices")
ProductSpecificationStore == BssTable("bss_specifications")
PartyIndividualStore == BssTable("bss_individuals")
PartyOrganizationStore == BssTable("bss_organizations")
AccountStore == BssTable("bss_accounts")
SubscriberStore == BssTable("bss_subscribers")
InterconnectAgreementStore == BssTable("bss_agreements")

ProducerStores ==
    {PcfBindingStore, BsfSubscriptionStore, PcfForUeBindingStore, PcfMbsBindingStore,
     NssaiAvailabilityStore, NssaiAvailabilitySubscriptionStore, UpSubscriptionStore,
     LmfLocationContextStore, UpConfigStore, DataExposureSubscriptionStore,
     UeSmsContextStore, GmlcLocationContextStore, LocUpdateSubscriptionStore,
     GpsiAppLayerIdMappingStore, ScpEventSubscriptionStore, EquipmentStatusStore,
     SacSubscriptionStore, UeContextStore, UeN1N2SubscriptionStore, NonUeN2SubscriptionStore,
     AmfStatusSubscriptionStore, AmfEventSubscriptionStore, AmfSetEventSubscriptionStore,
     MbsBroadcastContextStore, ProductOfferingStore,
     ProductOfferingPriceStore, ProductSpecificationStore, PartyIndividualStore,
     PartyOrganizationStore, AccountStore, SubscriberStore, InterconnectAgreementStore}
----------------------------------------------------------------------------
(* BSF: one binding per combination of subscriber, DNN and slice *)
CreatePcfBinding(w, k) ==
    store = PcfBindingStore /\ (FindThenCreate(w, k, Notify) \/ Get(w, k))
DeletePcfBinding(w, k) ==
    store = PcfBindingStore /\ (Remove(w, k, Notify) \/ MergePatch(w, k, Silent))
BsfSubscriptions(w, k) ==
    /\ store = BsfSubscriptionStore
    /\ Create(w, k, Silent) \/ Update(w, k, Silent) \/ Remove(w, k, Silent)
PcfForUeBindings(w, k) ==
    /\ store = PcfForUeBindingStore
    /\ \/ FindThenCreate(w, k, Notify) \/ Get(w, k) \/ Remove(w, k, Notify)
       \/ MergePatch(w, k, Silent)
PcfMbsBindings(w, k) ==
    /\ store = PcfMbsBindingStore
    /\ \/ FindThenCreate(w, k, Silent) \/ Get(w, k) \/ MergePatch(w, k, Silent)
       \/ Remove(w, k, Silent)

(* NSSF: a removal is not notified *)
SliceSelection(w, k) == store = NssaiAvailabilityStore /\ Get(w, k)
NssaiAvailabilitySubscriptions(w, k) ==
    /\ store = NssaiAvailabilitySubscriptionStore
    /\ Create(w, k, Silent) \/ Remove(w, k, Silent) \/ ApplyPatch(w, k, Silent)
NssaiAvailability(w, k) ==
    /\ store = NssaiAvailabilityStore
    /\ \/ Overwrite(w, k, Notify, Replaced) \/ ApplyPatch(w, k, Notify)
       \/ PatchKeptThoughRefused(w, k) \/ Remove(w, k, Silent)

(* LMF, SMSF, GMLC, SCP, EIR, NSACF *)
DetermineLocation(w, k) == store = LmfLocationContextStore /\ Get(w, k)
UpSubscriptions(w, k) ==
    store = UpSubscriptionStore /\ (Create(w, k, Silent) \/ Remove(w, k, Silent))
LocationContextTransfer(w, k) ==
    store = LmfLocationContextStore /\ Overwrite(w, k, Silent, Unsaid)
ConfigureUp(w, k) ==
    store = UpConfigStore /\ (Overwrite(w, k, Silent, Unsaid) \/ Remove(w, k, Silent))
CipherKeyData(w, k) == store = LmfLocationContextStore /\ Get(w, k)
DataExposureSubscriptions(w, k) ==
    /\ store = DataExposureSubscriptionStore
    /\ Create(w, k, Silent) \/ ApplyPatch(w, k, Silent) \/ Remove(w, k, Silent)
\* Mutant: whether the context is new is asked before put(), not by it.
UeSmsContextsCheckedFirst(w, k) ==
    /\ store = UeSmsContextStore
    /\ CheckThenPut(w, k, Silent) \/ MergePatch(w, k, Silent) \/ Remove(w, k, Silent)
UeSmsContexts(w, k) ==
    /\ store = UeSmsContextStore
    /\ Put(w, k, Silent) \/ MergePatch(w, k, Silent) \/ Remove(w, k, Silent)
SendSms(w, k) == store = UeSmsContextStore /\ Get(w, k)
ProvideLocation(w, k) == store = GmlcLocationContextStore /\ Get(w, k)
LocationUpdate(w, k) == store = GmlcLocationContextStore /\ Overwrite(w, k, Silent, Unsaid)
LocUpdateSubscriptions(w, k) == store = LocUpdateSubscriptionStore /\ Create(w, k, Silent)
PrivacyCheck(w, k) == store = GpsiAppLayerIdMappingStore /\ Get(w, k)
ScpSubscriptions(w, k) ==
    /\ store = ScpEventSubscriptionStore
    /\ Create(w, k, Silent) \/ ApplyPatch(w, k, Silent) \/ Remove(w, k, Silent)
GetEquipmentStatus(w, k) == store = EquipmentStatusStore /\ Get(w, k)
CreateSacSubscription(w, k) == store = SacSubscriptionStore /\ Create(w, k, Silent)
SacSubscriptions(w, k) ==
    /\ store = SacSubscriptionStore
    /\ ReadThenPut(w, k, Silent) \/ Update(w, k, Silent) \/ Remove(w, k, Silent)

(* AMF: UE contexts created by a peer, and its subscriptions *)
UeContexts(w, k) ==
    /\ store = UeContextStore
    /\ Overwrite(w, k, Silent, Created) \/ CheckThenRemove(w, k, Silent)
UeContextOperations(w, k) == store = UeContextStore /\ Get(w, k)
UeN1N2Subscriptions(w, k) ==
    /\ store = UeN1N2SubscriptionStore
    /\ Create(w, k, Silent) \/ CheckThenRemove(w, k, Silent)
NonUeN2Subscriptions(w, k) ==
    /\ store = NonUeN2SubscriptionStore
    /\ Create(w, k, Silent) \/ CheckThenRemove(w, k, Silent)
AmfStatusSubscriptions(w, k) ==
    /\ store = AmfStatusSubscriptionStore
    /\ Create(w, k, Silent) \/ CheckThenRemove(w, k, Silent) \/ Update(w, k, Silent)
AmfLocation(w, k) == store = UeContextStore /\ Get(w, k)
AmfEventSubscriptions(w, k) ==
    /\ store = AmfEventSubscriptionStore
    /\ Create(w, k, Silent) \/ ReadThenPut(w, k, Silent) \/ CheckThenRemove(w, k, Silent)
AmfSetEventSubscriptions(w, k) ==
    /\ store = AmfSetEventSubscriptionStore
    /\ Create(w, k, Silent) \/ ReadThenPut(w, k, Silent) \/ CheckThenRemove(w, k, Silent)
MbsTransfers(w, k) == store = MbsBroadcastContextStore /\ Get(w, k)
MbsBroadcastContexts(w, k) ==
    /\ store = MbsBroadcastContextStore
    /\ Create(w, k, Silent) \/ CheckThenRemove(w, k, Silent) \/ Get(w, k)
MtDelivery(w, k) == store = UeContextStore /\ Get(w, k)

(* BSS *)
ProductOfferings(w, k) ==
    /\ store = ProductOfferingStore
    /\ Create(w, k, Silent) \/ Get(w, k) \/ Remove(w, k, Silent)
ProductOfferingPrices(w, k) ==
    /\ store = ProductOfferingPriceStore
    /\ Create(w, k, Silent) \/ Get(w, k) \/ Remove(w, k, Silent)
ProductSpecifications(w, k) ==
    /\ store = ProductSpecificationStore
    /\ Create(w, k, Silent) \/ Get(w, k) \/ Remove(w, k, Silent)
Individuals(w, k) == store = PartyIndividualStore /\ (Create(w, k, Silent) \/ Get(w, k))
Organizations(w, k) == store = PartyOrganizationStore /\ (Create(w, k, Silent) \/ Get(w, k))
Accounts(w, k) == store = AccountStore /\ (Create(w, k, Silent) \/ Get(w, k))
Subscribers(w, k) == store = SubscriberStore /\ (Create(w, k, Silent) \/ Get(w, k))
Agreements(w, k) == store = InterconnectAgreementStore /\ (Create(w, k, Silent) \/ Get(w, k))

ProducerRequest(w, k) ==
    /\ store \in ProducerStores
    /\ \/ CreatePcfBinding(w, k) \/ DeletePcfBinding(w, k) \/ BsfSubscriptions(w, k)
       \/ PcfForUeBindings(w, k) \/ PcfMbsBindings(w, k) \/ SliceSelection(w, k)
       \/ NssaiAvailabilitySubscriptions(w, k) \/ NssaiAvailability(w, k)
       \/ DetermineLocation(w, k) \/ UpSubscriptions(w, k) \/ LocationContextTransfer(w, k)
       \/ ConfigureUp(w, k) \/ CipherKeyData(w, k) \/ DataExposureSubscriptions(w, k)
       \/ UeSmsContexts(w, k) \/ SendSms(w, k) \/ ProvideLocation(w, k)
       \/ LocationUpdate(w, k) \/ LocUpdateSubscriptions(w, k) \/ PrivacyCheck(w, k)
       \/ ScpSubscriptions(w, k) \/ GetEquipmentStatus(w, k) \/ CreateSacSubscription(w, k)
       \/ SacSubscriptions(w, k) \/ UeContexts(w, k) \/ UeContextOperations(w, k)
       \/ UeN1N2Subscriptions(w, k) \/ NonUeN2Subscriptions(w, k)
       \/ AmfStatusSubscriptions(w, k) \/ AmfLocation(w, k) \/ AmfEventSubscriptions(w, k)
       \/ AmfSetEventSubscriptions(w, k) \/ MbsTransfers(w, k)
       \/ MbsBroadcastContexts(w, k) \/ MtDelivery(w, k) \/ ProductOfferings(w, k)
       \/ ProductOfferingPrices(w, k) \/ ProductSpecifications(w, k) \/ Individuals(w, k)
       \/ Organizations(w, k) \/ Accounts(w, k) \/ Subscribers(w, k) \/ Agreements(w, k)
=============================================================================
