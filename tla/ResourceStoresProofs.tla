------------------------ MODULE ResourceStoresProofs ------------------------
(***************************************************************************)
(* No update of a document is lost, every answer is true and a subscriber  *)
(* follows its document, in any store, with any number of threads,         *)
(* documents, subscribers and requests.  The routes are first sorted by    *)
(* what their handlers do with the store; the argument is then about the   *)
(* kinds of handlers.                                                      *)
(***************************************************************************)
EXTENDS ResourceStores, TLAPS

(* The stores of BSF whose handlers search before they create.              *)
FindStores == {PcfBindingStore, PcfForUeBindingStore, PcfMbsBindingStore}
FindNames == {"bsf_pcf_bindings", "bsf_pcf_ue_bindings", "bsf_pcf_mbs_bindings"}

(* A PUT with one status: it says nothing of the document that was there,   *)
(* or the store is one of those AnswersTrue says nothing of.                *)
Overwrites(w, k, n) ==
    \E status : /\ Overwrite(w, k, n, status)
                /\ status = Unsaid \/ store \in FixedStatusStores

(* A handler whose look and write are one critical section.                 *)
Atomic(w, k) ==
    \E n \in BOOLEAN : \/ Put(w, k, n) \/ Overwrites(w, k, n) \/ ApplyPatch(w, k, n)
                       \/ MergePatch(w, k, n) \/ Update(w, k, n) \/ Remove(w, k, n)
                       \/ Create(w, k, n)

(* A handler that looks first and writes, or answers, later.                *)
Looks(w, k) ==
    \E n \in BOOLEAN : \/ CheckThenPut(w, k, n) \/ CheckThenUpsert(w, k, n)
                       \/ CheckThenReplace(w, k, n) \/ ReadThenPut(w, k, n)
                       \/ ReadThenUpsert(w, k, n) \/ CheckThenRemove(w, k, n)
                       \/ PatchThenGet(w, k, n)

(* The handlers of a store that searches before it creates.                 *)
Finds(w, k) ==
    \E n \in BOOLEAN : \/ FindThenCreate(w, k, n) \/ MergePatch(w, k, n) \/ Remove(w, k, n)

Sorted(w, k) ==
    \/ UNCHANGED vars
    \/ store \notin FindStores /\ Atomic(w, k)
    \/ store \notin FindStores /\ store \in TwoStepStores /\ Looks(w, k)
    \/ store \in FindStores /\ store.onAbsent = "refuse" /\ Finds(w, k)
    \/ store \notin FindStores /\ store \in UncheckedStores /\ PatchKeptThoughRefused(w, k)

LEMMA FindStoresNamed ==
    \A x \in FindStores : x.name \in FindNames /\ x.onAbsent = "refuse"
BY DEF FindStores, FindNames, PcfBindingStore, PcfForUeBindingStore, PcfMbsBindingStore,
       Events, Memory, Store

LEMMA UdmApart == \A x \in UdmStores : x \notin FindStores
<1>1. \A x \in UdmStores : x.name \notin FindNames
  BY DEF UdmStores, AmfRegistrationStore, AmfNon3GppRegistrationStore, SmsfRegistrationStore,
         IpSmGwRegistrationStore, RoamingInfoUpdateStore, UdmSmfRegistrationStore,
         NwdafRegistrationStore, SdmSubscriptionStore, SharedDataSubscriptionStore,
         AuthEventStore, EeSubscriptionStore, UdmPpDataStore, Memory, Store, FindNames
<1> QED BY <1>1, FindStoresNamed

(* The other stores are not BSF's: by their names, or as they are durable.  *)
LEMMA UdrApart == \A x \in UdrStores : x \notin FindStores
<1>1. \A x \in UdrStores : x.durable = TRUE
  BY DEF UdrStores, AmfContextStore, AmfNon3GppContextStore, SmfRegistrationStore,
         ProvisionedDataStore, SmPolicyDataStore,
         AuthenticationSubscriptionDataStore, AuthenticationStatusStore,
         IndividualAuthenticationStatusStore, AmPolicyDataStore,
         SmsfContext3gppStore, SmsfNon3GppContextStore, IpSmGwContextStore,
         MessageWaitingDataStore, RoamingInformationStore, PeiInfoStore,
         CoverageRestrictionDataStore, LcsPrivacyDataStore,
         LcsSubscriptionDataStore, LcsMoDataStore, PpDataStore, PpProfileDataStore,
         PpDataEntryStore, SharedDataStore, OperatorSpecificDataStore,
         EeProfileDataStore, UePolicySetStore, PolicyOperatorSpecificDataStore,
         SponsorConnectivityDataStore, BdtDataStore, PlmnUePolicySetStore,
         SlicePolicyDataStore, GroupPolicyDataStore, RoutingIdStore,
         NiddAuthorizationInfoStore, IdentityDataStore, OdbDataStore, V2xDataStore,
         ProseDataStore, UcDataStore, TimeSyncDataStore, LocationDataStore,
         A2xDataStore, RangingSlPrivacyDataStore, RangingSlPosDataStore,
         MbsDataStore, ServiceSpecificAuthorizationInfoStore, GroupIdentifiersStore,
         NssaiAckDataStore, CagAckDataStore, SorDataStore, UpuDataStore,
         FiveGVnGroupStore, MbsGroupMembershipStore, GroupEeProfileDataStore,
         EeSubscriptionsStore, SubsToNotifyStore, SdmSubscriptionsStore,
         EeAmfSubscriptionInfoStore, EeSmfSubscriptionInfoStore,
         EeHssSubscriptionInfoStore, SdmHssSubscriptionInfoStore,
         GroupEeSubscriptionsStore, GroupAmfSubscriptionInfoStore,
         GroupSmfSubscriptionInfoStore, GroupHssSubscriptionInfoStore,
         PdtqDataStore, NfGroupIdStore, NiddAuthorizationDataStore,
         FiveGVnGroupPpProfileDataStore, MbsGroupPpProfileDataStore,
         NfGroupIdSubscriptionStore, MbsSessionPolicyDataStore, UsageMonDataStore,
         PolicyDataSubsToNotifyStore, TrafficInfluenceDataStore,
         TrafficInfluenceSubStore, PfdDataStore, BdtPolicyDataStore,
         IptvConfigDataStore, ServiceParamDataStore, ApplicationDataSubsStore,
         ExposureAmDataStore, ExposureDataSubsStore,
         ExposureSessionManagementDataStore, AiotDeviceProfileDataStore,
         AiotAfAuthorizationDataStore, DataRestorationSubscriptionStore, Table,
         UpsertTable, NumberedTable, SeededTable, Row, Store
<1>2. \A x \in FindStores : x.durable = FALSE
  BY DEF FindStores, PcfBindingStore, PcfForUeBindingStore, PcfMbsBindingStore,
         Events, Memory, Store
<1> QED BY <1>1, <1>2

LEMMA PcfApart == \A x \in PcfStores : x \notin FindStores
<1>1. \A x \in PcfStores : x.name \notin FindNames
  BY DEF PcfStores, AmPolicyStore, AppSessionStore, UePolicyStore,
         PcEventExposureStore, AppAmContextStore, MbsAppSessionStore,
         MbsPolicyStore, PdtqPolicyStore, BdtPolicyStore, Memory, Store, FindNames
<1> QED BY <1>1, FindStoresNamed

LEMMA NefApart == \A x \in NefStores : x \notin FindStores
<1>1. \A x \in NefStores : x.name \notin FindNames
  BY DEF NefStores, PfdCatalogStore, PfdSubscriptionStore, DnaiMapSubStore,
         EasDeploySubStore, NefSmContextStore, EcsAddrCfgInfoSubStore,
         NefEventExposureSubStore, TrafficInfluDataSubStore, InferEventSubStore,
         TrainEventsSubStore, VflInferSubStore, NefVflTrainSubStore,
         AfTrafficInfluenceSubStore, Memory, Store, FindNames
<1> QED BY <1>1, FindStoresNamed

LEMMA ProducersApart ==
    /\ BsfSubscriptionStore \notin FindStores
    /\ NssaiAvailabilityStore \notin FindStores
    /\ NssaiAvailabilitySubscriptionStore \notin FindStores
    /\ UpSubscriptionStore \notin FindStores
    /\ LmfLocationContextStore \notin FindStores
    /\ UpConfigStore \notin FindStores
    /\ DataExposureSubscriptionStore \notin FindStores
    /\ UeSmsContextStore \notin FindStores
    /\ GmlcLocationContextStore \notin FindStores
    /\ LocUpdateSubscriptionStore \notin FindStores
    /\ GpsiAppLayerIdMappingStore \notin FindStores
    /\ ScpEventSubscriptionStore \notin FindStores
    /\ EquipmentStatusStore \notin FindStores
    /\ SacSubscriptionStore \notin FindStores
    /\ UeContextStore \notin FindStores
    /\ UeN1N2SubscriptionStore \notin FindStores
    /\ NonUeN2SubscriptionStore \notin FindStores
    /\ AmfStatusSubscriptionStore \notin FindStores
    /\ AmfEventSubscriptionStore \notin FindStores
    /\ AmfSetEventSubscriptionStore \notin FindStores
    /\ MbsBroadcastContextStore \notin FindStores
    /\ ProductOfferingStore \notin FindStores
    /\ ProductOfferingPriceStore \notin FindStores
    /\ ProductSpecificationStore \notin FindStores
    /\ PartyIndividualStore \notin FindStores
    /\ PartyOrganizationStore \notin FindStores
    /\ AccountStore \notin FindStores
    /\ SubscriberStore \notin FindStores
    /\ InterconnectAgreementStore \notin FindStores
<1>1. \A x : x.name \notin FindNames => x \notin FindStores
  BY FindStoresNamed
<1> QED
  BY <1>1 DEF BsfSubscriptionStore, NssaiAvailabilityStore,
             NssaiAvailabilitySubscriptionStore, UpSubscriptionStore,
             LmfLocationContextStore, UpConfigStore, DataExposureSubscriptionStore,
             UeSmsContextStore, GmlcLocationContextStore,
             LocUpdateSubscriptionStore, GpsiAppLayerIdMappingStore,
             ScpEventSubscriptionStore, EquipmentStatusStore, SacSubscriptionStore,
             UeContextStore, UeN1N2SubscriptionStore, NonUeN2SubscriptionStore,
             AmfStatusSubscriptionStore, AmfEventSubscriptionStore,
             AmfSetEventSubscriptionStore, MbsBroadcastContextStore,
             ProductOfferingStore, ProductOfferingPriceStore,
             ProductSpecificationStore, PartyIndividualStore,
             PartyOrganizationStore, AccountStore, SubscriberStore,
             InterconnectAgreementStore, Memory, BssTable, Store, FindNames

(* Shapes of handlers, as the routes name them.                             *)
LEMMA Shapes ==
    ASSUME NEW w, NEW k
    PROVE  /\ Get(w, k) => UNCHANGED vars
           /\ Reject(w) => UNCHANGED vars
           /\ \A n \in {Notify, Silent} :
                 /\ \/ Put(w, k, n) \/ Overwrite(w, k, n, Unsaid) \/ ApplyPatch(w, k, n)
                    \/ MergePatch(w, k, n) \/ Update(w, k, n) \/ Remove(w, k, n)
                    \/ Create(w, k, n)
                    => Atomic(w, k)
                 /\ /\ store \in FixedStatusStores
                    /\ Overwrite(w, k, n, Created) \/ Overwrite(w, k, n, Replaced)
                    => Atomic(w, k)
                 /\ \/ CheckThenPut(w, k, n) \/ CheckThenUpsert(w, k, n)
                    \/ CheckThenReplace(w, k, n) \/ ReadThenPut(w, k, n)
                    \/ ReadThenUpsert(w, k, n) \/ CheckThenRemove(w, k, n)
                    \/ PatchThenGet(w, k, n)
                    => Looks(w, k)
                 /\ FindThenCreate(w, k, n) \/ MergePatch(w, k, n) \/ Remove(w, k, n)
                    => Finds(w, k)
<1>1. Notify \in BOOLEAN /\ Silent \in BOOLEAN
  BY DEF Notify, Silent
<1>2. (Get(w, k) => UNCHANGED vars) /\ (Reject(w) => UNCHANGED vars)
  BY DEF Get, Reject, Answer
<1> QED BY <1>1, <1>2, Zenon DEF Atomic, Overwrites, Looks, Finds

LEMMA UdrSorted ==
    ASSUME NEW w, NEW k, UdrRequest(w, k)
    PROVE  Sorted(w, k)
<1>1. store \notin FindStores
  BY UdrApart DEF UdrRequest
<1> QED
  BY <1>1, Shapes DEF UdrRequest, AmfContexts, AmfNon3gppContexts, SmfRegistrations,
         SmfRegistrationRemoval, ProvisionedData, ProvisionedDataSets, SmPolicyData,
         UsageMonData, PolicyDataForUe, AuthSubscriptionData, AuthStatus,
         IndividualAuthStatus, AmPolicyData, Smsf3gppContext, SmsfNon3gppContext,
         IpSmGwContext, Mwd, RoamingInformation, PeiInfo, CoverageRestrictionData,
         LcsPrivacyData, LcsSubscriptionData, LcsMoData, PpData, PpProfileData,
         PpDataEntry, SharedData, OperatorSpecificData, EeProfileData, UePolicySet,
         PolicyOperatorSpecificData, SponsorConnectivityData, MbsSessionPolData,
         BdtData, PlmnUePolicySet, SliceControlData, GroupControlData, RoutingIds,
         NfGroupIds, NfGroupIdSubscriptions, NiddAuthorizationData,
         NiddAuthorizationInfo, IdentityData, OdbData, V2xData, ProseData, UcData,
         TimeSyncData, LocationData, A2xData, RangingslPrivacyData,
         RangingSlposData, MbsData, ServiceSpecificAuthorizationInfo,
         GroupIdentifiers, NssaiAckData, CagAckData, SorData, UpuData,
         UeUpdateConfirmationData, ContextDataSets, UeSubscribedData,
         EeSubscriptions, EeSubscriptionsRemoval, SdmSubscriptions,
         SdmSubscriptionsRemoval, EeAmfSubscriptionInfo, EeSmfSubscriptionInfo,
         EeHssSubscriptionInfo, SdmHssSubscriptionInfo, GroupEeSubscriptions,
         GroupEeSubscriptionsRemoval, GroupAmfSubscriptionInfo,
         GroupSmfSubscriptionInfo, GroupHssSubscriptionInfo, PdtqData, SubsToNotify,
         PolicyDataSubsToNotify, FiveGVnGroups, FiveGVnGroupPpProfileData,
         FiveGVnGroupsIndividual, MbsGroupMembership, MbsGroupPpProfileData,
         MbsGroupMembershipIndividual, GroupEeProfileData, TrafficInfluenceData,
         TrafficInfluenceSubs, PfdData, BdtPolicyData, IptvConfigData,
         ServiceParamData, ApplicationDataSubs, ExposureAmData, ExposureSmData,
         ExposureDataSubs, AiotDeviceProfileData, AiotDeviceProfileDataCollection,
         AiotAfAuthorizationData, DataRestorationSubscriptions, Sorted,
         TwoStepStores, FixedStatusStores

LEMMA PcfSorted ==
    ASSUME NEW w, NEW k, PcfRequest(w, k)
    PROVE  Sorted(w, k)
<1>1. store \notin FindStores
  BY PcfApart DEF PcfRequest
<1> QED
  BY <1>1, Shapes DEF PcfRequest, AmPolicies, AppSessions, AppSessionEvents,
         PcscfRestoration, UePolicies, PcEventSubscriptions, AppAmContexts,
         AppAmContextEvents, MbsAppSessions, MbsPolicies, PdtqPolicies, BdtPolicies,
         Sorted, TwoStepStores, PcfStores

LEMMA NefSorted ==
    ASSUME NEW w, NEW k, NefRequest(w, k)
    PROVE  Sorted(w, k)
<1>1. store \notin FindStores
  BY NefApart DEF NefRequest
<1> QED
  BY <1>1, Shapes DEF NefRequest, PfdApplications, PfdSubscriptions, NefStateless,
         DnaiMapSubscriptions, EasDeploySubscriptions, NefSmContexts,
         UavAuthentication, EcsAddressSubscriptions, EventExposureSubscriptions,
         AfTrafficInfluenceSubscriptions, AfTrafficInfluenceRemoval,
         TrafficInfluenceSubscriptions, InferenceSubscriptions,
         TrainingSubscriptions, VflInferenceSubscriptions, VflTrainingSubscriptions,
         Sorted, TwoStepStores

LEMMA UdmSorted ==
    ASSUME NEW w, NEW k, UdmRequest(w, k)
    PROVE  Sorted(w, k)
<1>1. store \in UdmStores \cup UdrStores
  BY DEF UdmRequest, UdmStores, UdrStores, Amf3GppAccessRegistration, PeiUpdate,
         RoamingInfoUpdate, AmfNon3GppAccessRegistration, Smsf3GppRegistration,
         SmsfNon3GppRegistration, IpSmGwRegistration, NwdafRegistration,
         SmfRegistration, GetRegistrations, SendRoutingInfoSm, AmfOfUe,
         GetUeContexts, GetSubscribedData, GetBulkFields, GetServiceData, GetNssai,
         Acknowledge, GetSharedData, GetIdentifiers, UdmSdmSubscriptions,
         SharedDataSubscriptions, AuthEvents, UdmEeSubscriptions, UdmPpData,
         PpDataStoreProxy, FiveGVnGroupProxy, FiveGVnGroupModify, MbsGroupProxy,
         MbsGroupModify, UdmStateless
<1>2. store \notin FindStores
  BY <1>1, UdmApart, UdrApart
<1> QED
  BY <1>2, Shapes DEF UdmRequest, Amf3GppAccessRegistration, PeiUpdate,
         RoamingInfoUpdate, AmfNon3GppAccessRegistration, Smsf3GppRegistration,
         SmsfNon3GppRegistration, IpSmGwRegistration, NwdafRegistration,
         SmfRegistration, GetRegistrations, SendRoutingInfoSm, AmfOfUe,
         GetUeContexts, GetSubscribedData, GetBulkFields, GetServiceData, GetNssai,
         Acknowledge, GetSharedData, GetIdentifiers, UdmSdmSubscriptions,
         SharedDataSubscriptions, AuthEvents, UdmEeSubscriptions, UdmPpData,
         PpDataStoreProxy, FiveGVnGroupProxy, FiveGVnGroupModify, MbsGroupProxy,
         MbsGroupModify, UdmStateless, Sorted, TwoStepStores, FixedStatusStores

LEMMA ProducerSorted ==
    ASSUME NEW w, NEW k, ProducerRequest(w, k)
    PROVE  Sorted(w, k)
<1>1. store \in FindStores => store.onAbsent = "refuse"
  BY FindStoresNamed
<1> QED
  BY <1>1, Shapes, ProducersApart DEF ProducerRequest, CreatePcfBinding,
         DeletePcfBinding, BsfSubscriptions, PcfForUeBindings, PcfMbsBindings,
         SliceSelection, NssaiAvailabilitySubscriptions, NssaiAvailability,
         DetermineLocation, UpSubscriptions, LocationContextTransfer, ConfigureUp,
         CipherKeyData, DataExposureSubscriptions, UeSmsContexts, SendSms,
         ProvideLocation, LocationUpdate, LocUpdateSubscriptions, PrivacyCheck,
         ScpSubscriptions, GetEquipmentStatus, CreateSacSubscription,
         SacSubscriptions, UeContexts, UeContextOperations, UeN1N2Subscriptions,
         NonUeN2Subscriptions, AmfStatusSubscriptions, AmfLocation,
         AmfEventSubscriptions, AmfSetEventSubscriptions, MbsTransfers,
         MbsBroadcastContexts, MtDelivery, ProductOfferings, ProductOfferingPrices,
         ProductSpecifications, Individuals, Organizations, Accounts, Subscribers,
         Agreements, Sorted, TwoStepStores, UncheckedStores, FixedStatusStores,
         FindStores

LEMMA RequestsSorted ==
    ASSUME Request
    PROVE  \E w \in Workers, k \in Keys : Sorted(w, k)
BY UdrSorted, UdmSorted, PcfSorted, NefSorted, ProducerSorted DEF Request

----------------------------------------------------------------------------
(* What holds between the steps.  CleanInv: what the properties say, of the *)
(* documents no request came in between for.  HeldInv: what a handler has   *)
(* seen is still so, unless another request came.  SoleInv: two handlers    *)
(* between their looks and their writes have met.  FindInv: in BSF's        *)
(* stores either some two searches met, and then they met for every         *)
(* document, or one handler at most is between its search and its create,   *)
(* with nothing there.                                                      *)
Docs == Document \cup {Absent}

Sends(x) == x.at = "send" => x = [at |-> "send", key |-> x.key, change |-> x.change, to |-> x.to]

TypeInv ==
    /\ doc \in [Keys -> Docs] /\ truth \in [Keys -> Docs]
    /\ DOMAIN work = Workers /\ \A v \in Workers : Sends(work[v])
    /\ requests \in 0 .. MaxRequests

Answered(k) == store \in FixedStatusStores \/ k \notin misreported
CleanInv == \A k \in Keys : Exact(k) => doc[k] = truth[k] /\ Answered(k)

Checked(v) == work[v].at = "checked"

Held(x) ==
    /\ store \in TwoStepStores
    /\ x.key \in Keys /\ x.request \in 0 .. MaxRequests /\ x.seen \in Docs
    /\ store \in FindStores <=> x.goal = "create"
    /\ store \notin FindStores /\ Exact(x.key) =>
          /\ x.seen = doc[x.key]
          /\ x.goal # "put" => x.seen # Absent

HeldInv == \A v \in Workers : Checked(v) => Held(work[v])

SoleInv ==
    store \notin FindStores =>
        \A u, v \in Workers : u # v /\ Checked(u) /\ Checked(v) /\ work[u].key = work[v].key
                                => ~Exact(work[u].key)

FindInv ==
    store \in FindStores =>
        \/ \A j \in Keys : ~Exact(j)
        \/ /\ \A j \in Keys : Exact(j)
           /\ \A v \in Workers : Checked(v) => \A j \in Keys : doc[j] = Absent
           /\ \A u, v \in Workers : Checked(u) /\ Checked(v) => u = v

StoreInv == TypeInv /\ CleanInv /\ HeldInv /\ SoleInv /\ FindInv

(* Free threads and threads in their notifications hold nothing.            *)
LEMMA FreeIsIdle == Free.at = "idle" /\ Sends(Free)
BY DEF Free, Sends

(* Requests that meet.                                                      *)
LEMMA EnterMeets ==
    ASSUME NEW w \in Workers, NEW k \in Keys, Enter(w, k), UNCHANGED store
    PROVE  /\ overlapped \subseteq overlapped'
           /\ \A j \in Keys : Exact(j)' => Exact(j)
           /\ \A j \in Keys : j # k /\ Exact(j) => Exact(j)'
           /\ (\A v \in Workers : ~Checked(v)) => \A j \in Keys : Exact(j) => Exact(j)'
           /\ \A v \in Workers : store \in TwoStepStores /\ Checked(v) /\ work[v].key = k
                                   => ~Exact(k)'
           /\ ~Checked(w)
<1>1. ~Checked(w) /\ overlapped \subseteq overlapped'
  BY FreeIsIdle DEF Enter, Idle, Checked
<1>2. \A j \in Keys : Exact(j)' => Exact(j)
  BY <1>1 DEF Exact
<1>3. \A j \in Keys : j # k /\ <<j, "write">> \in overlapped' => <<j, "write">> \in overlapped
  BY DEF Enter
<1>4. (\A v \in Workers : ~Checked(v)) =>
          \A j \in Keys : <<j, "write">> \in overlapped' => <<j, "write">> \in overlapped
  BY DEF Enter, Checked
<1>5. ASSUME NEW v \in Workers, Checked(v), work[v].key = k
      PROVE  <<k, "write">> \in overlapped'
  <2>1. BusyOn(v, k)
    BY <1>5, FreeIsIdle DEF BusyOn, Idle, Checked
  <2> QED BY <1>5, <2>1 DEF Enter, Checked
<1> QED BY <1>1, <1>2, <1>3, <1>4, <1>5 DEF Exact

(* A request writes k in one critical section, and its thread holds nothing *)
(* afterwards.                                                              *)
Wrote(w, k) ==
    /\ Enter(w, k) /\ UNCHANGED store
    /\ requests' \in 0 .. MaxRequests
    /\ \E d, t \in Docs, right \in BOOLEAN :
          /\ Commit(k, d, t, right)
          /\ store \notin UncheckedStores /\ doc[k] = truth[k]
                => d = t /\ (right \/ store \in FixedStatusStores)
    /\ \E x : work' = [work EXCEPT ![w] = x] /\ x.at # "checked" /\ Sends(x)
    /\ store \in FindStores => doc[k] # Absent

LEMMA WroteStep ==
    ASSUME StoreInv, NEW w \in Workers, NEW k \in Keys, Wrote(w, k)
    PROVE  StoreInv'
<1>1. PICK d \in Docs, t \in Docs, right \in BOOLEAN :
          /\ Commit(k, d, t, right)
          /\ store \notin UncheckedStores /\ doc[k] = truth[k]
                => d = t /\ (right \/ store \in FixedStatusStores)
  BY DEF Wrote
<1>2. PICK x : work' = [work EXCEPT ![w] = x] /\ x.at # "checked" /\ Sends(x)
  BY DEF Wrote
<1>3. Enter(w, k) /\ store' = store
  BY DEF Wrote
<1>4. /\ doc' \in [Keys -> Docs] /\ truth' \in [Keys -> Docs]
      /\ doc'[k] = d /\ truth'[k] = t
      /\ \A j \in Keys : j # k => doc'[j] = doc[j] /\ truth'[j] = truth[j]
      /\ \A j \in Keys : j \in misreported' => j \in misreported \/ (j = k /\ ~right)
  BY <1>1 DEF Commit, StoreInv, TypeInv
<1>5. /\ DOMAIN work' = Workers /\ work'[w] = x
      /\ \A v \in Workers : v # w => work'[v] = work[v]
  BY <1>2 DEF StoreInv, TypeInv
<1>6. \A v \in Workers : Checked(v)' => Checked(v) /\ v # w /\ work'[v] = work[v]
  BY <1>2, <1>5 DEF Checked
<1>7. TypeInv'
  BY <1>2, <1>4, <1>5 DEF StoreInv, TypeInv, Wrote, Sends
<1>8. CleanInv'
  <2> SUFFICES ASSUME NEW j \in Keys, Exact(j)' PROVE doc'[j] = truth'[j] /\ Answered(j)'
    BY DEF CleanInv
  <2>1. Exact(j) /\ doc[j] = truth[j] /\ Answered(j)
    BY <1>3, EnterMeets DEF StoreInv, CleanInv
  <2>2. store \notin UncheckedStores
    BY <2>1 DEF Exact
  <2> QED BY <1>1, <1>3, <1>4, <2>1, <2>2 DEF Answered
<1>9. HeldInv'
  <2> SUFFICES ASSUME NEW v \in Workers, Checked(v)' PROVE Held(work[v])'
    BY DEF HeldInv
  <2>1. Checked(v) /\ work'[v] = work[v] /\ Held(work[v])
    BY <1>6 DEF StoreInv, HeldInv
  <2>2. PICK j : j = work[v].key
    OBVIOUS
  <2>3. Exact(j)' => Exact(j) /\ j # k
    BY <1>3, <2>1, <2>2, EnterMeets DEF Held
  <2>4. Exact(j)' => doc'[j] = doc[j]
    BY <1>4, <2>1, <2>2, <2>3 DEF Held
  <2> QED BY <1>3, <2>1, <2>2, <2>3, <2>4, Zenon DEF Held, Exact
<1>10. SoleInv'
  <2> SUFFICES ASSUME store' \notin FindStores, NEW u \in Workers, NEW v \in Workers, u # v,
                      Checked(u)', Checked(v)', work'[u].key = work'[v].key
               PROVE  ~Exact(work[u].key)'
    BY DEF SoleInv
  <2>1. PICK j : j = work[u].key /\ j \in Keys /\ work'[u].key = j /\ ~Exact(j)
    BY <1>3, <1>6 DEF StoreInv, SoleInv, HeldInv, Held
  <2>2. ~Exact(j)'
    BY <1>3, <2>1, EnterMeets
  <2> QED BY <2>1, <2>2 DEF Exact
<1>11. FindInv'
  <2> SUFFICES ASSUME store \in FindStores PROVE FindInv'
    BY <1>3 DEF FindInv
  <2>1. CASE \A j \in Keys : ~Exact(j)
    BY <1>3, <2>1, EnterMeets DEF FindInv
  <2>2. CASE /\ \A j \in Keys : Exact(j)
             /\ \A v \in Workers : Checked(v) => \A j \in Keys : doc[j] = Absent
    <3>1. \A v \in Workers : ~Checked(v)
      BY <2>2 DEF Wrote
    <3>2. \A j \in Keys : Exact(j)'
      BY <1>3, <2>2, <3>1, EnterMeets
    <3>3. \A v \in Workers : ~Checked(v)'
      BY <1>6, <3>1
    <3> QED BY <3>2, <3>3 DEF FindInv
  <2> QED BY <2>1, <2>2 DEF StoreInv, FindInv
<1> QED BY <1>7, <1>8, <1>9, <1>10, <1>11 DEF StoreInv

(* Documents a request may write.                                           *)
LEMMA Written ==
    ASSUME NEW n \in 0 .. MaxRequests
    PROVE  /\ {n} \in Docs /\ {n} # Absent
           /\ \A d \in Docs : Merged(d, n) \in Docs /\ Merged(d, n) # Absent
<1>1. \A d \in Document : d # Absent
  BY StoreAssumption DEF Document, Seed
<1>2. {n} \in Document
  BY DEF Document, Seed
<1>3. \A d \in Document : d \cup {n} \in Document
  BY DEF Document, Seed
<1> QED BY <1>1, <1>2, <1>3 DEF Docs, Merged

LEMMA NumbersRequest ==
    ASSUME TypeInv, NewRequest
    PROVE  requests' \in 0 .. MaxRequests
BY StoreAssumption DEF TypeInv, NewRequest

LEMMA FinishFrees ==
    ASSUME NEW w, NEW k, NEW n, NEW c, Finish(w, k, n, c)
    PROVE  \E x : work' = [work EXCEPT ![w] = x] /\ x.at # "checked" /\ Sends(x)
<1>1. [at |-> "list", key |-> k, change |-> c].at = "list"
  OBVIOUS
<1>2. Sends([at |-> "list", key |-> k, change |-> c])
  BY <1>1 DEF Sends
<1>3. \E x : work' = [work EXCEPT ![w] = x] /\ x \in {Free, [at |-> "list", key |-> k, change |-> c]}
  BY DEF Finish
<1> QED BY <1>1, <1>2, <1>3, FreeIsIdle

(* Every atomic handler writes in one critical section, or does nothing.    *)
LEMMA OneSection ==
    ASSUME StoreInv, NEW w \in Workers, NEW k \in Keys, NEW n \in BOOLEAN,
           NEW c, NEW d \in Docs, NEW t \in Docs, NEW right \in BOOLEAN,
           Enter(w, k), NewRequest, Commit(k, d, t, right), Finish(w, k, n, c), Unwatched,
           store \notin UncheckedStores /\ doc[k] = truth[k]
              => d = t /\ (right \/ store \in FixedStatusStores),
           store \in FindStores => doc[k] # Absent
    PROVE  Wrote(w, k)
<1>1. requests' \in 0 .. MaxRequests
  BY NumbersRequest DEF StoreInv
<1>2. \E x : work' = [work EXCEPT ![w] = x] /\ x.at # "checked" /\ Sends(x)
  BY FinishFrees
<1> QED BY <1>1, <1>2 DEF Wrote, Unwatched

LEMMA PutWrote ==
    ASSUME StoreInv, NEW w \in Workers, NEW k \in Keys, NEW n \in BOOLEAN,
           store \notin FindStores,
           Put(w, k, n) \/ Overwrites(w, k, n) \/ Create(w, k, n)
    PROVE  Wrote(w, k)
<1>1. NewRequest
  BY DEF Put, Overwrites, Overwrite, Create
<1>2. requests' \in 0 .. MaxRequests
  BY <1>1, NumbersRequest DEF StoreInv
<1>3. {requests'} \in Docs
  BY <1>2, Written
<1>4. CASE Put(w, k, n)
  <2>1. ((doc[k] = Absent) = (truth[k] = Absent)) \in BOOLEAN
    OBVIOUS
  <2>2. doc[k] = truth[k] => ((doc[k] = Absent) = (truth[k] = Absent))
    OBVIOUS
  <2> QED BY <1>3, <1>4, <2>1, <2>2, OneSection DEF Put
<1>5. CASE Overwrites(w, k, n)
  <2>1. PICK s : Overwrite(w, k, n, s) /\ (s = Unsaid \/ store \in FixedStatusStores)
    BY <1>5 DEF Overwrites
  <2>2. Says(s, k) \in BOOLEAN /\ (s = Unsaid => Says(s, k))
    BY DEF Says, Unsaid, Created, Replaced
  <2> QED BY <1>3, <2>1, <2>2, OneSection DEF Overwrite
<1>6. CASE Create(w, k, n)
  BY <1>3, <1>6, OneSection DEF Create
<1> QED BY <1>4, <1>5, <1>6

LEMMA PatchWrote ==
    ASSUME StoreInv, NEW w \in Workers, NEW k \in Keys, NEW n \in BOOLEAN, NEW c,
           store \notin FindStores \/ store.onAbsent = "refuse",
           PatchWith(w, k, n, c)
    PROVE  Wrote(w, k) \/ UNCHANGED vars
<1> SUFFICES ASSUME /\ store.onAbsent = "create" \/ doc[k] # Absent
                    /\ Enter(w, k) /\ NewRequest
                    /\ Commit(k, Merged(doc[k], requests'), Merged(truth[k], requests'), TRUE)
                    /\ Finish(w, k, n, c)
                    /\ Unwatched
             PROVE  Wrote(w, k)
  BY DEF PatchWith, NoDocument, Answer
<1>1. requests' \in 0 .. MaxRequests
  BY NumbersRequest DEF StoreInv
<1>2. Merged(doc[k], requests') \in Docs /\ Merged(truth[k], requests') \in Docs
  BY <1>1, Written DEF StoreInv, TypeInv
<1>3. store \in FindStores => doc[k] # Absent
  OBVIOUS
<1>4. doc[k] = truth[k] => Merged(doc[k], requests') = Merged(truth[k], requests')
  OBVIOUS
<1> QED BY <1>2, <1>3, <1>4, OneSection

LEMMA RefusedWrote ==
    ASSUME StoreInv, NEW w \in Workers, NEW k \in Keys, store \in UncheckedStores,
           PatchKeptThoughRefused(w, k)
    PROVE  Wrote(w, k)
<1>1. requests' \in 0 .. MaxRequests
  BY NumbersRequest DEF StoreInv, PatchKeptThoughRefused
<1>2. Merged(doc[k], requests') \in Docs /\ truth[k] \in Docs
  BY <1>1, Written DEF StoreInv, TypeInv
<1>3. Silent \in BOOLEAN
  BY DEF Silent
<1> QED BY <1>2, <1>3, OneSection DEF PatchKeptThoughRefused

LEMMA RemoveWrote ==
    ASSUME StoreInv, NEW w \in Workers, NEW k \in Keys, NEW n \in BOOLEAN, Remove(w, k, n)
    PROVE  Wrote(w, k) \/ UNCHANGED vars
<1>1. Absent \in Docs
  BY DEF Docs
<1>2. (truth[k] # Absent) \in BOOLEAN
  OBVIOUS
<1> QED BY <1>1, <1>2, OneSection DEF Remove, NoDocument, Answer

LEMMA UpdateWrote ==
    ASSUME StoreInv, NEW w \in Workers, NEW k \in Keys, NEW n \in BOOLEAN,
           store \notin FindStores, Update(w, k, n)
    PROVE  Wrote(w, k) \/ UNCHANGED vars
<1> SUFFICES ASSUME doc[k] # Absent, Overwrite(w, k, n, Replaced)
             PROVE  Wrote(w, k)
  BY DEF Update, NoDocument, Answer
<1>1. requests' \in 0 .. MaxRequests
  BY NumbersRequest DEF StoreInv, Overwrite
<1>2. {requests'} \in Docs
  BY <1>1, Written
<1>3. Says(Replaced, k) \in BOOLEAN /\ (doc[k] = truth[k] => Says(Replaced, k))
  BY DEF Says, Created, Replaced
<1> QED BY <1>2, <1>3, OneSection DEF Overwrite

LEMMA AtomicWrote ==
    ASSUME StoreInv, NEW w \in Workers, NEW k \in Keys, store \notin FindStores, Atomic(w, k)
    PROVE  Wrote(w, k) \/ UNCHANGED vars
<1>1. PICK n \in BOOLEAN :
          \/ Put(w, k, n) \/ Overwrites(w, k, n) \/ ApplyPatch(w, k, n)
          \/ MergePatch(w, k, n) \/ Update(w, k, n) \/ Remove(w, k, n)
          \/ Create(w, k, n)
  BY DEF Atomic
<1>2. CASE Put(w, k, n) \/ Overwrites(w, k, n) \/ Create(w, k, n)
  BY <1>2, PutWrote
<1>3. CASE ApplyPatch(w, k, n)
  BY <1>3, PatchWrote DEF ApplyPatch
<1>4. CASE MergePatch(w, k, n)
  BY <1>4, PatchWrote DEF MergePatch
<1>5. CASE Update(w, k, n)
  BY <1>5, UpdateWrote
<1>6. CASE Remove(w, k, n)
  BY <1>6, RemoveWrote
<1> QED BY <1>1, <1>2, <1>3, <1>4, <1>5, <1>6

----------------------------------------------------------------------------
(* A request enters, its thread has looked at k and goes on to its write.   *)
Looked(w, k) ==
    /\ Enter(w, k) /\ UNCHANGED <<store, misreported>>
    /\ requests' \in 0 .. MaxRequests
    /\ \E d, t \in Docs :
          /\ doc' = [doc EXCEPT ![k] = d] /\ truth' = [truth EXCEPT ![k] = t]
          /\ doc[k] = truth[k] => d = t
          /\ \E x : /\ work' = [work EXCEPT ![w] = x]
                    /\ x.at = "checked" /\ x.key = k /\ x.request \in 0 .. MaxRequests
                    /\ x.seen = d /\ x.goal # "create"
                    /\ x.goal # "put" => d # Absent

LEMMA LookedStep ==
    ASSUME StoreInv, NEW w \in Workers, NEW k \in Keys, Looked(w, k),
           store \notin FindStores, store \in TwoStepStores
    PROVE  StoreInv'
<1>1. PICK d \in Docs, t \in Docs :
          /\ doc' = [doc EXCEPT ![k] = d] /\ truth' = [truth EXCEPT ![k] = t]
          /\ doc[k] = truth[k] => d = t
          /\ \E x : /\ work' = [work EXCEPT ![w] = x]
                    /\ x.at = "checked" /\ x.key = k /\ x.request \in 0 .. MaxRequests
                    /\ x.seen = d /\ x.goal # "create"
                    /\ x.goal # "put" => d # Absent
  BY DEF Looked
<1>2. PICK x : /\ work' = [work EXCEPT ![w] = x]
               /\ x.at = "checked" /\ x.key = k /\ x.request \in 0 .. MaxRequests
               /\ x.seen = d /\ x.goal # "create"
               /\ x.goal # "put" => d # Absent
  BY <1>1
<1>3. Enter(w, k) /\ store' = store /\ misreported' = misreported
  BY DEF Looked
<1>4. /\ doc' \in [Keys -> Docs] /\ truth' \in [Keys -> Docs]
      /\ doc'[k] = d /\ truth'[k] = t
      /\ \A j \in Keys : j # k => doc'[j] = doc[j] /\ truth'[j] = truth[j]
  BY <1>1 DEF StoreInv, TypeInv
<1>5. /\ DOMAIN work' = Workers /\ work'[w] = x
      /\ \A v \in Workers : v # w => work'[v] = work[v]
  BY <1>2 DEF StoreInv, TypeInv
<1>6. \A v \in Workers : Checked(v)' /\ v # w => Checked(v) /\ work'[v] = work[v]
  BY <1>5 DEF Checked
<1>7. TypeInv'
  BY <1>2, <1>4, <1>5 DEF StoreInv, TypeInv, Looked, Sends
<1>8. CleanInv'
  <2> SUFFICES ASSUME NEW j \in Keys, Exact(j)' PROVE doc'[j] = truth'[j] /\ Answered(j)'
    BY DEF CleanInv
  <2>1. Exact(j) /\ doc[j] = truth[j] /\ Answered(j)
    BY <1>3, EnterMeets DEF StoreInv, CleanInv
  <2> QED BY <1>1, <1>3, <1>4, <2>1 DEF Answered
<1>9. HeldInv'
  <2> SUFFICES ASSUME NEW v \in Workers, Checked(v)' PROVE Held(work[v])'
    BY DEF HeldInv
  <2>1. CASE v = w
    BY <1>2, <1>3, <1>4, <1>5, <2>1 DEF Held
  <2>2. CASE v # w
    <3>1. Checked(v) /\ work'[v] = work[v] /\ Held(work[v])
      BY <1>6, <2>2 DEF StoreInv, HeldInv
    <3>2. PICK j : j = work[v].key
      OBVIOUS
    <3>3. Exact(j)' => Exact(j) /\ j # k
      BY <1>3, <3>1, <3>2, EnterMeets DEF Held
    <3>4. Exact(j)' => doc'[j] = doc[j]
      BY <1>4, <3>1, <3>2, <3>3 DEF Held
    <3> QED BY <1>3, <3>1, <3>2, <3>3, <3>4, Zenon DEF Held, Exact
  <2> QED BY <2>1, <2>2
<1>10. SoleInv'
  <2> SUFFICES ASSUME NEW u \in Workers, NEW v \in Workers, u # v,
                      Checked(u)', Checked(v)', work'[u].key = work'[v].key
               PROVE  ~Exact(work[u].key)'
    BY DEF SoleInv
  <2>1. PICK j : j = work'[u].key
    OBVIOUS
  <2>2. CASE u # w /\ v # w
    <3>1. j \in Keys /\ ~Exact(j)
      BY <1>6, <2>1, <2>2 DEF StoreInv, SoleInv, HeldInv, Held
    <3>2. ~Exact(j)'
      BY <1>3, <3>1, EnterMeets
    <3> QED BY <2>1, <3>2 DEF Exact
  <2>3. CASE u = w \/ v = w
    <3>1. j = k /\ \E z \in Workers : Checked(z) /\ work[z].key = k
      BY <1>2, <1>5, <1>6, <2>1, <2>3
    <3>2. ~Exact(k)'
      BY <1>3, <3>1, EnterMeets
    <3> QED BY <2>1, <3>1, <3>2 DEF Exact
  <2> QED BY <2>2, <2>3
<1>11. FindInv'
  BY <1>3 DEF FindInv
<1> QED BY <1>7, <1>8, <1>9, <1>10, <1>11 DEF StoreInv

LEMMA CheckLooked ==
    ASSUME StoreInv, NEW w \in Workers, NEW k \in Keys, NEW n \in BOOLEAN, NEW g,
           Check(w, k, g, n), g # "create", g # "put" => doc[k] # Absent
    PROVE  Looked(w, k)
<1> DEFINE x == [at |-> "checked", key |-> k, goal |-> g, seen |-> doc[k],
                 request |-> requests', notifies |-> n]
<1>1. /\ Enter(w, k) /\ UNCHANGED <<store, misreported, doc, truth>>
      /\ NewRequest /\ work' = [work EXCEPT ![w] = x]
  BY DEF Check, Unwatched
<1>2. requests' \in 0 .. MaxRequests
  BY <1>1, NumbersRequest DEF StoreInv
<1>3. /\ doc[k] \in Docs /\ truth[k] \in Docs
      /\ doc' = [doc EXCEPT ![k] = doc[k]] /\ truth' = [truth EXCEPT ![k] = truth[k]]
  BY <1>1 DEF StoreInv, TypeInv
<1>4. /\ x.at = "checked" /\ x.key = k /\ x.request \in 0 .. MaxRequests
      /\ x.seen = doc[k] /\ x.goal = g
  BY <1>2
<1> HIDE DEF x
<1> QED BY <1>1, <1>2, <1>3, <1>4 DEF Looked

LEMMA PatchLooked ==
    ASSUME StoreInv, NEW w \in Workers, NEW k \in Keys, NEW n \in BOOLEAN,
           PatchThenGet(w, k, n)
    PROVE  Looked(w, k) \/ UNCHANGED vars
<1> DEFINE d == Merged(doc[k], requests')
           t == Merged(truth[k], requests')
           x == [at |-> "checked", key |-> k, goal |-> "get", seen |-> doc'[k],
                 request |-> requests', notifies |-> n]
<1> SUFFICES ASSUME /\ Enter(w, k) /\ UNCHANGED store /\ NewRequest
                    /\ Commit(k, d, t, TRUE)
                    /\ work' = [work EXCEPT ![w] = x]
             PROVE  Looked(w, k)
  BY DEF PatchThenGet, NoDocument, Answer, Unwatched
<1>1. requests' \in 0 .. MaxRequests
  BY NumbersRequest DEF StoreInv
<1>2. d \in Docs /\ t \in Docs /\ d # Absent
  BY <1>1, Written DEF StoreInv, TypeInv
<1>3. doc[k] = truth[k] => d = t
  OBVIOUS
<1>4. /\ doc' = [doc EXCEPT ![k] = d] /\ truth' = [truth EXCEPT ![k] = t]
      /\ misreported' = misreported
  BY DEF Commit
<1>5. doc'[k] = d
  BY <1>4 DEF StoreInv, TypeInv
<1>6. /\ x.at = "checked" /\ x.key = k /\ x.request \in 0 .. MaxRequests
      /\ x.seen = d /\ x.goal = "get"
  BY <1>1, <1>5
<1> HIDE DEF x, d, t
<1> QED BY <1>1, <1>2, <1>3, <1>4, <1>6 DEF Looked

LEMMA LooksLooked ==
    ASSUME StoreInv, NEW w \in Workers, NEW k \in Keys, Looks(w, k)
    PROVE  Looked(w, k) \/ UNCHANGED vars
<1>1. PICK n \in BOOLEAN :
          \/ CheckThenPut(w, k, n) \/ CheckThenUpsert(w, k, n)
          \/ CheckThenReplace(w, k, n) \/ ReadThenPut(w, k, n)
          \/ ReadThenUpsert(w, k, n) \/ CheckThenRemove(w, k, n)
          \/ PatchThenGet(w, k, n)
  BY DEF Looks
<1>2. CASE PatchThenGet(w, k, n)
  BY <1>2, PatchLooked
<1>3. CASE CheckThenPut(w, k, n)
  BY <1>3, CheckLooked DEF CheckThenPut
<1>4. CASE ~PatchThenGet(w, k, n) /\ ~CheckThenPut(w, k, n)
  <2>1. NoDocument(w, k) \/ \E g \in {"upsert", "replace", "merge", "mergeUpsert", "remove"} :
                                doc[k] # Absent /\ Check(w, k, g, n)
    BY <1>1, <1>4 DEF CheckThenUpsert, CheckThenReplace, ReadThenPut, ReadThenUpsert,
                      CheckThenRemove
  <2> QED BY <2>1, CheckLooked DEF NoDocument, Answer
<1> QED BY <1>2, <1>3, <1>4

----------------------------------------------------------------------------
(* In BSF's stores a document is exact as long as no two searches met.      *)
LEMMA FindExact ==
    ASSUME store \in FindStores
    PROVE  \A j : Exact(j) <=> <<j, "write">> \notin overlapped
<1>1. store \in TwoStepStores
  BY DEF FindStores, TwoStepStores
<1>2. store \notin UncheckedStores
  BY ProducersApart DEF UncheckedStores
<1> QED BY <1>1, <1>2 DEF Exact

LEMMA FindStep ==
    ASSUME StoreInv, NEW w \in Workers, NEW k \in Keys, NEW n \in BOOLEAN,
           store \in FindStores, FindThenCreate(w, k, n)
    PROVE  StoreInv' \/ UNCHANGED vars
<1> DEFINE x == [at |-> "checked", key |-> k, goal |-> "create", seen |-> Absent,
                 request |-> requests', notifies |-> n]
<1> SUFFICES ASSUME /\ \A j \in Keys : doc[j] = Absent
                    /\ Idle(w) /\ NewRequest
                    /\ overlapped' = overlapped \cup
                           {<<j, "write">> : j \in {j \in Keys : \E v \in Workers : work[v].at = "checked"}}
                    /\ work' = [work EXCEPT ![w] = x]
                    /\ UNCHANGED <<store, doc, truth, misreported>>
             PROVE  StoreInv'
  BY DEF FindThenCreate, Answer, Unwatched
<1>1. requests' \in 0 .. MaxRequests
  BY NumbersRequest DEF StoreInv
<1>2. /\ x.at = "checked" /\ x.key = k /\ x.goal = "create" /\ x.seen = Absent
      /\ x.request \in 0 .. MaxRequests
  BY <1>1
<1> HIDE DEF x
<1>3. /\ DOMAIN work' = Workers /\ work'[w] = x
      /\ \A v \in Workers : v # w => work'[v] = work[v]
  BY DEF StoreInv, TypeInv
<1>4. store' = store /\ ~Checked(w)
  BY FreeIsIdle DEF Idle, Checked
<1>5. \A v \in Workers : Checked(v)' /\ v # w => Checked(v) /\ work'[v] = work[v]
  BY <1>3 DEF Checked
<1>6. TypeInv'
  BY <1>1, <1>2, <1>3 DEF StoreInv, TypeInv, Sends
<1>7. /\ \A j : Exact(j) <=> <<j, "write">> \notin overlapped
      /\ \A j : Exact(j)' <=> <<j, "write">> \notin overlapped'
  <2>1. store \in TwoStepStores /\ store \notin UncheckedStores
    BY ProducersApart DEF FindStores, TwoStepStores, UncheckedStores
  <2> QED BY <1>4, <2>1 DEF Exact
<1>8. CleanInv'
  <2>1. \A j \in Keys : Exact(j)' => Exact(j)
    BY <1>7
  <2> QED BY <1>4, <2>1 DEF StoreInv, CleanInv, Answered
<1>9. HeldInv'
  <2> SUFFICES ASSUME NEW v \in Workers, Checked(v)' PROVE Held(work[v])'
    BY DEF HeldInv
  <2>0. store \in TwoStepStores
    BY DEF FindStores, TwoStepStores
  <2>1. CASE v = w
    BY <1>2, <1>3, <1>4, <2>0, <2>1 DEF Held, Docs
  <2>2. CASE v # w
    <3>1. Checked(v) /\ work'[v] = work[v] /\ Held(work[v])
      BY <1>5, <2>2 DEF StoreInv, HeldInv
    <3> QED BY <1>4, <3>1 DEF Held
  <2> QED BY <2>1, <2>2
<1>10. SoleInv'
  BY <1>4 DEF SoleInv
<1>11. FindInv'
  <2>1. CASE \E v \in Workers : Checked(v)
    <3>1. \A j \in Keys : <<j, "write">> \in overlapped'
      BY <2>1 DEF Checked
    <3> QED BY <1>7, <3>1 DEF FindInv
  <2>2. CASE \A v \in Workers : ~Checked(v)
    <3>1. \A j \in Keys : <<j, "write">> \in overlapped' <=> <<j, "write">> \in overlapped
      BY <2>2 DEF Checked
    <3>2. \A j \in Keys : Exact(j)' <=> Exact(j)
      BY <1>7, <3>1
    <3>3. \A v \in Workers : Checked(v)' => v = w
      BY <1>5, <2>2
    <3> QED BY <3>2, <3>3 DEF StoreInv, FindInv
  <2> QED BY <2>1, <2>2
<1> QED BY <1>6, <1>8, <1>9, <1>10, <1>11 DEF StoreInv

(* The requests of all routes.                                              *)
LEMMA RequestStep ==
    ASSUME StoreInv, Request
    PROVE  StoreInv' \/ UNCHANGED vars
<1>1. PICK w \in Workers, k \in Keys : Sorted(w, k)
  BY RequestsSorted
<1>2. CASE store \notin FindStores /\ Atomic(w, k)
  BY <1>2, AtomicWrote, WroteStep
<1>3. CASE store \notin FindStores /\ store \in TwoStepStores /\ Looks(w, k)
  BY <1>3, LooksLooked, LookedStep
<1>4. CASE store \in FindStores /\ store.onAbsent = "refuse" /\ Finds(w, k)
  <2>1. PICK n \in BOOLEAN : FindThenCreate(w, k, n) \/ MergePatch(w, k, n) \/ Remove(w, k, n)
    BY <1>4 DEF Finds
  <2>2. CASE FindThenCreate(w, k, n)
    BY <1>4, <2>2, FindStep
  <2>3. CASE MergePatch(w, k, n)
    BY <1>4, <2>3, PatchWrote, WroteStep DEF MergePatch
  <2>4. CASE Remove(w, k, n)
    BY <2>4, RemoveWrote, WroteStep
  <2> QED BY <2>1, <2>2, <2>3, <2>4
<1>5. CASE store \notin FindStores /\ store \in UncheckedStores /\ PatchKeptThoughRefused(w, k)
  BY <1>5, RefusedWrote, WroteStep
<1> QED BY <1>1, <1>2, <1>3, <1>4, <1>5 DEF Sorted

----------------------------------------------------------------------------
(* A handler that looked comes back and writes.                             *)
LEMMA WriteStep ==
    ASSUME StoreInv, NEW w \in Workers, WriteChecked(w)
    PROVE  StoreInv'
<1>1. PICK c : c = work[w]
  OBVIOUS
<1>2. PICK k, n, s : k = c.key /\ n = c.request /\ s = c.seen
  OBVIOUS
<1>3. /\ Checked(w) /\ c.goal # "create" /\ k \in Keys /\ store \notin FindStores
      /\ n \in 0 .. MaxRequests /\ s \in Docs
      /\ Exact(k) => s = doc[k] /\ (c.goal # "put" => s # Absent)
  <2>1. Checked(w) /\ c.goal # "create"
    BY <1>1 DEF WriteChecked, Checked
  <2>2. Held(c)
    BY <1>1, <2>1 DEF StoreInv, HeldInv
  <2> QED BY <1>2, <2>1, <2>2 DEF Held
<1>4. Exact(k) => s = truth[k] /\ doc[k] = truth[k]
  BY <1>3 DEF StoreInv, CleanInv
<1>5. /\ {n} \in Docs /\ Merged(s, n) \in Docs /\ Merged(truth[k], n) \in Docs
      /\ Absent \in Docs /\ doc[k] \in Docs /\ truth[k] \in Docs
  BY <1>3, Written DEF StoreInv, TypeInv, Docs
<1>6. UNCHANGED <<store, requests, overlapped>>
  BY DEF WriteChecked, Unwatched
<1>7. \E d, t \in Docs, right \in BOOLEAN :
          /\ Commit(k, d, t, right)
          /\ Exact(k) => d = t /\ right
          /\ \E z : Finish(w, k, c.notifies, z)
  <2>1. CASE /\ c.goal = "put"
             /\ Commit(k, {n}, {n}, (s = Absent) = (truth[k] = Absent))
             /\ Finish(w, k, c.notifies, change_replace({n}))
    <3>1. ((s = Absent) = (truth[k] = Absent)) \in BOOLEAN
      OBVIOUS
    <3> QED BY <1>4, <1>5, <2>1, <3>1
  <2>2. CASE /\ c.goal = "upsert"
             /\ Commit(k, {n}, IF truth[k] = Absent THEN Absent ELSE {n}, truth[k] # Absent)
             /\ Finish(w, k, c.notifies, change_replace({n}))
    <3>1. (IF truth[k] = Absent THEN Absent ELSE {n}) \in Docs
      BY <1>5
    <3> QED BY <1>3, <1>4, <1>5, <2>2, <3>1
  <2>3. CASE /\ c.goal \in {"replace", "merge"} /\ doc[k] = Absent
             /\ Commit(k, Absent, Absent, FALSE)
             /\ Finish(w, k, c.notifies, change_replace({n}))
    BY <1>3, <1>4, <1>5, <2>3
  <2>4. CASE /\ c.goal = "replace" /\ doc[k] # Absent
             /\ Commit(k, {n}, {n}, TRUE)
             /\ Finish(w, k, c.notifies, change_replace({n}))
    BY <1>5, <2>4
  <2>5. CASE /\ c.goal = "merge" /\ doc[k] # Absent
             /\ Commit(k, Merged(s, n), Merged(truth[k], n), TRUE)
             /\ Finish(w, k, c.notifies, change_replace(Merged(s, n)))
    BY <1>4, <1>5, <2>5
  <2>6. CASE /\ c.goal = "mergeUpsert"
             /\ Commit(k, Merged(s, n), IF truth[k] = Absent THEN Absent ELSE Merged(truth[k], n),
                       truth[k] # Absent)
             /\ Finish(w, k, c.notifies, change_replace(Merged(s, n)))
    <3>1. (IF truth[k] = Absent THEN Absent ELSE Merged(truth[k], n)) \in Docs
      BY <1>5
    <3> QED BY <1>3, <1>4, <1>5, <2>6, <3>1
  <2>7. CASE /\ c.goal = "remove"
             /\ Commit(k, Absent, Absent, truth[k] # Absent)
             /\ Finish(w, k, c.notifies, change_remove)
    BY <1>3, <1>4, <1>5, <2>7
  <2>8. CASE /\ c.goal = "get"
             /\ Commit(k, doc[k], truth[k], doc[k] # Absent)
             /\ Finish(w, k, c.notifies, change_replace(s))
    BY <1>3, <1>4, <1>5, <2>8
  <2> QED
    BY <1>1, <1>2, <2>1, <2>2, <2>3, <2>4, <2>5, <2>6, <2>7, <2>8 DEF WriteChecked
<1>8. PICK d \in Docs, t \in Docs, right \in BOOLEAN :
          /\ Commit(k, d, t, right)
          /\ Exact(k) => d = t /\ right
          /\ \E z : Finish(w, k, c.notifies, z)
  BY <1>7
<1>9. PICK x : work' = [work EXCEPT ![w] = x] /\ x.at # "checked" /\ Sends(x)
  BY <1>8, FinishFrees
<1>10. /\ doc' \in [Keys -> Docs] /\ truth' \in [Keys -> Docs]
       /\ doc'[k] = d /\ truth'[k] = t
       /\ \A j \in Keys : j # k => doc'[j] = doc[j] /\ truth'[j] = truth[j]
       /\ \A j \in Keys : j \in misreported' => j \in misreported \/ (j = k /\ ~right)
  BY <1>3, <1>8 DEF Commit, StoreInv, TypeInv
<1>11. /\ DOMAIN work' = Workers /\ work'[w] = x
       /\ \A v \in Workers : v # w => work'[v] = work[v]
  BY <1>9 DEF StoreInv, TypeInv
<1>12. \A v \in Workers : Checked(v)' => Checked(v) /\ v # w /\ work'[v] = work[v]
  BY <1>9, <1>11 DEF Checked
<1>13. \A j : Exact(j)' <=> Exact(j)
  BY <1>6 DEF Exact
<1>14. TypeInv'
  BY <1>6, <1>9, <1>10, <1>11 DEF StoreInv, TypeInv, Sends
<1>15. CleanInv'
  BY <1>3, <1>6, <1>8, <1>10, <1>13 DEF StoreInv, CleanInv, Answered
<1>16. HeldInv'
  <2> SUFFICES ASSUME NEW v \in Workers, Checked(v)' PROVE Held(work[v])'
    BY DEF HeldInv
  <2>1. Checked(v) /\ v # w /\ work'[v] = work[v] /\ Held(work[v])
    BY <1>12 DEF StoreInv, HeldInv
  <2>2. PICK j : j = work[v].key
    OBVIOUS
  <2>3. Exact(j) => j # k
    BY <1>1, <1>2, <1>3, <2>1, <2>2 DEF StoreInv, SoleInv
  <2>4. Exact(j) => doc'[j] = doc[j]
    BY <1>10, <2>1, <2>2, <2>3 DEF Held
  <2> QED BY <1>6, <1>13, <2>1, <2>2, <2>4, Zenon DEF Held, Exact
<1>17. SoleInv'
  <2> SUFFICES ASSUME NEW u \in Workers, NEW v \in Workers, u # v,
                      Checked(u)', Checked(v)', work'[u].key = work'[v].key
               PROVE  ~Exact(work[u].key)'
    BY DEF SoleInv
  <2>1. PICK j : j = work[u].key /\ work'[u].key = j /\ ~Exact(j)
    BY <1>3, <1>12 DEF StoreInv, SoleInv
  <2> QED BY <1>6, <2>1 DEF Exact
<1>18. FindInv'
  BY <1>3, <1>6 DEF FindInv
<1> QED BY <1>14, <1>15, <1>16, <1>17, <1>18 DEF StoreInv

(* The create after a search: it is right as nothing came in between.       *)
LEMMA CreateStep ==
    ASSUME StoreInv, NEW w \in Workers, CreateChecked(w)
    PROVE  StoreInv'
<1>1. PICK c : c = work[w]
  OBVIOUS
<1>2. Checked(w) /\ c.goal = "create" /\ UNCHANGED <<store, requests, overlapped>>
  BY <1>1 DEF CreateChecked, Checked, Unwatched
<1>3. store \in FindStores /\ c.request \in 0 .. MaxRequests
  BY <1>1, <1>2 DEF StoreInv, HeldInv, Held
<1> DEFINE none == \A j \in Keys : truth[j] = Absent
           t == IF none THEN {c.request} ELSE Absent
<1>4. PICK k \in Keys : /\ Commit(k, {c.request}, t, none)
                        /\ Finish(w, k, c.notifies, change_replace({c.request}))
  BY <1>1 DEF CreateChecked
<1>5. {c.request} \in Docs /\ t \in Docs
  BY <1>3, Written DEF Docs
<1>6. (\A j \in Keys : Exact(j)) => none
  BY <1>2, <1>3 DEF StoreInv, FindInv, CleanInv
<1>7. PICK x : work' = [work EXCEPT ![w] = x] /\ x.at # "checked" /\ Sends(x)
  BY <1>4, FinishFrees
<1>8. /\ doc' \in [Keys -> Docs] /\ truth' \in [Keys -> Docs]
      /\ doc'[k] = {c.request} /\ truth'[k] = t
      /\ \A j \in Keys : j # k => doc'[j] = doc[j] /\ truth'[j] = truth[j]
      /\ none => misreported' = misreported
  <2> HIDE DEF t
  <2> QED BY <1>4, <1>5 DEF Commit, StoreInv, TypeInv
<1>9. /\ DOMAIN work' = Workers /\ work'[w] = x
      /\ \A v \in Workers : v # w => work'[v] = work[v]
  BY <1>7 DEF StoreInv, TypeInv
<1>10. \A v \in Workers : Checked(v)' => Checked(v) /\ v # w /\ work'[v] = work[v]
  BY <1>7, <1>9 DEF Checked
<1>11. \A j : Exact(j)' <=> Exact(j)
  BY <1>2 DEF Exact
<1>12. TypeInv'
  BY <1>2, <1>7, <1>8, <1>9 DEF StoreInv, TypeInv, Sends
<1>13. CleanInv'
  <2> SUFFICES ASSUME NEW j \in Keys, Exact(j)
               PROVE  doc'[j] = truth'[j] /\ Answered(j)'
    BY <1>11 DEF CleanInv
  <2>1. none
    BY <1>3, <1>6 DEF StoreInv, FindInv
  <2> QED BY <1>2, <1>8, <2>1 DEF StoreInv, CleanInv, Answered
<1>14. HeldInv'
  <2> SUFFICES ASSUME NEW v \in Workers, Checked(v)' PROVE Held(work[v])'
    BY DEF HeldInv
  <2>1. Checked(v) /\ work'[v] = work[v] /\ Held(work[v])
    BY <1>10 DEF StoreInv, HeldInv
  <2> QED BY <1>2, <1>3, <2>1 DEF Held
<1>15. SoleInv'
  BY <1>2, <1>3 DEF SoleInv
<1>16. FindInv'
  <2>1. CASE \A j \in Keys : ~Exact(j)
    BY <1>11, <2>1 DEF FindInv
  <2>2. CASE /\ \A j \in Keys : Exact(j)
             /\ \A u, v \in Workers : Checked(u) /\ Checked(v) => u = v
    <3>1. \A v \in Workers : ~Checked(v)'
      BY <1>2, <1>10, <2>2
    <3> QED BY <1>11, <2>2, <3>1 DEF FindInv
  <2> QED BY <1>3, <2>1, <2>2 DEF StoreInv, FindInv
<1> QED BY <1>12, <1>13, <1>14, <1>15, <1>16 DEF StoreInv

(* Steps that leave the documents alone and put no thread at its write.     *)
LEMMA QuietStep ==
    ASSUME StoreInv,
           UNCHANGED <<store, doc, truth, requests, overlapped, misreported>>,
           DOMAIN work' = Workers,
           \A v \in Workers : /\ Checked(v)' => work'[v] = work[v]
                              /\ Sends(work'[v])
    PROVE  StoreInv'
<1>1. \A v \in Workers : Checked(v)' => Checked(v) /\ work'[v] = work[v]
  BY DEF Checked
<1>2. \A j : Exact(j)' <=> Exact(j)
  BY DEF Exact
<1>3. TypeInv'
  BY DEF StoreInv, TypeInv, Sends
<1>4. CleanInv'
  BY <1>2 DEF StoreInv, CleanInv, Answered
<1>5. HeldInv'
  <2> SUFFICES ASSUME NEW v \in Workers, Checked(v)' PROVE Held(work[v])'
    BY DEF HeldInv
  <2>1. work'[v] = work[v] /\ Held(work[v])
    BY <1>1 DEF StoreInv, HeldInv
  <2> QED BY <2>1 DEF Held, Exact
<1>6. SoleInv'
  <2> SUFFICES ASSUME store \notin FindStores, NEW u \in Workers, NEW v \in Workers, u # v,
                      Checked(u)', Checked(v)', work'[u].key = work'[v].key
               PROVE  ~Exact(work[u].key)'
    BY DEF SoleInv
  <2>1. work'[u] = work[u] /\ ~Exact(work[u].key)
    BY <1>1 DEF StoreInv, SoleInv
  <2> QED BY <2>1 DEF Exact
<1>7. FindInv'
  BY <1>1, <1>2 DEF StoreInv, FindInv
<1> QED BY <1>3, <1>4, <1>5, <1>6, <1>7 DEF StoreInv

(* Notifications, and the subscriptions they go to.                         *)
LEMMA NotifyStep ==
    ASSUME StoreInv,
           \/ \E w \in Workers : \/ ListSubscribers(w)
                                 \/ \E s \in Watchers : Deliver(w, s)
           \/ \E s \in Watchers : Subscribe(s) \/ Unsubscribe(s)
    PROVE  StoreInv'
<1>1. UNCHANGED <<store, doc, truth, requests, overlapped, misreported>>
  BY DEF ListSubscribers, Deliver, Subscribe, Unsubscribe
<1>2. CASE UNCHANGED work
  <2>1. DOMAIN work' = Workers /\ \A v \in Workers : work'[v] = work[v] /\ Sends(work'[v])
    BY <1>2 DEF StoreInv, TypeInv
  <2> QED BY <1>1, <2>1, QuietStep
<1>3. ASSUME NEW w \in Workers, NEW x, work' = [work EXCEPT ![w] = x], x.at # "checked", Sends(x)
      PROVE  StoreInv'
  <2>1. /\ DOMAIN work' = Workers
        /\ \A v \in Workers : work'[v] = IF v = w THEN x ELSE work[v]
    BY <1>3 DEF StoreInv, TypeInv
  <2>2. \A v \in Workers : (Checked(v)' => work'[v] = work[v]) /\ Sends(work'[v])
    BY <1>3, <2>1 DEF StoreInv, TypeInv, Checked
  <2> QED BY <1>1, <2>1, <2>2, QuietStep
<1>4. \A k, c, to : LET x == [at |-> "send", key |-> k, change |-> c, to |-> to]
                    IN  x.at # "checked" /\ Sends(x)
  BY DEF Sends
<1>5. ASSUME NEW w \in Workers, ListSubscribers(w) PROVE StoreInv'
  <2>1. \E x : /\ work' = [work EXCEPT ![w] = x]
               /\ \/ x = Free
                  \/ \E k, c, to : x = [at |-> "send", key |-> k, change |-> c, to |-> to]
    BY <1>5 DEF ListSubscribers
  <2> QED BY <1>3, <1>4, <2>1, FreeIsIdle
<1>6. ASSUME NEW w \in Workers, NEW s \in Watchers, Deliver(w, s) PROVE StoreInv'
  <2>1. PICK y : y = work[w]
    OBVIOUS
  <2>2. PICK k, c, to : y = [at |-> "send", key |-> k, change |-> c, to |-> to]
    BY <1>6, <2>1 DEF StoreInv, TypeInv, Sends, Deliver
  <2>3. PICK rest : work' = [work EXCEPT ![w] = IF rest = {} THEN Free ELSE [y EXCEPT !.to = rest]]
    BY <1>6, <2>1 DEF Deliver, Sent
  <2>4. [y EXCEPT !.to = rest] = [at |-> "send", key |-> k, change |-> c, to |-> rest]
    BY <2>2
  <2>5. \E x : /\ work' = [work EXCEPT ![w] = x]
               /\ \/ x = Free
                  \/ x = [at |-> "send", key |-> k, change |-> c, to |-> rest]
    BY <2>3, <2>4
  <2> QED BY <1>3, <1>4, <2>5, FreeIsIdle
<1> QED BY <1>2, <1>5, <1>6 DEF Subscribe, Unsubscribe

(* A restart drops the requests in progress and what was kept in memory.    *)
LEMMA RestartStep ==
    ASSUME StoreInv, Restart
    PROVE  StoreInv'
<1>1. \A d \in Docs : Seeded(d) \in Docs
  <2>1. {Seed} \in Docs
    BY StoreAssumption, Written DEF Seed
  <2> QED BY <2>1 DEF Seeded
<1>2. Absent \in Docs
  BY DEF Docs
<1>3. /\ DOMAIN work' = Workers /\ \A v \in Workers : work'[v] = Free
      /\ UNCHANGED <<store, requests, overlapped, misreported>>
  BY DEF Restart
<1>4. \A v \in Workers : ~Checked(v)' /\ Sends(work'[v])
  BY <1>3, FreeIsIdle DEF Checked
<1>5. doc' \in [Keys -> Docs] /\ truth' \in [Keys -> Docs]
  BY <1>1, <1>2 DEF Restart, StoreInv, TypeInv
<1>6. \A k \in Keys : doc[k] = truth[k] => doc'[k] = truth'[k]
  BY DEF Restart
<1>7. \A j : Exact(j)' <=> Exact(j)
  BY <1>3 DEF Exact
<1>8. TypeInv'
  BY <1>3, <1>4, <1>5 DEF StoreInv, TypeInv, Sends
<1>9. CleanInv'
  BY <1>3, <1>6, <1>7 DEF StoreInv, CleanInv, Answered
<1>10. HeldInv' /\ SoleInv'
  BY <1>4 DEF HeldInv, SoleInv
<1>11. FindInv'
  BY <1>3, <1>4, <1>7 DEF StoreInv, FindInv
<1> QED BY <1>8, <1>9, <1>10, <1>11 DEF StoreInv

LEMMA Starts ==
    ASSUME Init
    PROVE  StoreInv
<1>1. {Seed} \in Docs /\ Absent \in Docs
  BY StoreAssumption, Written DEF Seed, Docs
<1>2. doc \in [Keys -> Docs] /\ truth = doc
  BY <1>1 DEF Init, Seeded
<1>3. DOMAIN work = Workers /\ \A v \in Workers : ~Checked(v) /\ Sends(work[v])
  BY FreeIsIdle DEF Init, Checked
<1>4. TypeInv
  BY <1>2, <1>3, StoreAssumption DEF Init, TypeInv
<1>5. CleanInv
  BY <1>2 DEF Init, CleanInv, Answered
<1>6. FindInv
  <2> SUFFICES ASSUME store \in FindStores PROVE \A j \in Keys : Exact(j)
    BY <1>3 DEF FindInv
  <2> QED BY FindExact DEF Init
<1> QED BY <1>3, <1>4, <1>5, <1>6 DEF StoreInv, HeldInv, SoleInv

LEMMA Steps ==
    ASSUME StoreInv, [Next]_vars
    PROVE  StoreInv'
<1>1. CASE UNCHANGED vars
  <2>1. /\ UNCHANGED <<store, doc, truth, requests, overlapped, misreported, work>>
        /\ DOMAIN work' = Workers
        /\ \A v \in Workers : work'[v] = work[v] /\ Sends(work'[v])
    BY <1>1 DEF vars, StoreInv, TypeInv
  <2> QED BY <2>1, QuietStep
<1>2. CASE Request
  BY <1>1, <1>2, RequestStep
<1>3. CASE Background
  BY <1>1, <1>3, WriteStep, CreateStep, NotifyStep, RestartStep DEF Background, Reject
<1> QED BY <1>1, <1>2, <1>3 DEF Next

----------------------------------------------------------------------------
(* NoLostUpdate: in every store of the core and the BSS, under any mix of   *)
(* the requests of all its routes, notifications and restarts, the document *)
(* is what its requests make of it one after the other.  What it rests on:  *)
(* a handler writes back either in the critical section of its look, or     *)
(* what it saw is still there, or the overlap has been recorded.            *)
THEOREM LosesNoUpdate == Spec => []NoLostUpdate
<1>1. StoreInv => NoLostUpdate
  BY DEF StoreInv, CleanInv, NoLostUpdate
<1> QED BY <1>1, Starts, Steps, PTL DEF Spec

(* AnswersTrue: a route that chooses its status by what it found, or writes *)
(* only where it found something, tells what the statement that wrote did   *)
(* to the document, unless another request came between the look and the    *)
(* write.  Nothing is claimed of the stores a PUT of which has one status   *)
(* that speaks of a creation or a replacement it may not have been.         *)
THEOREM AnswersRightly == Spec => []AnswersTrue
<1>1. StoreInv => AnswersTrue
  BY DEF StoreInv, CleanInv, Answered, AnswersTrue
<1> QED BY <1>1, Starts, Steps, PTL DEF Spec

----------------------------------------------------------------------------
(***************************************************************************)
(* The subscribers.  A document is calm when no two requests for it        *)
(* overlapped; at most one thread is then busy with it (BusyInv).  What    *)
(* this thread is still going to tell brings a subscriber's copy to the    *)
(* document (Fits), also that of a subscriber that has just fetched it     *)
(* (ChangeInv).  IssuedInv: in BSF's stores a search works on an id that   *)
(* was not given out, all the other threads on ids that were.              *)
(***************************************************************************)
Calm(k) == Exact(k) /\ \A p \in {"write", "notify"} : <<k, p>> \notin overlapped

Telling(x) == x.at \in {"list", "send"}

Follower(s) == /\ subs[s] = store.scope /\ subs[s] # "none"
               /\ s \notin missed /\ Calm(Watch[s])

Fits(s, d, x, e) ==
    /\ x.at = "idle" => d = e
    /\ x.at = "checked" /\ x.goal # "get" => d = e
    /\ x.at = "list" => Told(d, x.change) = e
    /\ x.at = "send" => IF s \in x.to THEN Told(d, x.change) = e ELSE d = e

ShapeInv ==
    /\ \A v \in Workers : work[v] # Free =>
          work[v].key \in Keys /\ work[v].at \in {"checked", "list", "send"}
    /\ DOMAIN copy = Watchers /\ DOMAIN subs = Watchers

BusyInv == \A u, v \in Workers, k \in Keys : Calm(k) /\ BusyOn(u, k) /\ BusyOn(v, k) => u = v

ChangeInv ==
    \A v \in Workers, k \in Keys : Calm(k) /\ BusyOn(v, k) /\ Telling(work[v]) =>
        Told(doc[k], work[v].change) = doc[k]

CopyInv ==
    \A s \in Watchers : Follower(s) =>
        /\ (\A v \in Workers : ~BusyOn(v, Watch[s])) => copy[s] = doc[Watch[s]]
        /\ \A v \in Workers : BusyOn(v, Watch[s]) => Fits(s, copy[s], work[v], doc[Watch[s]])

IssuedInv ==
    store \in FindStores =>
        /\ \A k \in Keys : doc[k] # Absent => k \in issued
        /\ \A v \in Workers : Telling(work[v]) => work[v].key \in issued
        /\ \A v \in Workers : Checked(v) /\ (\A j \in Keys : Exact(j)) => work[v].key \notin issued

FollowInv == ShapeInv /\ BusyInv /\ ChangeInv /\ CopyInv /\ IssuedInv

(* Requests only make documents less calm.                                  *)
LEMMA CalmBefore ==
    ASSUME UNCHANGED store, overlapped \subseteq overlapped'
    PROVE  \A k : Calm(k)' => Calm(k)
BY DEF Calm, Exact

(* Free is told from what a busy thread is at.                              *)
LEMMA BusyAt ==
    ASSUME ShapeInv, NEW v \in Workers
    PROVE  /\ work[v] = Free <=> work[v].at = "idle"
           /\ \A k : BusyOn(v, k) <=> work[v].at # "idle" /\ work[v].key = k
BY FreeIsIdle DEF ShapeInv, BusyOn, Idle

(***************************************************************************)
(* A step of thread w with document k: it was free or busy with k, and is  *)
(* so after it; nobody else is busy with k, or k is not calm.  What is     *)
(* left to show is about the subscribers of k.                             *)
(***************************************************************************)
Moves(w, k, x, e) ==
    /\ work' = [work EXCEPT ![w] = x] /\ doc' = [doc EXCEPT ![k] = e]
    /\ store' = store /\ subs' = subs /\ DOMAIN copy' = Watchers
    /\ overlapped \subseteq overlapped' /\ missed \subseteq missed'
    /\ \A s \in Watchers : Watch[s] # k => copy'[s] = copy[s]
    /\ Idle(w) \/ work[w].key = k
    /\ x = Free \/ (x.at \in {"checked", "list", "send"} /\ x.key = k)
    /\ Calm(k)' => \A v \in Workers : BusyOn(v, k) => v = w
    /\ Calm(k)' /\ Telling(x) => Told(e, x.change) = e
    /\ \A s \in Watchers : Watch[s] = k /\ Follower(s)' => Fits(s, copy'[s], x, e)

LEMMA FollowStep ==
    ASSUME StoreInv, ShapeInv, BusyInv, ChangeInv, CopyInv,
           NEW w \in Workers, NEW k \in Keys, NEW x, NEW e, Moves(w, k, x, e)
    PROVE  ShapeInv' /\ BusyInv' /\ ChangeInv' /\ CopyInv'
<1> USE DEF Moves
<1>1. /\ work'[w] = x /\ \A v \in Workers : v # w => work'[v] = work[v]
      /\ doc'[k] = e /\ \A j \in Keys : j # k => doc'[j] = doc[j]
  BY DEF StoreInv, TypeInv
<1>2. x = Free <=> x.at = "idle"
  BY FreeIsIdle
<1>3. ShapeInv'
  BY <1>1 DEF ShapeInv
<1>4. /\ \A v \in Workers : v # w => \A j : (BusyOn(v, j)' <=> BusyOn(v, j))
      /\ \A j : BusyOn(w, j)' => j = k /\ x # Free
      /\ \A j : BusyOn(w, j) => j = k
  BY <1>1 DEF BusyOn, Idle
<1>5. \A j : Calm(j)' => Calm(j)
  BY CalmBefore
<1>6. BusyInv'
  BY <1>4, <1>5 DEF BusyInv
<1>7. ChangeInv'
  <2> SUFFICES ASSUME NEW v \in Workers, NEW j \in Keys, Calm(j)', BusyOn(v, j)',
                      Telling(work'[v])
               PROVE  Told(doc'[j], work'[v].change) = doc'[j]
    BY DEF ChangeInv
  <2>1. CASE v = w
    <3>1. j = k
      BY <1>4, <2>1
    <3> QED BY <1>1, <2>1, <3>1
  <2>2. CASE v # w
    <3>1. BusyOn(v, j) /\ work'[v] = work[v]
      BY <1>1, <1>4, <2>2
    <3>2. j # k
      BY <2>2, <3>1
    <3>3. Told(doc[j], work[v].change) = doc[j]
      BY <1>5, <3>1 DEF ChangeInv
    <3> QED BY <1>1, <3>1, <3>2, <3>3
  <2> QED BY <2>1, <2>2
<1>8. CopyInv'
  <2> SUFFICES ASSUME NEW s \in Watchers, Follower(s)'
               PROVE  /\ (\A v \in Workers : ~BusyOn(v, Watch[s])') => copy'[s] = doc'[Watch[s]]
                      /\ \A v \in Workers : BusyOn(v, Watch[s])' =>
                             Fits(s, copy'[s], work'[v], doc'[Watch[s]])
    BY DEF CopyInv, Fits
  <2>1. PICK j \in Keys : j = Watch[s]
    BY StoreAssumption
  <2>2. Follower(s) /\ Calm(j)'
    BY <1>5, <2>1 DEF Follower
  <2>3. CASE j = k
    <3>1. Fits(s, copy'[s], x, e)
      BY <2>1, <2>3
    <3>2. \A v \in Workers : BusyOn(v, k)' => v = w
      BY <1>4, <2>2, <2>3
    <3>3. ~BusyOn(w, k)' => x = Free
      BY <1>1 DEF BusyOn, Idle
    <3>4. x = Free => copy'[s] = e
      BY <1>2, <3>1 DEF Fits
    <3> QED BY <1>1, <2>1, <2>3, <3>1, <3>2, <3>3, <3>4
  <2>4. CASE j # k
    <3>1. \A v \in Workers : /\ BusyOn(v, j)' <=> BusyOn(v, j)
                             /\ BusyOn(v, j) => work'[v] = work[v]
      BY <1>1, <1>4, <2>4
    <3>2. copy'[s] = copy[s] /\ doc'[j] = doc[j]
      BY <1>1, <2>1, <2>4
    <3>3. /\ (\A v \in Workers : ~BusyOn(v, j)) => copy[s] = doc[j]
          /\ \A v \in Workers : BusyOn(v, j) => Fits(s, copy[s], work[v], doc[j])
      BY <2>1, <2>2 DEF CopyInv
    <3>4. \A v \in Workers : BusyOn(v, Watch[s])' <=> BusyOn(v, j)
      BY <2>1, <3>1 DEF BusyOn, Idle
    <3>5. (\A v \in Workers : ~BusyOn(v, Watch[s])') => copy'[s] = doc'[Watch[s]]
      BY <2>1, <3>2, <3>3, <3>4
    <3>6. ASSUME NEW v \in Workers, BusyOn(v, Watch[s])'
          PROVE  Fits(s, copy'[s], work'[v], doc'[Watch[s]])
      <4>1. BusyOn(v, j) /\ work'[v] = work[v]
        BY <3>1, <3>4, <3>6
      <4> QED BY <2>1, <3>2, <3>3, <4>1
    <3> QED BY <3>5, <3>6
  <2> QED BY <2>3, <2>4
<1> QED BY <1>3, <1>6, <1>7, <1>8

(* A thread that finishes its write tells the subscribers of k what brings  *)
(* their copies to it, or those it does not tell are counted as missed.     *)
Leads(k, c, e) ==
    /\ store' = store /\ subs' = subs /\ copy' = copy
    /\ \A s \in Watchers : Watch[s] = k /\ Follower(s)' => Told(copy[s], c) = e
    /\ Calm(k)' => Told(e, c) = e

Ends(w, k, x, e) ==
    /\ work' = [work EXCEPT ![w] = x]
    /\ x = Free \/ (x.at = "list" /\ x.key = k)
    /\ Calm(k)' /\ Telling(x) => Told(e, x.change) = e
    /\ \A s \in Watchers : Watch[s] = k /\ Follower(s)' => Fits(s, copy'[s], x, e)
    /\ missed \subseteq missed'

LEMMA FinishFits ==
    ASSUME NEW w, NEW k, NEW n, NEW c, NEW e, Finish(w, k, n, c), Leads(k, c, e)
    PROVE  \E x : Ends(w, k, x, e)
<1> USE DEF Leads, Ends
<1> DEFINE y == [at |-> "list", key |-> k, change |-> c]
<1>1. y.at = "list" /\ y.key = k /\ y.change = c
  OBVIOUS
<1> HIDE DEF y
<1>2. missed \subseteq missed'
  BY DEF Finish
<1>3. CASE n /\ store.scope # "none"
  <2>1. work' = [work EXCEPT ![w] = y]
    BY <1>3 DEF Finish, y
  <2>2. \A s \in Watchers : Watch[s] = k /\ Follower(s)' => Fits(s, copy'[s], y, e)
    BY <1>1 DEF Fits
  <2> QED BY <1>1, <1>2, <2>1, <2>2
<1>4. CASE ~(n /\ store.scope # "none")
  <2>1. work' = [work EXCEPT ![w] = Free]
    BY <1>4 DEF Finish
  <2>2. ASSUME NEW s \in Watchers, Watch[s] = k PROVE ~Follower(s)'
    <3>1. CASE store.scope = "none"
      BY <3>1 DEF Follower
    <3>2. CASE ~n
      <4>1. subs[s] = store.scope => s \in missed'
        BY <2>2, <3>2 DEF Finish, WatchersOf
      <4> QED BY <4>1 DEF Follower
    <3> QED BY <1>4, <3>1, <3>2
  <2>3. ~Telling(Free)
    BY FreeIsIdle DEF Telling
  <2> QED BY <1>2, <2>1, <2>2, <2>3
<1> QED BY <1>3, <1>4

(* Entering for a document another thread is busy with is recorded.         *)
LEMMA EnterAlone ==
    ASSUME ShapeInv, NEW w \in Workers, NEW k \in Keys, Enter(w, k)
    PROVE  /\ Idle(w) /\ overlapped \subseteq overlapped'
           /\ Calm(k)' => \A v \in Workers : ~BusyOn(v, k)
<1>1. Idle(w) /\ overlapped \subseteq overlapped'
  BY DEF Enter
<1>2. ASSUME NEW v \in Workers, BusyOn(v, k)
      PROVE  \E p \in {"write", "notify"} : <<k, p>> \in overlapped'
  BY <1>2 DEF Enter
<1> QED BY <1>1, <1>2 DEF Calm

(* The write of one critical section, and what is told of it.               *)
Published(w, k) ==
    /\ Enter(w, k) /\ Unwatched
    /\ \E e, c, n : /\ doc' = [doc EXCEPT ![k] = e] /\ Finish(w, k, n, c)
                    /\ Calm(k)' => Told(doc[k], c) = e /\ Told(e, c) = e
    /\ store \in FindStores => issued' = issued /\ doc[k] # Absent

LEMMA PublishedStep ==
    ASSUME StoreInv, FollowInv, NEW w \in Workers, NEW k \in Keys, Published(w, k)
    PROVE  FollowInv'
<1>1. PICK e, c, n : /\ doc' = [doc EXCEPT ![k] = e] /\ Finish(w, k, n, c)
                     /\ Calm(k)' => Told(doc[k], c) = e /\ Told(e, c) = e
  BY DEF Published
<1>2. /\ UNCHANGED <<store, subs, copy>> /\ Enter(w, k) /\ DOMAIN copy' = Watchers
      /\ ShapeInv /\ BusyInv /\ ChangeInv /\ CopyInv /\ IssuedInv
  BY DEF Published, Unwatched, FollowInv, ShapeInv
<1>3. /\ Idle(w) /\ overlapped \subseteq overlapped'
      /\ Calm(k)' => \A v \in Workers : ~BusyOn(v, k)
  BY <1>2, EnterAlone
<1>4. ASSUME NEW s \in Watchers, Watch[s] = k, Follower(s)' PROVE Told(copy[s], c) = e
  <2>1. Calm(k)' /\ Calm(k) /\ missed \subseteq missed'
    BY <1>1, <1>2, <1>3, <1>4, CalmBefore DEF Follower, Finish
  <2>2. Follower(s)
    BY <1>2, <1>4, <2>1 DEF Follower
  <2>3. copy[s] = doc[k]
    BY <1>2, <1>3, <1>4, <2>1, <2>2 DEF CopyInv
  <2> QED BY <1>1, <2>1, <2>3
<1>5. PICK x : Ends(w, k, x, e)
  <2>1. \A s \in Watchers : Watch[s] = k /\ Follower(s)' => Told(copy[s], c) = e
    BY <1>4
  <2>2. Calm(k)' => Told(e, c) = e
    BY <1>1
  <2>3. store' = store /\ subs' = subs /\ copy' = copy
    BY <1>2
  <2>4. Finish(w, k, n, c)
    BY <1>1
  <2>5. Leads(k, c, e)
    BY <2>1, <2>2, <2>3 DEF Leads
  <2> QED BY <2>4, <2>5, FinishFits
<1>6. ShapeInv' /\ BusyInv' /\ ChangeInv' /\ CopyInv'
  <2>1. Moves(w, k, x, e)
    BY <1>1, <1>2, <1>3, <1>5 DEF Moves, Ends
  <2> QED BY <1>2, <2>1, FollowStep
<1>7. IssuedInv'
  <2> SUFFICES ASSUME store \in FindStores PROVE IssuedInv'
    BY <1>2 DEF IssuedInv
  <2>1. issued' = issued /\ k \in issued
    BY <1>2 DEF Published, IssuedInv
  <2>2. /\ work'[w] = x /\ \A v \in Workers : v # w => work'[v] = work[v]
        /\ \A j \in Keys : j # k => doc'[j] = doc[j]
    BY <1>1, <1>5 DEF StoreInv, TypeInv, Ends
  <2>3. \A j \in Keys : Exact(j)' => Exact(j)
    BY <1>2, <1>3 DEF Exact
  <2>4. ~Checked(w)' /\ (Telling(x) => x.key = k)
    BY <1>5, <2>2, FreeIsIdle DEF Checked, Telling, Ends
  <2>5. \A v \in Workers : Checked(v)' => v # w /\ Checked(v) /\ work'[v] = work[v]
    BY <2>2, <2>4 DEF Checked
  <2> QED BY <1>2, <2>1, <2>2, <2>3, <2>4, <2>5 DEF IssuedInv
<1> QED BY <1>6, <1>7 DEF FollowInv

(* What the changes tell.                                                   *)
LEMMA Changes ==
    /\ \A d, e : Told(d, change_replace(e)) = e
    /\ \A d : Told(d, change_remove) = Absent
    /\ \A d, n : Told(d, change_from_json_patch(n)) = Merged(d, n)
<1>1. \A d, e : Told(d, change_replace(e)) = e
  BY DEF Told, change_replace
<1>2. \A d : Told(d, change_remove) = Absent
  BY DEF Told, change_remove
<1>3. \A d, n : Told(d, change_from_json_patch(n)) = Merged(d, n)
  BY DEF Told, change_from_json_patch, Merged
<1> QED BY <1>1, <1>2, <1>3

LEMMA PutPublished ==
    ASSUME NEW w \in Workers, NEW k \in Keys, NEW n \in BOOLEAN, store \notin FindStores,
           Put(w, k, n) \/ Overwrites(w, k, n) \/ Create(w, k, n) \/ Update(w, k, n)
    PROVE  Published(w, k) \/ UNCHANGED vars
<1> SUFFICES ASSUME \/ Put(w, k, n) \/ Create(w, k, n)
                    \/ \E status : Overwrite(w, k, n, status)
             PROVE  Published(w, k)
  BY DEF Update, Overwrites, NoDocument, Answer
<1>1. /\ Enter(w, k) /\ Unwatched /\ doc' = [doc EXCEPT ![k] = {requests'}]
      /\ Finish(w, k, n, change_replace({requests'}))
  BY DEF Put, Overwrite, Create, Commit
<1>2. PICK e, c : e = {requests'} /\ c = change_replace(e)
  OBVIOUS
<1>3. Told(doc[k], c) = e /\ Told(e, c) = e
  BY <1>2, Changes
<1> QED BY <1>1, <1>2, <1>3 DEF Published

LEMMA PatchPublished ==
    ASSUME StoreInv, NEW w \in Workers, NEW k \in Keys, NEW n \in BOOLEAN,
           store \notin FindStores \/ store.onAbsent = "refuse",
           ApplyPatch(w, k, n) \/ MergePatch(w, k, n)
    PROVE  Published(w, k) \/ UNCHANGED vars
<1>1. PICK c : /\ PatchWith(w, k, n, c)
               /\ \/ c = change_from_json_patch(requests + 1)
                  \/ c = change_replace(Merged(doc[k], requests + 1))
  BY DEF ApplyPatch, MergePatch
<1> SUFFICES ASSUME /\ store.onAbsent = "create" \/ doc[k] # Absent
                    /\ Enter(w, k) /\ NewRequest
                    /\ Commit(k, Merged(doc[k], requests'), Merged(truth[k], requests'), TRUE)
                    /\ Finish(w, k, n, c)
                    /\ Unwatched /\ UNCHANGED issued
             PROVE  Published(w, k)
  BY <1>1 DEF PatchWith, NoDocument, Answer
<1>2. PICK m, e : m = requests' /\ e = Merged(doc[k], m)
  OBVIOUS
<1>3. m = requests + 1 /\ m \in 0 .. MaxRequests
  BY <1>2, NumbersRequest DEF StoreInv, NewRequest
<1>4. Merged(e, m) = e
  <2>1. e # Absent /\ m \in e
    BY <1>2, <1>3, Written DEF StoreInv, TypeInv, Merged
  <2> QED BY <2>1 DEF Merged
<1>5. Told(doc[k], c) = e /\ Told(e, c) = e
  BY <1>1, <1>2, <1>3, <1>4, Changes
<1>6. doc' = [doc EXCEPT ![k] = e]
  BY <1>2 DEF Commit
<1> QED BY <1>5, <1>6 DEF Published

LEMMA RemovePublished ==
    ASSUME NEW w \in Workers, NEW k \in Keys, NEW n \in BOOLEAN, Remove(w, k, n)
    PROVE  Published(w, k) \/ UNCHANGED vars
<1> SUFFICES ASSUME doc[k] # Absent, Enter(w, k), Commit(k, Absent, Absent, truth[k] # Absent),
                    Finish(w, k, n, change_remove), Unwatched, UNCHANGED issued
             PROVE  Published(w, k)
  BY DEF Remove, NoDocument, Answer
<1>1. doc' = [doc EXCEPT ![k] = Absent]
  BY DEF Commit
<1> QED BY <1>1, Changes DEF Published

(* A document of a store that keeps refused patches is never calm.          *)
LEMMA RefusedPublished ==
    ASSUME NEW w \in Workers, NEW k \in Keys, store \notin FindStores,
           store \in UncheckedStores, PatchKeptThoughRefused(w, k)
    PROVE  Published(w, k)
<1>1. /\ Enter(w, k) /\ Unwatched /\ doc' = [doc EXCEPT ![k] = Merged(doc[k], requests')]
      /\ Finish(w, k, Silent, change_remove)
  BY DEF PatchKeptThoughRefused, Commit
<1>2. ~Calm(k)'
  BY <1>1 DEF Calm, Exact, Unwatched
<1> QED BY <1>1, <1>2 DEF Published

----------------------------------------------------------------------------
(* A request enters and looks, or patches first: it will tell all.          *)
LookedAt(w, k) ==
    /\ Enter(w, k) /\ UNCHANGED <<store, subs, copy, missed>>
    /\ \E e, x : /\ doc' = [doc EXCEPT ![k] = e] /\ work' = [work EXCEPT ![w] = x]
                 /\ x.at = "checked" /\ x.key = k
                 /\ x.goal = "get" \/ e = doc[k]

LEMMA LookedAtStep ==
    ASSUME StoreInv, FollowInv, NEW w \in Workers, NEW k \in Keys, LookedAt(w, k),
           store \notin FindStores
    PROVE  FollowInv'
<1>1. PICK e, x : /\ doc' = [doc EXCEPT ![k] = e] /\ work' = [work EXCEPT ![w] = x]
                  /\ x.at = "checked" /\ x.key = k
                  /\ x.goal = "get" \/ e = doc[k]
  BY DEF LookedAt
<1>2. /\ UNCHANGED <<store, subs, copy, missed>> /\ Enter(w, k) /\ DOMAIN copy' = Watchers
      /\ ShapeInv /\ BusyInv /\ ChangeInv /\ CopyInv
  BY DEF LookedAt, FollowInv, ShapeInv
<1>3. /\ Idle(w) /\ overlapped \subseteq overlapped'
      /\ Calm(k)' => \A v \in Workers : ~BusyOn(v, k)
  BY <1>2, EnterAlone
<1>4. ASSUME NEW s \in Watchers, Watch[s] = k, Follower(s)' PROVE Fits(s, copy'[s], x, e)
  <2>1. Calm(k)' /\ Calm(k)
    BY <1>2, <1>3, <1>4, CalmBefore DEF Follower
  <2>2. Follower(s)
    BY <1>2, <1>4, <2>1 DEF Follower
  <2>3. copy[s] = doc[k]
    BY <1>2, <1>3, <1>4, <2>1, <2>2 DEF CopyInv
  <2> QED BY <1>1, <1>2, <2>3 DEF Fits
<1>5. ~Telling(x)
  BY <1>1 DEF Telling
<1>6. ShapeInv' /\ BusyInv' /\ ChangeInv' /\ CopyInv'
  <2>1. \A s \in Watchers : Watch[s] = k /\ Follower(s)' => Fits(s, copy'[s], x, e)
    BY <1>4
  <2>2. missed \subseteq missed'
    BY <1>2
  <2>3. Moves(w, k, x, e)
    BY <1>1, <1>2, <1>3, <1>5, <2>1, <2>2 DEF Moves
  <2> QED BY <1>2, <2>3, FollowStep
<1> QED BY <1>2, <1>6 DEF FollowInv, IssuedInv

LEMMA LooksLookedAt ==
    ASSUME StoreInv, NEW w \in Workers, NEW k \in Keys, Looks(w, k)
    PROVE  LookedAt(w, k) \/ UNCHANGED vars
<1>1. PICK n \in BOOLEAN :
          \/ CheckThenPut(w, k, n) \/ CheckThenUpsert(w, k, n)
          \/ CheckThenReplace(w, k, n) \/ ReadThenPut(w, k, n)
          \/ ReadThenUpsert(w, k, n) \/ CheckThenRemove(w, k, n)
          \/ PatchThenGet(w, k, n)
  BY DEF Looks
<1>2. ASSUME NEW g, Check(w, k, g, n) PROVE LookedAt(w, k)
  <2> DEFINE x == [at |-> "checked", key |-> k, goal |-> g, seen |-> doc[k],
                   request |-> requests', notifies |-> n]
  <2>1. x.at = "checked" /\ x.key = k
    OBVIOUS
  <2>2. doc' = [doc EXCEPT ![k] = doc[k]]
    BY <1>2 DEF Check, StoreInv, TypeInv
  <2>3. work' = [work EXCEPT ![w] = x] /\ Enter(w, k) /\ UNCHANGED <<store, subs, copy, missed>>
    BY <1>2 DEF Check, Unwatched
  <2> HIDE DEF x
  <2> QED BY <2>1, <2>2, <2>3 DEF LookedAt
<1>3. CASE PatchThenGet(w, k, n)
  <2> DEFINE x == [at |-> "checked", key |-> k, goal |-> "get", seen |-> doc'[k],
                   request |-> requests', notifies |-> n]
  <2>1. x.at = "checked" /\ x.key = k /\ x.goal = "get"
    OBVIOUS
  <2>2. \/ UNCHANGED vars
        \/ /\ Enter(w, k) /\ UNCHANGED <<store, subs, copy, missed>>
           /\ doc' = [doc EXCEPT ![k] = Merged(doc[k], requests')]
           /\ work' = [work EXCEPT ![w] = x]
    BY <1>3 DEF PatchThenGet, NoDocument, Answer, Unwatched, Commit
  <2> HIDE DEF x
  <2> QED BY <2>1, <2>2 DEF LookedAt
<1>4. CASE ~PatchThenGet(w, k, n)
  <2>1. NoDocument(w, k) \/ \E g : Check(w, k, g, n)
    BY <1>1, <1>4 DEF CheckThenPut, CheckThenUpsert, CheckThenReplace, ReadThenPut,
                      ReadThenUpsert, CheckThenRemove
  <2> QED BY <1>2, <2>1 DEF NoDocument, Answer
<1> QED BY <1>3, <1>4

----------------------------------------------------------------------------
LEMMA FindStoresKept == \A x \in FindStores : ~x.durable /\ ~x.seeded /\ x.ids = "server"
BY DEF FindStores, PcfBindingStore, PcfForUeBindingStore, PcfMbsBindingStore, Events, Memory, Store

(* A search finds nothing and takes an id nobody is busy with.              *)
LEMMA FindFollows ==
    ASSUME StoreInv, FollowInv, NEW w \in Workers, NEW k \in Keys, NEW n \in BOOLEAN,
           store \in FindStores, FindThenCreate(w, k, n)
    PROVE  FollowInv' \/ UNCHANGED vars
<1> DEFINE x == [at |-> "checked", key |-> k, goal |-> "create", seen |-> Absent,
                 request |-> requests', notifies |-> n]
<1> SUFFICES ASSUME /\ k \notin issued /\ Idle(w)
                    /\ overlapped' = overlapped \cup
                           {<<j, "write">> : j \in {j \in Keys : \E v \in Workers : work[v].at = "checked"}}
                    /\ work' = [work EXCEPT ![w] = x]
                    /\ UNCHANGED <<store, subs, copy, missed, doc, issued>>
             PROVE  FollowInv'
  BY DEF FindThenCreate, Answer, Unwatched
<1>1. x.at = "checked" /\ x.key = k /\ x.goal = "create"
  OBVIOUS
<1> HIDE DEF x
<1>2. /\ ShapeInv /\ BusyInv /\ ChangeInv /\ CopyInv /\ IssuedInv
      /\ overlapped \subseteq overlapped' /\ DOMAIN copy' = Watchers
      /\ doc' = [doc EXCEPT ![k] = doc[k]]
  BY DEF FollowInv, ShapeInv, StoreInv, TypeInv
<1>3. (\E v \in Workers : Checked(v)) => \A j \in Keys : ~Calm(j)' /\ ~Exact(j)'
  <2>1. (\E v \in Workers : Checked(v)) => \A j \in Keys : <<j, "write">> \in overlapped'
    BY DEF Checked
  <2>2. store' \in TwoStepStores
    BY DEF FindStores, TwoStepStores
  <2> QED BY <2>1, <2>2 DEF Calm, Exact
<1>4. Calm(k)' => \A v \in Workers : ~BusyOn(v, k)
  <2> SUFFICES ASSUME NEW v \in Workers, BusyOn(v, k), ~Checked(v) PROVE FALSE
    BY <1>3
  <2>1. Telling(work[v]) /\ work[v].key = k
    BY <1>2 DEF ShapeInv, BusyOn, Idle, Checked, Telling
  <2> QED BY <1>2, <2>1 DEF IssuedInv
<1>5. ASSUME NEW s \in Watchers, Watch[s] = k, Follower(s)' PROVE Fits(s, copy'[s], x, doc[k])
  <2>1. Calm(k)' /\ Calm(k)
    BY <1>2, <1>5, CalmBefore DEF Follower
  <2>2. Follower(s)
    BY <1>5, <2>1 DEF Follower
  <2>3. copy[s] = doc[k]
    BY <1>2, <1>4, <1>5, <2>1, <2>2 DEF CopyInv
  <2> QED BY <1>1, <2>3 DEF Fits
<1>6. ~Telling(x)
  BY <1>1 DEF Telling
<1>7. ShapeInv' /\ BusyInv' /\ ChangeInv' /\ CopyInv'
  <2>1. \A s \in Watchers : Watch[s] = k /\ Follower(s)' => Fits(s, copy'[s], x, doc[k])
    BY <1>5
  <2>2. missed \subseteq missed' /\ store' = store /\ subs' = subs
    OBVIOUS
  <2>3. \A s \in Watchers : Watch[s] # k => copy'[s] = copy[s]
    OBVIOUS
  <2>4. Calm(k)' => \A v \in Workers : BusyOn(v, k) => v = w
    BY <1>4
  <2>5. Calm(k)' /\ Telling(x) => Told(doc[k], x.change) = doc[k]
    BY <1>6
  <2>6. work' = [work EXCEPT ![w] = x] /\ (Idle(w) \/ work[w].key = k)
    OBVIOUS
  <2>7. Moves(w, k, x, doc[k])
    BY <1>1, <1>2, <2>1, <2>2, <2>3, <2>4, <2>5, <2>6 DEF Moves
  <2> QED BY <1>2, <2>7, FollowStep
<1>8. IssuedInv'
  <2>1. work'[w] = x /\ \A v \in Workers : v # w => work'[v] = work[v]
    BY DEF StoreInv, TypeInv
  <2>2. \A v \in Workers : Telling(work'[v]) => v # w /\ Telling(work[v]) /\ work'[v] = work[v]
    BY <1>6, <2>1
  <2>3. \A v \in Workers : Checked(v)' => v = w \/ (Checked(v) /\ work'[v] = work[v])
    BY <2>1 DEF Checked
  <2>4. \A j \in Keys : Exact(j)' => Exact(j)
    BY <1>2 DEF Exact
  <2> QED BY <1>1, <1>2, <2>1, <2>2, <2>3, <2>4 DEF IssuedInv
<1> QED BY <1>7, <1>8 DEF FollowInv

(* The requests of all routes.                                              *)
LEMMA RequestFollows ==
    ASSUME StoreInv, FollowInv, Request
    PROVE  FollowInv' \/ UNCHANGED vars
<1>1. PICK w \in Workers, k \in Keys : Sorted(w, k)
  BY RequestsSorted
<1>2. CASE store \notin FindStores /\ Atomic(w, k)
  <2>1. PICK n \in BOOLEAN :
            \/ Put(w, k, n) \/ Overwrites(w, k, n) \/ ApplyPatch(w, k, n)
            \/ MergePatch(w, k, n) \/ Update(w, k, n) \/ Remove(w, k, n)
            \/ Create(w, k, n)
    BY <1>2 DEF Atomic
  <2>2. Published(w, k) \/ UNCHANGED vars
    BY <1>2, <2>1, PutPublished, PatchPublished, RemovePublished
  <2> QED BY <2>2, PublishedStep
<1>3. CASE store \notin FindStores /\ Looks(w, k)
  BY <1>3, LooksLookedAt, LookedAtStep
<1>4. CASE store \in FindStores /\ store.onAbsent = "refuse" /\ Finds(w, k)
  <2>1. PICK n \in BOOLEAN : FindThenCreate(w, k, n) \/ MergePatch(w, k, n) \/ Remove(w, k, n)
    BY <1>4 DEF Finds
  <2> QED BY <1>4, <2>1, FindFollows, PatchPublished, RemovePublished, PublishedStep
<1>5. CASE store \notin FindStores /\ store \in UncheckedStores /\ PatchKeptThoughRefused(w, k)
  BY <1>5, RefusedPublished, PublishedStep
<1> QED BY <1>1, <1>2, <1>3, <1>4, <1>5 DEF Sorted

----------------------------------------------------------------------------
(* A handler that looked comes back: what it tells is what it has written.  *)
LEMMA WriteFollows ==
    ASSUME StoreInv, FollowInv, NEW w \in Workers, WriteChecked(w)
    PROVE  FollowInv'
<1>1. PICK y : y = work[w]
  OBVIOUS
<1>2. PICK k, n, z, q : k = y.key /\ n = y.request /\ z = y.seen /\ q = y.notifies
  OBVIOUS
<1>3. /\ Checked(w) /\ k \in Keys /\ store \notin FindStores
      /\ Exact(k) => z = doc[k] /\ (y.goal # "put" => z # Absent)
  <2>1. Checked(w) /\ y.goal # "create"
    BY <1>1 DEF WriteChecked, Checked
  <2>2. Held(y)
    BY <1>1, <2>1 DEF StoreInv, HeldInv
  <2> QED BY <1>2, <2>1, <2>2 DEF Held
<1>4. /\ UNCHANGED <<store, subs, copy, overlapped>>
      /\ ShapeInv /\ BusyInv /\ ChangeInv /\ CopyInv /\ DOMAIN copy' = Watchers
  BY DEF WriteChecked, Unwatched, FollowInv, ShapeInv
<1>5. \E e, c : /\ doc' = [doc EXCEPT ![k] = e] /\ Finish(w, k, q, c)
                /\ Exact(k) => \A d : Told(d, c) = e
  <2>1. \A e, c, t, r : Commit(k, e, t, r) /\ Finish(w, k, q, c)
                           /\ (Exact(k) => \A d : Told(d, c) = e)
                        => \E e1, c1 : /\ doc' = [doc EXCEPT ![k] = e1]
                                       /\ Finish(w, k, q, c1)
                                       /\ Exact(k) => \A d : Told(d, c1) = e1
    BY DEF Commit
  <2>2. CASE \E t, r : Commit(k, {n}, t, r) /\ Finish(w, k, q, change_replace({n}))
    BY <2>1, <2>2, Changes
  <2>3. CASE /\ y.goal \in {"replace", "merge"} /\ doc[k] = Absent
             /\ Commit(k, Absent, Absent, FALSE)
             /\ Finish(w, k, q, change_replace({n}))
    <3>1. ~Exact(k)
      BY <1>3, <2>3
    <3> QED BY <2>1, <2>3, <3>1
  <2>4. CASE \E t, r : /\ Commit(k, Merged(z, n), t, r)
                       /\ Finish(w, k, q, change_replace(Merged(z, n)))
    BY <2>1, <2>4, Changes
  <2>5. CASE \E t, r : Commit(k, Absent, t, r) /\ Finish(w, k, q, change_remove)
    BY <2>1, <2>5, Changes
  <2>6. CASE \E t, r : Commit(k, doc[k], t, r) /\ Finish(w, k, q, change_replace(z))
    BY <1>3, <2>1, <2>6, Changes
  <2>7. \/ \E t, r : Commit(k, {n}, t, r) /\ Finish(w, k, q, change_replace({n}))
        \/ /\ y.goal \in {"replace", "merge"} /\ doc[k] = Absent
           /\ Commit(k, Absent, Absent, FALSE)
           /\ Finish(w, k, q, change_replace({n}))
        \/ \E t, r : /\ Commit(k, Merged(z, n), t, r)
                     /\ Finish(w, k, q, change_replace(Merged(z, n)))
        \/ \E t, r : Commit(k, Absent, t, r) /\ Finish(w, k, q, change_remove)
        \/ \E t, r : Commit(k, doc[k], t, r) /\ Finish(w, k, q, change_replace(z))
    BY <1>1, <1>2, Zenon DEF WriteChecked
  <2> QED BY <2>2, <2>3, <2>4, <2>5, <2>6, <2>7
<1>6. PICK e, c : /\ doc' = [doc EXCEPT ![k] = e] /\ Finish(w, k, q, c)
                  /\ Exact(k) => \A d : Told(d, c) = e
  BY <1>5
<1>7. Calm(k)' => Exact(k)
  BY <1>4, CalmBefore DEF Calm
<1>8. PICK x : Ends(w, k, x, e)
  <2>1. \A s \in Watchers : Watch[s] = k /\ Follower(s)' => Told(copy[s], c) = e
    BY <1>6, <1>7 DEF Follower
  <2>2. Calm(k)' => Told(e, c) = e
    BY <1>6, <1>7
  <2>3. store' = store /\ subs' = subs /\ copy' = copy
    BY <1>4
  <2>4. Finish(w, k, q, c)
    BY <1>6
  <2>5. Leads(k, c, e)
    BY <2>1, <2>2, <2>3 DEF Leads
  <2> QED BY <2>4, <2>5, FinishFits
<1>9. ShapeInv' /\ BusyInv' /\ ChangeInv' /\ CopyInv'
  <2>1. BusyOn(w, k)
    BY <1>1, <1>2, <1>3, FreeIsIdle DEF BusyOn, Idle, Checked
  <2>2. Calm(k)' => \A v \in Workers : BusyOn(v, k) => v = w
    BY <1>3, <1>4, <2>1, CalmBefore DEF BusyInv
  <2>3. work[w].key = k /\ overlapped \subseteq overlapped' /\ store' = store /\ subs' = subs
    BY <1>1, <1>2, <1>4
  <2>4. \A s \in Watchers : Watch[s] # k => copy'[s] = copy[s]
    BY <1>4
  <2>5. x = Free \/ (x.at \in {"checked", "list", "send"} /\ x.key = k)
    BY <1>8 DEF Ends
  <2>6. doc' = [doc EXCEPT ![k] = e]
    BY <1>6
  <2>7. Moves(w, k, x, e)
    BY <1>4, <1>8, <2>2, <2>3, <2>4, <2>5, <2>6 DEF Moves, Ends
  <2> QED BY <1>3, <1>4, <2>7, FollowStep
<1> QED BY <1>3, <1>4, <1>9 DEF FollowInv, IssuedInv

(* The create after a search.  If another search came in between, no        *)
(* document of the store is calm any more.                                  *)
LEMMA CreateFollows ==
    ASSUME StoreInv, FollowInv, NEW w \in Workers, CreateChecked(w)
    PROVE  FollowInv'
<1>1. PICK y : y = work[w]
  OBVIOUS
<1>2. /\ Checked(w) /\ y.goal = "create" /\ UNCHANGED <<store, subs, copy, overlapped>>
      /\ ShapeInv /\ BusyInv /\ ChangeInv /\ CopyInv /\ IssuedInv /\ DOMAIN copy' = Watchers
  BY <1>1 DEF CreateChecked, Checked, Unwatched, FollowInv, ShapeInv
<1>3. store \in FindStores /\ y.key \in Keys
  BY <1>1, <1>2 DEF StoreInv, HeldInv, Held
<1>4. PICK k \in Keys \ issued :
          /\ y.key \notin issued => k = y.key
          /\ \E t, r : Commit(k, {y.request}, t, r)
          /\ Finish(w, k, y.notifies, change_replace({y.request}))
          /\ issued' = issued \cup {k}
  BY <1>1 DEF CreateChecked
<1>5. PICK e, c, q : e = {y.request} /\ c = change_replace(e) /\ q = y.notifies
  OBVIOUS
<1>6. doc' = [doc EXCEPT ![k] = e] /\ \A d : Told(d, c) = e
  BY <1>4, <1>5, Changes DEF Commit
<1>7. PICK x : Ends(w, k, x, e)
  <2>1. \A s \in Watchers : Watch[s] = k /\ Follower(s)' => Told(copy[s], c) = e
    BY <1>6
  <2>2. Calm(k)' => Told(e, c) = e
    BY <1>6
  <2>3. store' = store /\ subs' = subs /\ copy' = copy
    BY <1>2
  <2>4. Finish(w, k, q, c)
    BY <1>4, <1>5
  <2>5. Leads(k, c, e)
    BY <2>1, <2>2, <2>3 DEF Leads
  <2> QED BY <2>4, <2>5, FinishFits
<1>8. /\ work'[w] = x /\ \A v \in Workers : v # w => work'[v] = work[v]
      /\ \A j \in Keys : j # k => doc'[j] = doc[j]
  BY <1>6, <1>7 DEF StoreInv, TypeInv, Ends
<1>9. \A j : Exact(j)' <=> Exact(j)
  BY <1>2 DEF Exact
<1>10. IssuedInv'
  <2>1. \A v \in Workers : Telling(work'[v]) => (v = w /\ work'[v].key = k)
                                                 \/ (Telling(work[v]) /\ work'[v] = work[v])
    BY <1>7, <1>8, FreeIsIdle DEF Telling, Ends
  <2>2. ~Checked(w)' /\ \A v \in Workers : Checked(v)' => v # w /\ Checked(v)
    BY <1>7, <1>8, FreeIsIdle DEF Checked, Ends
  <2>3. (\A j \in Keys : Exact(j)') => \A v \in Workers : ~Checked(v)'
    BY <1>2, <1>3, <1>9, <2>2 DEF StoreInv, FindInv
  <2> QED BY <1>2, <1>3, <1>4, <1>8, <2>1, <2>3 DEF IssuedInv
<1>11. ShapeInv' /\ BusyInv' /\ ChangeInv' /\ CopyInv'
  <2>1. CASE \A j \in Keys : Exact(j)
    <3>1. k = y.key
      BY <1>1, <1>2, <1>3, <1>4, <2>1 DEF IssuedInv
    <3>2. ASSUME NEW v \in Workers, BusyOn(v, k) PROVE v = w
      <4>1. ~Telling(work[v])
        BY <1>2, <1>3, <1>4, <3>2 DEF IssuedInv, BusyOn
      <4>2. Checked(v)
        BY <1>2, <3>2, <4>1 DEF ShapeInv, BusyOn, Idle, Checked, Telling
      <4> QED BY <1>2, <1>3, <2>1, <4>2 DEF StoreInv, FindInv
    <3>3. work[w].key = k /\ overlapped \subseteq overlapped' /\ store' = store /\ subs' = subs
      BY <1>1, <1>2, <3>1
    <3>4. \A s \in Watchers : Watch[s] # k => copy'[s] = copy[s]
      BY <1>2
    <3>5. x = Free \/ (x.at \in {"checked", "list", "send"} /\ x.key = k)
      BY <1>7 DEF Ends
    <3>6. doc' = [doc EXCEPT ![k] = e]
      BY <1>6
    <3>7. Calm(k)' => \A v \in Workers : BusyOn(v, k) => v = w
      BY <3>2
    <3>8. Moves(w, k, x, e)
      BY <1>2, <1>7, <3>3, <3>4, <3>5, <3>6, <3>7 DEF Moves, Ends
    <3> QED BY <1>2, <3>8, FollowStep
  <2>2. CASE \A j \in Keys : ~Exact(j)
    <3>1. \A j \in Keys : ~Calm(j)'
      BY <1>9, <2>2 DEF Calm
    <3>2. \A s \in Watchers : ~Follower(s)'
      BY <3>1, StoreAssumption DEF Follower
    <3>3. ShapeInv'
      BY <1>2, <1>7, <1>8 DEF ShapeInv, Ends
    <3> QED BY <3>1, <3>2, <3>3 DEF BusyInv, ChangeInv, CopyInv
  <2> QED BY <1>3, <2>1, <2>2 DEF StoreInv, FindInv
<1> QED BY <1>10, <1>11 DEF FollowInv

----------------------------------------------------------------------------
(* The subscribers are listed: those of k with the change still to come.    *)
LEMMA ListFollows ==
    ASSUME StoreInv, FollowInv, NEW w \in Workers, ListSubscribers(w)
    PROVE  FollowInv'
<1>1. PICK y, k : y = work[w] /\ k = y.key
  OBVIOUS
<1>2. /\ ShapeInv /\ BusyInv /\ ChangeInv /\ CopyInv /\ IssuedInv /\ DOMAIN copy' = Watchers
      /\ y.at = "list" /\ y # Free
      /\ UNCHANGED <<store, doc, issued, subs, copy, overlapped, missed>>
  BY <1>1, FreeIsIdle DEF ListSubscribers, FollowInv, ShapeInv
<1>3. k \in Keys /\ BusyOn(w, k) /\ Telling(y)
  BY <1>1, <1>2 DEF ShapeInv, BusyOn, Idle, Telling
<1>4. PICK to : /\ to = {s \in Watchers : Reaches(k, s)}
                /\ work' = [work EXCEPT ![w] =
                       IF to = {} THEN Free
                       ELSE [at |-> "send", key |-> k, change |-> y.change, to |-> to]]
  BY <1>1 DEF ListSubscribers
<1>5. PICK x : /\ x = IF to = {} THEN Free
                      ELSE [at |-> "send", key |-> k, change |-> y.change, to |-> to]
  OBVIOUS
<1>6. \/ x = Free
      \/ x.at = "send" /\ x.key = k /\ x.change = y.change /\ x.to = to /\ to # {}
  BY <1>5
<1>7. work' = [work EXCEPT ![w] = x] /\ doc' = [doc EXCEPT ![k] = doc[k]]
  BY <1>2, <1>4, <1>5 DEF StoreInv, TypeInv
<1>8. \A j : Calm(j)' <=> Calm(j)
  BY <1>2 DEF Calm, Exact
<1>9. ASSUME NEW s \in Watchers, Watch[s] = k, Follower(s)' PROVE Fits(s, copy'[s], x, doc[k])
  <2>1. Follower(s) /\ copy'[s] = copy[s]
    BY <1>2, <1>8, <1>9 DEF Follower
  <2>2. Fits(s, copy[s], y, doc[k])
    <3>1. BusyOn(w, Watch[s])
      BY <1>3, <1>9
    <3>2. Fits(s, copy[s], work[w], doc[Watch[s]])
      BY <1>2, <2>1, <3>1 DEF CopyInv
    <3> QED BY <1>1, <1>9, <3>2
  <2>3. Told(copy[s], y.change) = doc[k]
    BY <1>2, <2>2 DEF Fits
  <2>4. s \in to
    <3>1. Watch[s] \in Contains[k] /\ subs[s] = store.scope
      BY <1>3, <1>9, <2>1, StoreAssumption DEF Follower
    <3>2. Reaches(k, s)
      BY <1>9, <3>1 DEF Reaches
    <3> QED BY <1>4, <3>2
  <2> QED BY <1>6, <1>5, <2>1, <2>3, <2>4 DEF Fits
<1>10. Moves(w, k, x, doc[k])
  <2>1. Calm(k)' => \A v \in Workers : BusyOn(v, k) => v = w
    BY <1>3, <1>2, <1>8 DEF BusyInv
  <2>2. Calm(k)' /\ Telling(x) => Told(doc[k], x.change) = doc[k]
    <3>1. Calm(k) => Told(doc[k], y.change) = doc[k]
      BY <1>1, <1>2, <1>3 DEF ChangeInv
    <3> QED BY <1>6, <1>8, <3>1, FreeIsIdle DEF Telling
  <2>3. \A s \in Watchers : Watch[s] = k /\ Follower(s)' => Fits(s, copy'[s], x, doc[k])
    BY <1>9
  <2>4. work[w].key = k /\ overlapped \subseteq overlapped' /\ missed \subseteq missed'
    BY <1>1, <1>2
  <2>5. x = Free \/ (x.at \in {"checked", "list", "send"} /\ x.key = k)
    BY <1>6
  <2> QED BY <1>2, <1>7, <2>1, <2>2, <2>3, <2>4, <2>5 DEF Moves
<1>11. ShapeInv' /\ BusyInv' /\ ChangeInv' /\ CopyInv'
  BY <1>2, <1>3, <1>10, FollowStep
<1>12. IssuedInv'
  <2> SUFFICES ASSUME store \in FindStores PROVE IssuedInv'
    BY <1>2 DEF IssuedInv
  <2>1. work'[w] = x /\ \A v \in Workers : v # w => work'[v] = work[v]
    BY <1>7 DEF StoreInv, TypeInv
  <2>2. k \in issued
    BY <1>1, <1>2, <1>3 DEF IssuedInv
  <2>3. \A v \in Workers : Telling(work'[v]) => work'[v].key \in issued
    BY <1>2, <1>6, <2>1, <2>2, FreeIsIdle DEF IssuedInv, Telling
  <2>4. \A v \in Workers : Checked(v)' => Checked(v) /\ work'[v] = work[v]
    BY <1>6, <2>1, FreeIsIdle DEF Checked
  <2>5. \A j : Exact(j)' <=> Exact(j)
    BY <1>2 DEF Exact
  <2> QED BY <1>2, <2>3, <2>4, <2>5 DEF IssuedInv
<1> QED BY <1>11, <1>12 DEF FollowInv

(* A notification arrives or is lost, and the loop goes on.                 *)
LEMMA DeliverFollows ==
    ASSUME StoreInv, FollowInv, NEW w \in Workers, NEW s \in Watchers, Deliver(w, s)
    PROVE  FollowInv'
<1>1. PICK y, k : y = work[w] /\ k = y.key
  OBVIOUS
<1>2. /\ ShapeInv /\ BusyInv /\ ChangeInv /\ CopyInv /\ IssuedInv
      /\ y.at = "send" /\ y # Free /\ s \in y.to
      /\ UNCHANGED <<store, doc, issued, subs, overlapped>>
  BY <1>1, FreeIsIdle DEF Deliver, FollowInv
<1>3. k \in Keys /\ BusyOn(w, k) /\ Telling(y)
  BY <1>1, <1>2 DEF ShapeInv, BusyOn, Idle, Telling
<1>4. PICK rest : /\ rest = y.to \ {s}
                  /\ work' = [work EXCEPT ![w] = IF rest = {} THEN Free ELSE [y EXCEPT !.to = rest]]
  BY <1>1 DEF Deliver, Sent
<1>5. PICK x : x = IF rest = {} THEN Free ELSE [y EXCEPT !.to = rest]
  OBVIOUS
<1>6. \/ x = Free /\ rest = {}
      \/ x.at = "send" /\ x.key = k /\ x.change = y.change /\ x.to = rest /\ rest # {}
  <2>1. y = [at |-> "send", key |-> y.key, change |-> y.change, to |-> y.to]
    BY <1>1, <1>2 DEF StoreInv, TypeInv, Sends
  <2>2. [y EXCEPT !.to = rest] = [at |-> "send", key |-> k, change |-> y.change, to |-> rest]
    BY <1>1, <2>1
  <2> QED BY <1>5, <2>2
<1>7. work' = [work EXCEPT ![w] = x] /\ doc' = [doc EXCEPT ![k] = doc[k]]
  BY <1>2, <1>4, <1>5 DEF StoreInv, TypeInv
<1>8. \A j : Calm(j)' <=> Calm(j)
  BY <1>2 DEF Calm, Exact
<1>9. /\ missed \subseteq missed' /\ DOMAIN copy' = Watchers
      /\ \A m \in Watchers : m # s => copy'[m] = copy[m]
      /\ Watch[s] # k => copy'[s] = copy[s]
      /\ Watch[s] = k => s \in missed' \/ copy'[s] = Told(copy[s], y.change)
  BY <1>1, <1>2 DEF Deliver, ShapeInv
<1>10. ASSUME NEW m \in Watchers, Watch[m] = k, Follower(m)' PROVE Fits(m, copy'[m], x, doc[k])
  <2>1. Follower(m) /\ m \notin missed'
    BY <1>2, <1>8, <1>9, <1>10 DEF Follower
  <2>2. Fits(m, copy[m], y, doc[k])
    <3>1. BusyOn(w, Watch[m])
      BY <1>3, <1>10
    <3>2. Fits(m, copy[m], work[w], doc[Watch[m]])
      BY <1>2, <2>1, <3>1 DEF CopyInv
    <3> QED BY <1>1, <1>10, <3>2
  <2>3. IF m \in y.to THEN Told(copy[m], y.change) = doc[k] ELSE copy[m] = doc[k]
    BY <1>2, <2>2 DEF Fits
  <2>4. CASE m = s
    <3>1. copy'[m] = doc[k] /\ m \notin rest
      BY <1>2, <1>4, <1>9, <1>10, <2>1, <2>3, <2>4
    <3> QED BY <1>6, <3>1, FreeIsIdle DEF Fits
  <2>5. CASE m # s
    <3>1. copy'[m] = copy[m] /\ (m \in rest <=> m \in y.to)
      BY <1>4, <1>9, <2>5
    <3> QED BY <1>6, <2>3, <3>1, FreeIsIdle DEF Fits
  <2> QED BY <2>4, <2>5
<1>11. Moves(w, k, x, doc[k])
  <2>1. Calm(k)' => \A v \in Workers : BusyOn(v, k) => v = w
    BY <1>3, <1>2, <1>8 DEF BusyInv
  <2>2. Calm(k)' /\ Telling(x) => Told(doc[k], x.change) = doc[k]
    <3>1. Calm(k) => Told(doc[k], y.change) = doc[k]
      BY <1>1, <1>2, <1>3 DEF ChangeInv
    <3> QED BY <1>6, <1>8, <3>1, FreeIsIdle DEF Telling
  <2>3. \A m \in Watchers : Watch[m] = k /\ Follower(m)' => Fits(m, copy'[m], x, doc[k])
    BY <1>10
  <2>4. work[w].key = k /\ overlapped \subseteq overlapped'
    BY <1>1, <1>2
  <2>5. x = Free \/ (x.at \in {"checked", "list", "send"} /\ x.key = k)
    BY <1>6
  <2>6. \A m \in Watchers : Watch[m] # k => copy'[m] = copy[m]
    BY <1>9
  <2> QED BY <1>2, <1>7, <1>9, <2>1, <2>2, <2>3, <2>4, <2>5, <2>6 DEF Moves
<1>12. ShapeInv' /\ BusyInv' /\ ChangeInv' /\ CopyInv'
  BY <1>2, <1>3, <1>11, FollowStep
<1>13. IssuedInv'
  <2> SUFFICES ASSUME store \in FindStores PROVE IssuedInv'
    BY <1>2 DEF IssuedInv
  <2>1. work'[w] = x /\ \A v \in Workers : v # w => work'[v] = work[v]
    BY <1>7 DEF StoreInv, TypeInv
  <2>2. k \in issued
    BY <1>1, <1>2, <1>3 DEF IssuedInv
  <2>3. \A v \in Workers : Telling(work'[v]) => work'[v].key \in issued
    BY <1>2, <1>6, <2>1, <2>2, FreeIsIdle DEF IssuedInv, Telling
  <2>4. \A v \in Workers : Checked(v)' => Checked(v) /\ work'[v] = work[v]
    BY <1>6, <2>1, FreeIsIdle DEF Checked
  <2>5. \A j : Exact(j)' <=> Exact(j)
    BY <1>2 DEF Exact
  <2> QED BY <1>2, <2>3, <2>4, <2>5 DEF IssuedInv
<1> QED BY <1>12, <1>13 DEF FollowInv

(* A consumer comes, with the document it has fetched, or goes; or nothing  *)
(* happens.                                                                 *)
LEMMA SubscriptionFollows ==
    ASSUME StoreInv, FollowInv,
           UNCHANGED <<store, doc, work, issued, overlapped>>,
           DOMAIN copy' = Watchers, DOMAIN subs' = Watchers,
           \A s \in Watchers :
              \/ subs'[s] = subs[s] /\ copy'[s] = copy[s] /\ (s \in missed => s \in missed')
              \/ subs'[s] = "none"
              \/ copy'[s] = doc[Watch[s]]
    PROVE  FollowInv'
<1>1. \A j : (Exact(j)' <=> Exact(j)) /\ (Calm(j)' <=> Calm(j))
  BY DEF Calm, Exact
<1>2. \A v \in Workers, j \in Keys : BusyOn(v, j)' <=> BusyOn(v, j)
  BY DEF BusyOn, Idle
<1>3. ShapeInv' /\ BusyInv' /\ ChangeInv'
  BY <1>1, <1>2 DEF FollowInv, ShapeInv, BusyInv, ChangeInv
<1>4. IssuedInv'
  BY <1>1 DEF FollowInv, IssuedInv, Checked
<1>5. CopyInv'
  <2> SUFFICES ASSUME NEW s \in Watchers, Follower(s)'
               PROVE  /\ (\A v \in Workers : ~BusyOn(v, Watch[s])') => copy'[s] = doc'[Watch[s]]
                      /\ \A v \in Workers : BusyOn(v, Watch[s])' =>
                             Fits(s, copy'[s], work'[v], doc'[Watch[s]])
    BY DEF CopyInv, Fits
  <2>1. PICK k \in Keys : k = Watch[s]
    BY StoreAssumption
  <2>2. Calm(k) /\ subs'[s] # "none"
    BY <1>1, <2>1 DEF Follower
  <2>3. \A v \in Workers : BusyOn(v, Watch[s])' <=> BusyOn(v, k)
    BY <2>1 DEF BusyOn, Idle
  <2>4. CASE subs'[s] = subs[s] /\ copy'[s] = copy[s] /\ (s \in missed => s \in missed')
    <3>1. Follower(s)
      BY <2>1, <2>2, <2>4 DEF Follower
    <3>2. /\ (\A v \in Workers : ~BusyOn(v, k)) => copy[s] = doc[k]
          /\ \A v \in Workers : BusyOn(v, k) => Fits(s, copy[s], work[v], doc[k])
      BY <2>1, <3>1 DEF FollowInv, CopyInv
    <3> QED BY <2>1, <2>3, <2>4, <3>2
  <2>5. CASE copy'[s] = doc[k]
    <3>1. ASSUME NEW v \in Workers, BusyOn(v, k) PROVE Fits(s, doc[k], work[v], doc[k])
      <4>1. Telling(work[v]) => Told(doc[k], work[v].change) = doc[k]
        BY <2>2, <3>1 DEF FollowInv, ChangeInv
      <4> QED BY <4>1 DEF Fits, Telling
    <3> QED BY <2>1, <2>3, <2>5, <3>1
  <2> QED BY <2>1, <2>2, <2>4, <2>5
<1> QED BY <1>3, <1>4, <1>5 DEF FollowInv

LEMMA ConsumerFollows ==
    ASSUME StoreInv, FollowInv, NEW s \in Watchers, Subscribe(s) \/ Unsubscribe(s)
    PROVE  FollowInv'
<1>1. UNCHANGED <<store, doc, work, issued, overlapped>>
  BY DEF Subscribe, Unsubscribe
<1>2. DOMAIN copy' = Watchers /\ DOMAIN subs' = Watchers
  BY DEF Subscribe, Unsubscribe, FollowInv, ShapeInv
<1>3. \A m \in Watchers : m # s => subs'[m] = subs[m] /\ copy'[m] = copy[m]
  BY DEF Subscribe, Unsubscribe, FollowInv, ShapeInv
<1>4. \A m \in Watchers : m # s => (m \in missed => m \in missed')
  BY DEF Subscribe, Unsubscribe
<1>5. subs'[s] = "none" \/ copy'[s] = doc[Watch[s]]
  BY DEF Subscribe, Unsubscribe, FollowInv, ShapeInv
<1> QED BY <1>1, <1>2, <1>3, <1>4, <1>5, SubscriptionFollows

(* After a restart nobody is busy, and who had subscribed has missed what   *)
(* was under way, or is forgotten, or nothing has changed.                  *)
LEMMA RestartFollows ==
    ASSUME StoreInv, FollowInv, Restart
    PROVE  FollowInv'
<1>1. /\ work' = [w \in Workers |-> Free] /\ UNCHANGED <<store, overlapped>>
      /\ \A v \in Workers : work'[v] = Free
  BY DEF Restart
<1>2. \A v \in Workers : ~Checked(v)' /\ ~Telling(work'[v]) /\ \A k : ~BusyOn(v, k)'
  BY <1>1, FreeIsIdle DEF Checked, Telling, BusyOn, Idle
<1>3. DOMAIN copy' = Watchers /\ DOMAIN subs' = Watchers
  BY DEF Restart, FollowInv, ShapeInv
<1>4. ShapeInv' /\ BusyInv' /\ ChangeInv'
  BY <1>1, <1>2, <1>3 DEF ShapeInv, BusyInv, ChangeInv
<1>5. IssuedInv'
  <2> SUFFICES ASSUME store \in FindStores PROVE IssuedInv'
    BY <1>1 DEF IssuedInv
  <2>1. \A k \in Keys : doc'[k] = Absent
    BY FindStoresKept DEF Restart, Seeded
  <2> QED BY <1>2, <2>1 DEF IssuedInv
<1>6. CopyInv'
  <2> SUFFICES ASSUME NEW s \in Watchers, Follower(s)' PROVE copy'[s] = doc'[Watch[s]]
    BY <1>2 DEF CopyInv
  <2>1. PICK k \in Keys : k = Watch[s]
    BY StoreAssumption
  <2>2. CASE store.durable \/ store.scope = "push"
    <3>1. subs' = subs /\ copy' = copy
      BY <2>2 DEF Restart
    <3>2. work' = work /\ doc' = doc /\ missed' = missed
      BY <2>2, <3>1 DEF Restart, Follower
    <3>3. Follower(s)
      BY <1>1, <3>1, <3>2 DEF Follower, Calm, Exact
    <3>4. \A v \in Workers : ~BusyOn(v, k)
      BY <1>1, <3>2 DEF BusyOn, Idle
    <3> QED BY <2>1, <3>1, <3>2, <3>3, <3>4 DEF FollowInv, CopyInv
  <2>3. CASE ~(store.durable \/ store.scope = "push")
    BY <2>3 DEF Restart, Follower
  <2> QED BY <2>2, <2>3
<1> QED BY <1>4, <1>5, <1>6 DEF FollowInv

LEMMA FollowStarts ==
    ASSUME Init
    PROVE  FollowInv
<1>1. \A v \in Workers : work[v] = Free
  BY DEF Init
<1>2. \A v \in Workers : ~Checked(v) /\ ~Telling(work[v]) /\ \A k : ~BusyOn(v, k)
  BY <1>1, FreeIsIdle DEF Checked, Telling, BusyOn, Idle
<1>3. ShapeInv /\ BusyInv /\ ChangeInv
  BY <1>1, <1>2 DEF Init, ShapeInv, BusyInv, ChangeInv
<1>4. IssuedInv
  BY <1>2, FindStoresKept DEF Init, IssuedInv
<1>5. CopyInv
  <2> SUFFICES ASSUME NEW s \in Watchers, Follower(s) PROVE copy[s] = doc[Watch[s]]
    BY <1>2 DEF CopyInv
  <2>1. Watch[s] \in Keys
    BY StoreAssumption
  <2>2. store.scope = "push"
    BY DEF Init, Follower
  <2>3. ~store.durable /\ ~store.seeded
    BY <2>2, StoreAssumption DEF Init
  <2>4. \A k \in Keys : doc[k] = Absent
    BY <2>3 DEF Init, Seeded
  <2> QED BY <2>1, <2>4 DEF Init
<1> QED BY <1>3, <1>4, <1>5 DEF FollowInv

LEMMA FollowSteps ==
    ASSUME StoreInv, FollowInv, [Next]_vars
    PROVE  FollowInv'
<1>1. CASE UNCHANGED vars
  <2>1. /\ UNCHANGED <<store, doc, work, issued, overlapped>>
        /\ subs' = subs /\ copy' = copy /\ missed' = missed
    BY <1>1 DEF vars
  <2>2. DOMAIN copy' = Watchers /\ DOMAIN subs' = Watchers
    BY <2>1 DEF FollowInv, ShapeInv
  <2> QED BY <2>1, <2>2, SubscriptionFollows
<1>2. CASE Request
  BY <1>1, <1>2, RequestFollows
<1>3. CASE Background
  BY <1>1, <1>3, WriteFollows, CreateFollows, ListFollows, DeliverFollows, ConsumerFollows,
     RestartFollows DEF Background, Reject
<1> QED BY <1>1, <1>2, <1>3 DEF Next

(* WatcherFollows: once the handlers working on a document are done, its    *)
(* subscriber has it, whatever route wrote it, whichever subscribers come   *)
(* and go between write, list and delivery, and whatever restarts, unless   *)
(* a delivery failed, a route kept silent, or two requests for the document *)
(* overlapped.                                                              *)
THEOREM WatchersFollow == Spec => []WatcherFollows
<1>1. FollowInv => WatcherFollows
  <2> SUFFICES ASSUME FollowInv, NEW s \in Watchers, NEW k, k = Watch[s],
                      subs[s] # "none", s \in WatchersOf(k) \ missed, Exact(k),
                      \A p \in {"write", "notify"} : <<k, p>> \notin overlapped,
                      \A w \in Workers : ~BusyOn(w, k)
               PROVE  copy[s] = doc[k]
    BY DEF WatcherFollows
  <2>1. Follower(s)
    BY DEF Follower, WatchersOf, Calm
  <2> QED BY <2>1 DEF FollowInv, CopyInv
<1> QED BY <1>1, Starts, Steps, FollowStarts, FollowSteps, PTL DEF Spec
=============================================================================
