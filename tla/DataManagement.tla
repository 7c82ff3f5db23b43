--------------------------- MODULE DataManagement ---------------------------
(***************************************************************************)
(* UDM (nfs/udm): Nudm_UECM registrations, Nudm_SDM and Nudm_EE            *)
(* subscriptions and Nudm_PP in memory; subscriber data and parameter      *)
(* provisioning by requests to UDR, which run against UDR's own tables.    *)
(* Nudm_UEAU is in Authentication.                                         *)
(***************************************************************************)
EXTENDS DataRepository

AmfRegistrationStore == Memory("udm_amf_registrations", "refuse", "client")
AmfNon3GppRegistrationStore == Memory("udm_amf_non3gpp_registrations", "refuse", "client")
SmsfRegistrationStore == Memory("udm_smsf_registrations", "refuse", "client")
IpSmGwRegistrationStore == Memory("udm_ip_sm_gw_registrations", "refuse", "client")
RoamingInfoUpdateStore == Memory("udm_roaming_info_updates", "refuse", "client")
UdmSmfRegistrationStore == Memory("udm_smf_registrations", "refuse", "client")
NwdafRegistrationStore == Memory("udm_nwdaf_registrations", "refuse", "client")
SdmSubscriptionStore == Memory("udm_sdm_subscriptions", "refuse", "server")
SharedDataSubscriptionStore == Memory("udm_shared_data_subscriptions", "refuse", "server")
AuthEventStore == Memory("udm_auth_events", "refuse", "server")
EeSubscriptionStore == Memory("udm_ee_subscriptions", "refuse", "server")
UdmPpDataStore == Memory("udm_pp_data", "create", "client")

UdmStores == {AmfRegistrationStore, AmfNon3GppRegistrationStore, SmsfRegistrationStore,
              IpSmGwRegistrationStore, RoamingInfoUpdateStore, UdmSmfRegistrationStore,
              NwdafRegistrationStore, SdmSubscriptionStore, SharedDataSubscriptionStore,
              AuthEventStore, EeSubscriptionStore, UdmPpDataStore}
----------------------------------------------------------------------------
(* Nudm_UECM: is_new comes from a get() before the put() *)
Amf3GppAccessRegistration(w, k) ==
    /\ store = AmfRegistrationStore
    /\ \/ CheckThenPut(w, k, Silent) \/ Get(w, k) \/ MergePatch(w, k, Silent)
       \/ CheckThenRemove(w, k, Silent)
PeiUpdate(w, k) == store = AmfRegistrationStore /\ MergePatch(w, k, Silent)
RoamingInfoUpdate(w, k) == store = RoamingInfoUpdateStore /\ CheckThenPut(w, k, Silent)
AmfNon3GppAccessRegistration(w, k) ==
    /\ store = AmfNon3GppRegistrationStore
    /\ CheckThenPut(w, k, Silent) \/ Get(w, k) \/ MergePatch(w, k, Silent)
Smsf3GppRegistration(w, k) ==
    /\ store = SmsfRegistrationStore
    /\ \/ CheckThenPut(w, k, Silent) \/ Get(w, k) \/ Remove(w, k, Silent)
       \/ MergePatch(w, k, Silent)
SmsfNon3GppRegistration(w, k) ==
    /\ store = SmsfRegistrationStore
    /\ \/ CheckThenPut(w, k, Silent) \/ Get(w, k) \/ Remove(w, k, Silent)
       \/ MergePatch(w, k, Silent)
IpSmGwRegistration(w, k) ==
    /\ store = IpSmGwRegistrationStore
    /\ CheckThenPut(w, k, Silent) \/ Get(w, k) \/ Remove(w, k, Silent)
NwdafRegistration(w, k) ==
    /\ store = NwdafRegistrationStore
    /\ \/ CheckThenPut(w, k, Silent) \/ Get(w, k) \/ Remove(w, k, Silent)
       \/ MergePatch(w, k, Silent)
SmfRegistration(w, k) ==
    /\ store = UdmSmfRegistrationStore
    /\ \/ CheckThenPut(w, k, Silent) \/ Get(w, k) \/ MergePatch(w, k, Silent)
       \/ CheckThenRemove(w, k, Silent)

\* Answers put together from several registrations, each read on its own.
GetRegistrations(w, k) ==
    /\ store \in {AmfRegistrationStore, AmfNon3GppRegistrationStore, UdmSmfRegistrationStore,
                  SmsfRegistrationStore, IpSmGwRegistrationStore, NwdafRegistrationStore}
    /\ Get(w, k)
SendRoutingInfoSm(w, k) ==
    store \in {SmsfRegistrationStore, IpSmGwRegistrationStore} /\ Get(w, k)
AmfOfUe(w, k) == store \in {AmfRegistrationStore, AmfNon3GppRegistrationStore} /\ Get(w, k)
GetUeContexts(w, k) ==
    /\ store \in {AmfRegistrationStore, AmfNon3GppRegistrationStore, UdmSmfRegistrationStore,
                  SmsfRegistrationStore}
    /\ Get(w, k)

\* Nudm_SDM: fetched from UDR's tables at each request, nothing is cached.
GetSubscribedData(w, k) == store = ProvisionedDataStore /\ Get(w, k)
GetBulkFields(w, k) ==
    /\ store \in {LcsPrivacyDataStore, LcsMoDataStore, LcsSubscriptionDataStore, V2xDataStore,
                  ProseDataStore, MbsDataStore, UcDataStore, A2xDataStore,
                  RangingSlPrivacyDataStore}
    /\ Get(w, k)
GetServiceData(w, k) ==
    /\ store \in {CoverageRestrictionDataStore, TimeSyncDataStore, RangingSlPosDataStore}
    /\ Get(w, k)
GetNssai(w, k) == store = ProvisionedDataStore /\ Get(w, k)
Acknowledge(w, k) == store = ProvisionedDataStore /\ Get(w, k)
GetSharedData(w, k) == store \in {SharedDataStore, GroupIdentifiersStore} /\ Get(w, k)
GetIdentifiers(w, k) == store = ProvisionedDataStore /\ Get(w, k)
UdmSdmSubscriptions(w, k) ==
    /\ store = SdmSubscriptionStore
    /\ Create(w, k, Silent) \/ CheckThenRemove(w, k, Silent) \/ MergePatch(w, k, Silent)
SharedDataSubscriptions(w, k) ==
    /\ store = SharedDataSubscriptionStore
    /\ Create(w, k, Silent) \/ CheckThenRemove(w, k, Silent) \/ MergePatch(w, k, Silent)

\* The confirmations of Nudm_UEAU.
AuthEvents(w, k) == store = AuthEventStore /\ (Create(w, k, Silent) \/ Remove(w, k, Silent))

\* Nudm_EE and Nudm_PP
UdmEeSubscriptions(w, k) ==
    /\ store = EeSubscriptionStore
    /\ Create(w, k, Silent) \/ CheckThenRemove(w, k, Silent) \/ ApplyPatch(w, k, Silent)
UdmPpData(w, k) == store = UdmPpDataStore /\ (Get(w, k) \/ MergePatch(w, k, Silent))
PpDataStoreProxy(w, k) ==
    /\ store = PpDataEntryStore
    /\ Put(w, k, Notify) \/ Remove(w, k, Notify) \/ Get(w, k)
FiveGVnGroupProxy(w, k) ==
    /\ store = FiveGVnGroupStore
    /\ Overwrite(w, k, Notify, Created) \/ Remove(w, k, Notify) \/ Get(w, k)
\* PATCH: GET from UDR, merge, PUT to UDR, which creates what has gone meanwhile.
FiveGVnGroupModify(w, k) == store = FiveGVnGroupStore /\ ReadThenUpsert(w, k, Notify)
MbsGroupProxy(w, k) ==
    /\ store = MbsGroupMembershipStore
    /\ Overwrite(w, k, Notify, Created) \/ Remove(w, k, Notify) \/ Get(w, k)
MbsGroupModify(w, k) == store = MbsGroupMembershipStore /\ ReadThenUpsert(w, k, Notify)
\* Nudm_MT, NIDDAU, RSDS, SSAU and UEID keep nothing.
UdmStateless(w, k) == store = ProvisionedDataStore /\ Get(w, k)

UdmRequest(w, k) ==
    \/ Amf3GppAccessRegistration(w, k) \/ PeiUpdate(w, k) \/ RoamingInfoUpdate(w, k)
    \/ AmfNon3GppAccessRegistration(w, k) \/ Smsf3GppRegistration(w, k)
    \/ SmsfNon3GppRegistration(w, k) \/ IpSmGwRegistration(w, k) \/ NwdafRegistration(w, k)
    \/ SmfRegistration(w, k) \/ GetRegistrations(w, k) \/ SendRoutingInfoSm(w, k)
    \/ AmfOfUe(w, k) \/ GetUeContexts(w, k) \/ GetSubscribedData(w, k)
    \/ GetBulkFields(w, k) \/ GetServiceData(w, k) \/ GetNssai(w, k) \/ Acknowledge(w, k)
    \/ GetSharedData(w, k) \/ GetIdentifiers(w, k) \/ UdmSdmSubscriptions(w, k)
    \/ SharedDataSubscriptions(w, k) \/ AuthEvents(w, k) \/ UdmEeSubscriptions(w, k)
    \/ UdmPpData(w, k) \/ PpDataStoreProxy(w, k) \/ FiveGVnGroupProxy(w, k)
    \/ FiveGVnGroupModify(w, k) \/ MbsGroupProxy(w, k) \/ MbsGroupModify(w, k)
    \/ UdmStateless(w, k)
=============================================================================
