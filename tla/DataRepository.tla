--------------------------- MODULE DataRepository ---------------------------
(***************************************************************************)
(* UDR, Nudr_DataRepository (nfs/udr): one PostgreSQL table per resource.  *)
(* Every store method is one transaction under the store's mutex, so but   *)
(* for three routes (SmfRegistrationRemoval, the PUT of ExposureDataSubs,  *)
(* and whatever a consumer does with two requests) a handler is one        *)
(* critical section followed by onDataChange notifications.                *)
(***************************************************************************)
EXTENDS ResourceStore

\* seed() runs at every start and overwrites: ON CONFLICT DO UPDATE.
SubscriberSeeds ==
    {"provisioned_data", "coverage_restriction_data", "lcs_privacy_data",
     "lcs_subscription_data", "lcs_mo_data", "pp_profile_data", "shared_data",
     "ee_profile_data", "sponsor_connectivity_data", "mbs_session_pol_data",
     "group_ee_profile_data", "plmn_ue_policy_set"}
ServiceSeeds ==
    {"routing_ids", "nf_group_ids", "nidd_authorization_data",
     "five_g_vn_group_pp_profile_data", "mbs_group_pp_profile_data",
     "aiot_device_profile_data", "aiot_af_authorization_data", "odb_data", "v2x_data",
     "prose_data", "uc_data", "time_sync_data", "location_data", "a2x_data",
     "rangingsl_privacy_data", "ranging_slpos_data", "mbs_data", "group_identifiers"}
SeededAtStart == SubscriberSeeds \cup ServiceSeeds

Row(name, onAbsent, scope, ids) ==
    Store(name, TRUE, onAbsent, scope, name \in SeededAtStart, ids)
Table(name, scope) == Row(name, "refuse", scope, "client")
UpsertTable(name, scope) == Row(name, "create", scope, "client")
NumberedTable(name, scope) == Row(name, "refuse", scope, "server")
SeededTable(name) == Row(name, "refuse", "none", "client")
----------------------------------------------------------------------------
(* The tables: which subscribers a write of them reaches, who names a row *)
AmfContextStore == Table("amf_contexts", "ue")
AmfNon3GppContextStore == Table("amf_non3gpp_contexts", "ue")
SmfRegistrationStore == Table("smf_registrations", "ue")
ProvisionedDataStore == SeededTable("provisioned_data")
SmPolicyDataStore == UpsertTable("sm_policy_data", "ue")
AuthenticationSubscriptionDataStore == UpsertTable("auth_subscription_data", "ue")
AuthenticationStatusStore == Table("auth_status", "ue")
IndividualAuthenticationStatusStore == Table("individual_auth_status", "ue")
AmPolicyDataStore == UpsertTable("am_policy_data", "ue")
SmsfContext3gppStore == Table("smsf_3gpp_context", "ue")
SmsfNon3GppContextStore == Table("smsf_non3gpp_context", "ue")
IpSmGwContextStore == Table("ip_sm_gw_context", "ue")
MessageWaitingDataStore == Table("mwd", "ue")
RoamingInformationStore == Table("roaming_information", "ue")
PeiInfoStore == Table("pei_info", "ue")
CoverageRestrictionDataStore == SeededTable("coverage_restriction_data")
LcsPrivacyDataStore == SeededTable("lcs_privacy_data")
LcsSubscriptionDataStore == SeededTable("lcs_subscription_data")
LcsMoDataStore == SeededTable("lcs_mo_data")
PpDataStore == UpsertTable("pp_data", "ue")
PpProfileDataStore == SeededTable("pp_profile_data")
PpDataEntryStore == Table("pp_data_entry", "ue")
SharedDataStore == SeededTable("shared_data")
OperatorSpecificDataStore == UpsertTable("operator_specific_data", "ue")
EeProfileDataStore == SeededTable("ee_profile_data")
UePolicySetStore == UpsertTable("ue_policy_set", "ue")
PolicyOperatorSpecificDataStore == UpsertTable("policy_operator_specific_data", "ue")
SponsorConnectivityDataStore == SeededTable("sponsor_connectivity_data")
BdtDataStore == Table("bdt_data", "ueless")
PlmnUePolicySetStore == SeededTable("plmn_ue_policy_set")
SlicePolicyDataStore == UpsertTable("slice_control_data", "ueless")
GroupPolicyDataStore == UpsertTable("group_control_data", "ueless")
RoutingIdStore == SeededTable("routing_ids")
NiddAuthorizationInfoStore == Table("nidd_authorization_info", "ue")
IdentityDataStore == UpsertTable("identity_data", "ue")
OdbDataStore == SeededTable("odb_data")
V2xDataStore == SeededTable("v2x_data")
ProseDataStore == SeededTable("prose_data")
UcDataStore == SeededTable("uc_data")
TimeSyncDataStore == SeededTable("time_sync_data")
LocationDataStore == SeededTable("location_data")
A2xDataStore == SeededTable("a2x_data")
RangingSlPrivacyDataStore == SeededTable("rangingsl_privacy_data")
RangingSlPosDataStore == SeededTable("ranging_slpos_data")
MbsDataStore == SeededTable("mbs_data")
ServiceSpecificAuthorizationInfoStore == Table("service_specific_authorization_info", "ue")
GroupIdentifiersStore == SeededTable("group_identifiers")
NssaiAckDataStore == Table("nssai_ack_data", "ue")
CagAckDataStore == Table("cag_ack_data", "ue")
SorDataStore == Table("sor_data", "ue")
UpuDataStore == Table("upu_data", "ue")
FiveGVnGroupStore == Table("five_g_vn_groups", "ueless")
MbsGroupMembershipStore == Table("mbs_group_membership", "ueless")
GroupEeProfileDataStore == SeededTable("group_ee_profile_data")
EeSubscriptionsStore == NumberedTable("ee_subscriptions", "ue")
SubsToNotifyStore == NumberedTable("subs_to_notify", "none")
SdmSubscriptionsStore == NumberedTable("sdm_subscriptions", "ue")
EeAmfSubscriptionInfoStore == Table("ee_amf_subscription_info", "ue")
EeSmfSubscriptionInfoStore == Table("ee_smf_subscription_info", "ue")
EeHssSubscriptionInfoStore == Table("ee_hss_subscription_info", "ue")
SdmHssSubscriptionInfoStore == Table("sdm_hss_subscription_info", "ue")
GroupEeSubscriptionsStore == NumberedTable("group_ee_subscriptions", "ueless")
GroupAmfSubscriptionInfoStore == Table("group_amf_subscription_info", "ueless")
GroupSmfSubscriptionInfoStore == Table("group_smf_subscription_info", "ueless")
GroupHssSubscriptionInfoStore == Table("group_hss_subscription_info", "ueless")
PdtqDataStore == Table("pdtq_data", "ueless")
NfGroupIdStore == SeededTable("nf_group_ids")
NiddAuthorizationDataStore == SeededTable("nidd_authorization_data")
FiveGVnGroupPpProfileDataStore == SeededTable("five_g_vn_group_pp_profile_data")
MbsGroupPpProfileDataStore == SeededTable("mbs_group_pp_profile_data")
NfGroupIdSubscriptionStore == NumberedTable("nf_group_id_subscriptions", "none")
MbsSessionPolicyDataStore == SeededTable("mbs_session_pol_data")
UsageMonDataStore == Table("usage_mon_data", "none")
PolicyDataSubsToNotifyStore == NumberedTable("policy_data_subs_to_notify", "none")
TrafficInfluenceDataStore == Table("traffic_influence_data", "none")
TrafficInfluenceSubStore == NumberedTable("traffic_influence_subs", "none")
PfdDataStore == Table("pfd_data", "none")
BdtPolicyDataStore == Table("bdt_policy_data", "none")
IptvConfigDataStore == Table("iptv_config_data", "none")
ServiceParamDataStore == Table("service_param_data", "none")
ApplicationDataSubsStore == NumberedTable("application_data_subs", "none")
ExposureAmDataStore == Table("exposure_am_data", "none")
ExposureDataSubsStore == NumberedTable("exposure_data_subs", "none")
ExposureSessionManagementDataStore == Table("exposure_sm_data", "none")
AiotDeviceProfileDataStore == SeededTable("aiot_device_profile_data")
AiotAfAuthorizationDataStore == SeededTable("aiot_af_authorization_data")
DataRestorationSubscriptionStore == NumberedTable("data_restoration_subscriptions", "none")

UdrStores == {AmfContextStore, AmfNon3GppContextStore, SmfRegistrationStore,
              ProvisionedDataStore, SmPolicyDataStore,
              AuthenticationSubscriptionDataStore, AuthenticationStatusStore,
              IndividualAuthenticationStatusStore, AmPolicyDataStore,
              SmsfContext3gppStore, SmsfNon3GppContextStore, IpSmGwContextStore,
              MessageWaitingDataStore, RoamingInformationStore, PeiInfoStore,
              CoverageRestrictionDataStore, LcsPrivacyDataStore,
              LcsSubscriptionDataStore, LcsMoDataStore, PpDataStore,
              PpProfileDataStore, PpDataEntryStore, SharedDataStore,
              OperatorSpecificDataStore, EeProfileDataStore, UePolicySetStore,
              PolicyOperatorSpecificDataStore, SponsorConnectivityDataStore,
              BdtDataStore, PlmnUePolicySetStore, SlicePolicyDataStore,
              GroupPolicyDataStore, RoutingIdStore, NiddAuthorizationInfoStore,
              IdentityDataStore, OdbDataStore, V2xDataStore, ProseDataStore,
              UcDataStore, TimeSyncDataStore, LocationDataStore, A2xDataStore,
              RangingSlPrivacyDataStore, RangingSlPosDataStore, MbsDataStore,
              ServiceSpecificAuthorizationInfoStore, GroupIdentifiersStore,
              NssaiAckDataStore, CagAckDataStore, SorDataStore, UpuDataStore,
              FiveGVnGroupStore, MbsGroupMembershipStore, GroupEeProfileDataStore,
              EeSubscriptionsStore, SubsToNotifyStore, SdmSubscriptionsStore,
              EeAmfSubscriptionInfoStore, EeSmfSubscriptionInfoStore,
              EeHssSubscriptionInfoStore, SdmHssSubscriptionInfoStore,
              GroupEeSubscriptionsStore, GroupAmfSubscriptionInfoStore,
              GroupSmfSubscriptionInfoStore, GroupHssSubscriptionInfoStore,
              PdtqDataStore, NfGroupIdStore, NiddAuthorizationDataStore,
              FiveGVnGroupPpProfileDataStore, MbsGroupPpProfileDataStore,
              NfGroupIdSubscriptionStore, MbsSessionPolicyDataStore, UsageMonDataStore,
              PolicyDataSubsToNotifyStore, TrafficInfluenceDataStore,
              TrafficInfluenceSubStore, PfdDataStore, BdtPolicyDataStore,
              IptvConfigDataStore, ServiceParamDataStore, ApplicationDataSubsStore,
              ExposureAmDataStore, ExposureDataSubsStore,
              ExposureSessionManagementDataStore, AiotDeviceProfileDataStore,
              AiotAfAuthorizationDataStore, DataRestorationSubscriptionStore}
----------------------------------------------------------------------------
(* The routes of each resource, with the shape of every handler *)

\* /subscription-data/{ueId}/context-data, provisioned-data and authentication-data
AmfContexts(w, k) ==
    /\ store = AmfContextStore
    /\ Get(w, k) \/ Put(w, k, Notify) \/ ApplyPatch(w, k, Notify)
AmfNon3gppContexts(w, k) ==
    /\ store = AmfNon3GppContextStore
    /\ Get(w, k) \/ Put(w, k, Notify)
SmfRegistrations(w, k) ==
    /\ store = SmfRegistrationStore
    /\ Get(w, k) \/ Put(w, k, Notify) \/ ApplyPatch(w, k, Notify)
SmfRegistrationRemoval(w, k) ==
    /\ store = SmfRegistrationStore
    /\ CheckThenRemove(w, k, Notify)
ProvisionedData(w, k) == store = ProvisionedDataStore /\ Get(w, k)
ProvisionedDataSets(w, k) ==
    /\ store \in {ProvisionedDataStore, LcsPrivacyDataStore, LcsMoDataStore,
                  LcsSubscriptionDataStore, V2xDataStore, ProseDataStore, OdbDataStore,
                  EeProfileDataStore, PpProfileDataStore, UcDataStore, MbsDataStore,
                  PpDataStore, A2xDataStore, RangingSlPrivacyDataStore}
    /\ Get(w, k)
SmPolicyData(w, k) == store = SmPolicyDataStore /\ (Get(w, k) \/ MergePatch(w, k, Notify))
UsageMonData(w, k) ==
    /\ store = UsageMonDataStore
    /\ Get(w, k) \/ Overwrite(w, k, Silent, Created) \/ Remove(w, k, Silent)
PolicyDataForUe(w, k) ==
    /\ store \in {UePolicySetStore, SmPolicyDataStore, AmPolicyDataStore,
                  UsageMonDataStore, PolicyOperatorSpecificDataStore}
    /\ Get(w, k)
AuthSubscriptionData(w, k) ==
    /\ store = AuthenticationSubscriptionDataStore
    /\ Get(w, k) \/ ApplyPatch(w, k, Notify)
AuthStatus(w, k) ==
    /\ store = AuthenticationStatusStore
    /\ Overwrite(w, k, Notify, Unsaid) \/ Get(w, k) \/ Remove(w, k, Notify)
IndividualAuthStatus(w, k) ==
    /\ store = IndividualAuthenticationStatusStore
    /\ Overwrite(w, k, Notify, Unsaid) \/ Get(w, k) \/ Remove(w, k, Notify)
AmPolicyData(w, k) == store = AmPolicyDataStore /\ (Get(w, k) \/ MergePatch(w, k, Notify))
Smsf3gppContext(w, k) ==
    /\ store = SmsfContext3gppStore
    /\ Overwrite(w, k, Notify, Unsaid) \/ Get(w, k) \/ Remove(w, k, Notify)
SmsfNon3gppContext(w, k) ==
    /\ store = SmsfNon3GppContextStore
    /\ Overwrite(w, k, Notify, Unsaid) \/ Get(w, k) \/ Remove(w, k, Notify)
\* Mutant: apply_patch's read and write in two transactions.
IpSmGwContextUnlockedPatch(w, k) ==
    /\ store = IpSmGwContextStore
    /\ \/ Overwrite(w, k, Notify, Unsaid) \/ Get(w, k) \/ ReadThenPut(w, k, Notify)
       \/ Remove(w, k, Notify)
IpSmGwContext(w, k) ==
    /\ store = IpSmGwContextStore
    /\ \/ Overwrite(w, k, Notify, Unsaid) \/ Get(w, k) \/ ApplyPatch(w, k, Notify)
       \/ Remove(w, k, Notify)
Mwd(w, k) ==
    /\ store = MessageWaitingDataStore
    /\ Put(w, k, Notify) \/ Get(w, k) \/ ApplyPatch(w, k, Notify) \/ Remove(w, k, Notify)
RoamingInformation(w, k) ==
    /\ store = RoamingInformationStore
    /\ Put(w, k, Notify) \/ Get(w, k)
PeiInfo(w, k) == store = PeiInfoStore /\ (Put(w, k, Notify) \/ Get(w, k))
CoverageRestrictionData(w, k) == store = CoverageRestrictionDataStore /\ Get(w, k)
LcsPrivacyData(w, k) == store = LcsPrivacyDataStore /\ Get(w, k)
LcsSubscriptionData(w, k) == store = LcsSubscriptionDataStore /\ Get(w, k)
LcsMoData(w, k) == store = LcsMoDataStore /\ Get(w, k)
PpData(w, k) == store = PpDataStore /\ (Get(w, k) \/ ApplyPatch(w, k, Notify))
PpProfileData(w, k) == store = PpProfileDataStore /\ Get(w, k)
PpDataEntry(w, k) ==
    /\ store = PpDataEntryStore
    /\ Get(w, k) \/ Put(w, k, Notify) \/ Remove(w, k, Notify)
SharedData(w, k) == store = SharedDataStore /\ Get(w, k)
OperatorSpecificData(w, k) ==
    /\ store = OperatorSpecificDataStore
    /\ Get(w, k) \/ ApplyPatch(w, k, Notify) \/ Put(w, k, Notify) \/ Remove(w, k, Notify)
EeProfileData(w, k) == store = EeProfileDataStore /\ Get(w, k)
UePolicySet(w, k) ==
    /\ store = UePolicySetStore
    /\ Get(w, k) \/ Put(w, k, Notify) \/ MergePatch(w, k, Notify)
PolicyOperatorSpecificData(w, k) ==
    /\ store = PolicyOperatorSpecificDataStore
    /\ Get(w, k) \/ ApplyPatch(w, k, Notify) \/ Put(w, k, Notify) \/ Remove(w, k, Notify)

\* /policy-data of groups, slices and sponsors; group identifiers
SponsorConnectivityData(w, k) == store = SponsorConnectivityDataStore /\ Get(w, k)
MbsSessionPolData(w, k) == store = MbsSessionPolicyDataStore /\ Get(w, k)
BdtData(w, k) ==
    /\ store = BdtDataStore
    /\ \/ Get(w, k) \/ Overwrite(w, k, Notify, Created) \/ MergePatch(w, k, Notify)
       \/ Remove(w, k, Notify)
PlmnUePolicySet(w, k) == store = PlmnUePolicySetStore /\ Get(w, k)
SliceControlData(w, k) ==
    /\ store = SlicePolicyDataStore
    /\ Get(w, k) \/ MergePatch(w, k, Notify)
GroupControlData(w, k) ==
    /\ store = GroupPolicyDataStore
    /\ Get(w, k) \/ MergePatch(w, k, Notify)
RoutingIds(w, k) == store = RoutingIdStore /\ Get(w, k)
NfGroupIds(w, k) == store = NfGroupIdStore /\ Get(w, k)
NfGroupIdSubscriptions(w, k) ==
    /\ store = NfGroupIdSubscriptionStore
    /\ Create(w, k, Silent) \/ Get(w, k) \/ ApplyPatch(w, k, Silent) \/ Remove(w, k, Silent)
NiddAuthorizationData(w, k) == store = NiddAuthorizationDataStore /\ Get(w, k)

\* /subscription-data/{ueId}: authorizations, service data, acknowledgements
NiddAuthorizationInfo(w, k) ==
    /\ store = NiddAuthorizationInfoStore
    /\ Put(w, k, Notify) \/ Get(w, k) \/ ApplyPatch(w, k, Notify) \/ Remove(w, k, Notify)
IdentityData(w, k) == store = IdentityDataStore /\ (Get(w, k) \/ ApplyPatch(w, k, Notify))
OdbData(w, k) == store = OdbDataStore /\ Get(w, k)
V2xData(w, k) == store = V2xDataStore /\ Get(w, k)
ProseData(w, k) == store = ProseDataStore /\ Get(w, k)
UcData(w, k) == store = UcDataStore /\ Get(w, k)
TimeSyncData(w, k) == store = TimeSyncDataStore /\ Get(w, k)
LocationData(w, k) == store = LocationDataStore /\ Get(w, k)
A2xData(w, k) == store = A2xDataStore /\ Get(w, k)
RangingslPrivacyData(w, k) == store = RangingSlPrivacyDataStore /\ Get(w, k)
RangingSlposData(w, k) == store = RangingSlPosDataStore /\ Get(w, k)
MbsData(w, k) == store = MbsDataStore /\ Get(w, k)
ServiceSpecificAuthorizationInfo(w, k) ==
    /\ store = ServiceSpecificAuthorizationInfoStore
    /\ Put(w, k, Notify) \/ Get(w, k) \/ ApplyPatch(w, k, Notify) \/ Remove(w, k, Notify)
GroupIdentifiers(w, k) == store = GroupIdentifiersStore /\ Get(w, k)
NssaiAckData(w, k) ==
    store = NssaiAckDataStore /\ (Overwrite(w, k, Notify, Unsaid) \/ Get(w, k))
CagAckData(w, k) ==
    store = CagAckDataStore /\ (Overwrite(w, k, Notify, Unsaid) \/ Get(w, k))
SorData(w, k) ==
    /\ store = SorDataStore
    /\ Overwrite(w, k, Notify, Unsaid) \/ Get(w, k) \/ ApplyPatch(w, k, Notify)
UpuData(w, k) ==
    store = UpuDataStore /\ (Overwrite(w, k, Notify, Unsaid) \/ Get(w, k))

\* Aggregates: one GET over several stores
UeUpdateConfirmationData(w, k) ==
    /\ store \in {SorDataStore, UpuDataStore, NssaiAckDataStore, CagAckDataStore}
    /\ Get(w, k)
ContextDataSets(w, k) ==
    /\ store \in {AmfContextStore, AmfNon3GppContextStore, SdmSubscriptionsStore,
                  EeSubscriptionsStore, SmsfContext3gppStore, SmsfNon3GppContextStore,
                  SubsToNotifyStore, SmfRegistrationStore, IpSmGwContextStore,
                  RoamingInformationStore, PeiInfoStore}
    /\ Get(w, k)
UeSubscribedData(w, k) ==
    /\ store \in {ProvisionedDataStore, LcsPrivacyDataStore, LcsMoDataStore,
                  LcsSubscriptionDataStore, V2xDataStore, ProseDataStore, OdbDataStore,
                  EeProfileDataStore, PpProfileDataStore, UcDataStore, MbsDataStore,
                  PpDataStore, A2xDataStore, RangingSlPrivacyDataStore, AmfContextStore,
                  AmfNon3GppContextStore, SdmSubscriptionsStore, EeSubscriptionsStore,
                  SmsfContext3gppStore, SmsfNon3GppContextStore, SubsToNotifyStore,
                  SmfRegistrationStore, IpSmGwContextStore, RoamingInformationStore,
                  PeiInfoStore, SorDataStore, UpuDataStore, NssaiAckDataStore,
                  CagAckDataStore}
    /\ Get(w, k)

\* Event exposure and data management subscriptions
EeSubscriptions(w, k) ==
    /\ store = EeSubscriptionsStore
    /\ Get(w, k) \/ Create(w, k, Silent) \/ Update(w, k, Notify) \/ ApplyPatch(w, k, Notify)
EeSubscriptionsRemoval(w, k) == store = EeSubscriptionsStore /\ Remove(w, k, Notify)
SdmSubscriptions(w, k) ==
    /\ store = SdmSubscriptionsStore
    /\ Get(w, k) \/ Create(w, k, Silent) \/ Update(w, k, Notify) \/ ApplyPatch(w, k, Notify)
SdmSubscriptionsRemoval(w, k) == store = SdmSubscriptionsStore /\ Remove(w, k, Notify)
EeAmfSubscriptionInfo(w, k) ==
    /\ store = EeAmfSubscriptionInfoStore
    /\ Get(w, k) \/ Put(w, k, Notify) \/ ApplyPatch(w, k, Notify) \/ Remove(w, k, Notify)
EeSmfSubscriptionInfo(w, k) ==
    /\ store = EeSmfSubscriptionInfoStore
    /\ Get(w, k) \/ Put(w, k, Notify) \/ ApplyPatch(w, k, Notify) \/ Remove(w, k, Notify)
EeHssSubscriptionInfo(w, k) ==
    /\ store = EeHssSubscriptionInfoStore
    /\ Get(w, k) \/ Put(w, k, Notify) \/ ApplyPatch(w, k, Notify) \/ Remove(w, k, Notify)
SdmHssSubscriptionInfo(w, k) ==
    /\ store = SdmHssSubscriptionInfoStore
    /\ \/ Get(w, k) \/ Overwrite(w, k, Notify, Unsaid) \/ ApplyPatch(w, k, Notify)
       \/ Remove(w, k, Notify)

\* The same for groups
GroupEeSubscriptions(w, k) ==
    /\ store = GroupEeSubscriptionsStore
    /\ Get(w, k) \/ Create(w, k, Silent) \/ Update(w, k, Notify) \/ ApplyPatch(w, k, Notify)
GroupEeSubscriptionsRemoval(w, k) ==
    /\ store = GroupEeSubscriptionsStore
    /\ Remove(w, k, Notify)
GroupAmfSubscriptionInfo(w, k) ==
    /\ store = GroupAmfSubscriptionInfoStore
    /\ Get(w, k) \/ Put(w, k, Notify) \/ ApplyPatch(w, k, Notify) \/ Remove(w, k, Notify)
GroupSmfSubscriptionInfo(w, k) ==
    /\ store = GroupSmfSubscriptionInfoStore
    /\ Get(w, k) \/ Put(w, k, Notify) \/ ApplyPatch(w, k, Notify) \/ Remove(w, k, Notify)
GroupHssSubscriptionInfo(w, k) ==
    /\ store = GroupHssSubscriptionInfoStore
    /\ Get(w, k) \/ Put(w, k, Notify) \/ ApplyPatch(w, k, Notify) \/ Remove(w, k, Notify)

\* /policy-data and /subs-to-notify collections
PdtqData(w, k) ==
    /\ store = PdtqDataStore
    /\ \/ Get(w, k) \/ Overwrite(w, k, Notify, Created) \/ MergePatch(w, k, Notify)
       \/ Remove(w, k, Notify)
SubsToNotify(w, k) ==
    /\ store = SubsToNotifyStore
    /\ Get(w, k) \/ Create(w, k, Silent) \/ ApplyPatch(w, k, Silent) \/ Remove(w, k, Silent)
PolicyDataSubsToNotify(w, k) ==
    /\ store = PolicyDataSubsToNotifyStore
    /\ Get(w, k) \/ Create(w, k, Silent) \/ Update(w, k, Silent) \/ Remove(w, k, Silent)

\* 5G VN and MBS groups
FiveGVnGroups(w, k) == store = FiveGVnGroupStore /\ Get(w, k)
FiveGVnGroupPpProfileData(w, k) == store = FiveGVnGroupPpProfileDataStore /\ Get(w, k)
FiveGVnGroupsIndividual(w, k) ==
    /\ store = FiveGVnGroupStore
    /\ \/ Get(w, k) \/ Overwrite(w, k, Notify, Created) \/ ApplyPatch(w, k, Notify)
       \/ Remove(w, k, Notify)
MbsGroupMembership(w, k) == store = MbsGroupMembershipStore /\ Get(w, k)
MbsGroupPpProfileData(w, k) == store = MbsGroupPpProfileDataStore /\ Get(w, k)
MbsGroupMembershipIndividual(w, k) ==
    /\ store = MbsGroupMembershipStore
    /\ \/ Get(w, k) \/ Overwrite(w, k, Notify, Created) \/ ApplyPatch(w, k, Notify)
       \/ Remove(w, k, Notify)
GroupEeProfileData(w, k) == store = GroupEeProfileDataStore /\ Get(w, k)

\* /application-data, written without a notification
TrafficInfluenceData(w, k) ==
    /\ store = TrafficInfluenceDataStore
    /\ Get(w, k) \/ Put(w, k, Silent) \/ MergePatch(w, k, Silent) \/ Remove(w, k, Silent)
TrafficInfluenceSubs(w, k) ==
    /\ store = TrafficInfluenceSubStore
    /\ \/ Get(w, k) \/ Create(w, k, Silent) \/ Overwrite(w, k, Silent, Replaced)
       \/ Remove(w, k, Silent)
PfdData(w, k) ==
    /\ store = PfdDataStore
    /\ Get(w, k) \/ Put(w, k, Silent) \/ Remove(w, k, Silent)
BdtPolicyData(w, k) ==
    /\ store = BdtPolicyDataStore
    /\ Get(w, k) \/ Put(w, k, Silent) \/ Remove(w, k, Silent) \/ MergePatch(w, k, Silent)
IptvConfigData(w, k) ==
    /\ store = IptvConfigDataStore
    /\ Get(w, k) \/ Put(w, k, Silent) \/ Remove(w, k, Silent) \/ MergePatch(w, k, Silent)
ServiceParamData(w, k) ==
    /\ store = ServiceParamDataStore
    /\ Get(w, k) \/ Put(w, k, Silent) \/ Remove(w, k, Silent) \/ MergePatch(w, k, Silent)
ApplicationDataSubs(w, k) ==
    /\ store = ApplicationDataSubsStore
    /\ \/ Get(w, k) \/ Create(w, k, Silent) \/ Overwrite(w, k, Silent, Replaced)
       \/ Remove(w, k, Silent)

\* /exposure-data and /data-restoration, written without a notification
ExposureAmData(w, k) ==
    /\ store = ExposureAmDataStore
    /\ Put(w, k, Silent) \/ Get(w, k) \/ MergePatch(w, k, Silent) \/ Remove(w, k, Silent)
ExposureSmData(w, k) ==
    /\ store = ExposureSessionManagementDataStore
    /\ Put(w, k, Silent) \/ Get(w, k) \/ Remove(w, k, Silent)
ExposureDataSubs(w, k) ==
    /\ store = ExposureDataSubsStore
    /\ Create(w, k, Silent) \/ CheckThenUpsert(w, k, Silent) \/ Remove(w, k, Silent)
AiotDeviceProfileData(w, k) ==
    /\ store = AiotDeviceProfileDataStore
    /\ Get(w, k) \/ ApplyPatch(w, k, Silent)
AiotDeviceProfileDataCollection(w, k) == store = AiotDeviceProfileDataStore /\ Reject(w)
AiotAfAuthorizationData(w, k) == store = AiotAfAuthorizationDataStore /\ Get(w, k)
DataRestorationSubscriptions(w, k) ==
    /\ store = DataRestorationSubscriptionStore
    /\ Create(w, k, Silent)

UdrRequest(w, k) ==
    /\ store \in UdrStores
    /\ \/ AmfContexts(w, k) \/ AmfNon3gppContexts(w, k) \/ SmfRegistrations(w, k)
       \/ SmfRegistrationRemoval(w, k) \/ ProvisionedData(w, k)
       \/ ProvisionedDataSets(w, k) \/ SmPolicyData(w, k) \/ UsageMonData(w, k)
       \/ PolicyDataForUe(w, k) \/ AuthSubscriptionData(w, k) \/ AuthStatus(w, k)
       \/ IndividualAuthStatus(w, k) \/ AmPolicyData(w, k) \/ Smsf3gppContext(w, k)
       \/ SmsfNon3gppContext(w, k) \/ IpSmGwContext(w, k) \/ Mwd(w, k)
       \/ RoamingInformation(w, k) \/ PeiInfo(w, k) \/ CoverageRestrictionData(w, k)
       \/ LcsPrivacyData(w, k) \/ LcsSubscriptionData(w, k) \/ LcsMoData(w, k)
       \/ PpData(w, k) \/ PpProfileData(w, k) \/ PpDataEntry(w, k) \/ SharedData(w, k)
       \/ OperatorSpecificData(w, k) \/ EeProfileData(w, k) \/ UePolicySet(w, k)
       \/ PolicyOperatorSpecificData(w, k) \/ SponsorConnectivityData(w, k)
       \/ MbsSessionPolData(w, k) \/ BdtData(w, k) \/ PlmnUePolicySet(w, k)
       \/ SliceControlData(w, k) \/ GroupControlData(w, k) \/ RoutingIds(w, k)
       \/ NfGroupIds(w, k) \/ NfGroupIdSubscriptions(w, k) \/ NiddAuthorizationData(w, k)
       \/ NiddAuthorizationInfo(w, k) \/ IdentityData(w, k) \/ OdbData(w, k)
       \/ V2xData(w, k) \/ ProseData(w, k) \/ UcData(w, k) \/ TimeSyncData(w, k)
       \/ LocationData(w, k) \/ A2xData(w, k) \/ RangingslPrivacyData(w, k)
       \/ RangingSlposData(w, k) \/ MbsData(w, k) \/ ServiceSpecificAuthorizationInfo(w, k)
       \/ GroupIdentifiers(w, k) \/ NssaiAckData(w, k) \/ CagAckData(w, k) \/ SorData(w, k)
       \/ UpuData(w, k) \/ UeUpdateConfirmationData(w, k) \/ ContextDataSets(w, k)
       \/ UeSubscribedData(w, k) \/ EeSubscriptions(w, k) \/ EeSubscriptionsRemoval(w, k)
       \/ SdmSubscriptions(w, k) \/ SdmSubscriptionsRemoval(w, k)
       \/ EeAmfSubscriptionInfo(w, k) \/ EeSmfSubscriptionInfo(w, k)
       \/ EeHssSubscriptionInfo(w, k) \/ SdmHssSubscriptionInfo(w, k)
       \/ GroupEeSubscriptions(w, k) \/ GroupEeSubscriptionsRemoval(w, k)
       \/ GroupAmfSubscriptionInfo(w, k) \/ GroupSmfSubscriptionInfo(w, k)
       \/ GroupHssSubscriptionInfo(w, k) \/ PdtqData(w, k) \/ SubsToNotify(w, k)
       \/ PolicyDataSubsToNotify(w, k) \/ FiveGVnGroups(w, k)
       \/ FiveGVnGroupPpProfileData(w, k) \/ FiveGVnGroupsIndividual(w, k)
       \/ MbsGroupMembership(w, k) \/ MbsGroupPpProfileData(w, k)
       \/ MbsGroupMembershipIndividual(w, k) \/ GroupEeProfileData(w, k)
       \/ TrafficInfluenceData(w, k) \/ TrafficInfluenceSubs(w, k) \/ PfdData(w, k)
       \/ BdtPolicyData(w, k) \/ IptvConfigData(w, k) \/ ServiceParamData(w, k)
       \/ ApplicationDataSubs(w, k) \/ ExposureAmData(w, k) \/ ExposureSmData(w, k)
       \/ ExposureDataSubs(w, k) \/ AiotDeviceProfileData(w, k)
       \/ AiotDeviceProfileDataCollection(w, k) \/ AiotAfAuthorizationData(w, k)
       \/ DataRestorationSubscriptions(w, k)
=============================================================================
