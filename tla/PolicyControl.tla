---------------------------- MODULE PolicyControl ----------------------------
(***************************************************************************)
(* PCF (nfs/pcf) but for Npcf_SMPolicyControl: associations and contexts   *)
(* in memory, named by a counter.  Every update reads a document, merges   *)
(* the request into the copy and puts the copy back; put() does nothing    *)
(* when the entry has gone, and no handler looks at what it returned.      *)
(***************************************************************************)
EXTENDS ResourceStore

AmPolicyStore == Memory("pcf_am_policies", "refuse", "server")
AppSessionStore == Memory("pcf_app_sessions", "refuse", "server")
UePolicyStore == Memory("pcf_ue_policies", "refuse", "server")
PcEventExposureStore == Memory("pcf_event_subscriptions", "refuse", "server")
AppAmContextStore == Memory("pcf_app_am_contexts", "refuse", "server")
MbsAppSessionStore == Memory("pcf_mbs_app_sessions", "refuse", "server")
MbsPolicyStore == Memory("pcf_mbs_policies", "refuse", "server")
PdtqPolicyStore == Memory("pcf_pdtq_policies", "refuse", "server")
BdtPolicyStore == Memory("pcf_bdt_policies", "refuse", "server")

PcfStores == {AmPolicyStore, AppSessionStore, UePolicyStore, PcEventExposureStore,
              AppAmContextStore, MbsAppSessionStore, MbsPolicyStore, PdtqPolicyStore,
              BdtPolicyStore}
----------------------------------------------------------------------------
AmPolicies(w, k) ==
    /\ store = AmPolicyStore
    /\ \/ Create(w, k, Silent) \/ Get(w, k) \/ Remove(w, k, Silent)
       \/ ReadThenPut(w, k, Silent)
AppSessions(w, k) ==
    /\ store = AppSessionStore
    /\ \/ Create(w, k, Silent) \/ Get(w, k) \/ ReadThenPut(w, k, Silent)
       \/ Remove(w, k, Silent)
\* PUT and DELETE of the events subscription inside the application session.
AppSessionEvents(w, k) == store = AppSessionStore /\ ReadThenPut(w, k, Silent)
PcscfRestoration(w, k) == store = AppSessionStore /\ Get(w, k)
UePolicies(w, k) ==
    /\ store = UePolicyStore
    /\ \/ Create(w, k, Silent) \/ Get(w, k) \/ Remove(w, k, Silent)
       \/ ReadThenPut(w, k, Silent)
PcEventSubscriptions(w, k) ==
    /\ store = PcEventExposureStore
    /\ \/ Create(w, k, Silent) \/ Get(w, k) \/ CheckThenReplace(w, k, Silent)
       \/ Remove(w, k, Silent)
AppAmContexts(w, k) ==
    /\ store = AppAmContextStore
    /\ \/ Create(w, k, Silent) \/ Get(w, k) \/ ReadThenPut(w, k, Silent)
       \/ Remove(w, k, Silent)
AppAmContextEvents(w, k) == store = AppAmContextStore /\ ReadThenPut(w, k, Silent)
MbsAppSessions(w, k) ==
    /\ store = MbsAppSessionStore
    /\ \/ Create(w, k, Silent) \/ Get(w, k) \/ ReadThenPut(w, k, Silent)
       \/ Remove(w, k, Silent)
MbsPolicies(w, k) ==
    /\ store = MbsPolicyStore
    /\ \/ Create(w, k, Silent) \/ Get(w, k) \/ Remove(w, k, Silent)
       \/ ReadThenPut(w, k, Silent)
PdtqPolicies(w, k) ==
    /\ store = PdtqPolicyStore
    /\ \/ Create(w, k, Silent) \/ Get(w, k) \/ ReadThenPut(w, k, Silent)
       \/ Remove(w, k, Silent)
BdtPolicies(w, k) ==
    /\ store = BdtPolicyStore
    /\ \/ Create(w, k, Silent) \/ Get(w, k) \/ ReadThenPut(w, k, Silent)
       \/ Remove(w, k, Silent)

PcfRequest(w, k) ==
    /\ store \in PcfStores
    /\ \/ AmPolicies(w, k) \/ AppSessions(w, k) \/ AppSessionEvents(w, k)
       \/ PcscfRestoration(w, k) \/ UePolicies(w, k) \/ PcEventSubscriptions(w, k)
       \/ AppAmContexts(w, k) \/ AppAmContextEvents(w, k) \/ MbsAppSessions(w, k)
       \/ MbsPolicies(w, k) \/ PdtqPolicies(w, k) \/ BdtPolicies(w, k)
=============================================================================
