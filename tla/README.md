# The 5G core and its charging: a TLA+ model

This directory specifies and checks the stateful core of the repository: what moves money (the charging
function CHF, `src/nfs/chf`, the balance it charges, `src/bss/balance-management`, its rating and its
records); the loop that measures what is charged (SMF, UPF and N4 between them); the registration,
authentication and handover of a UE (AMF, AUSF, UDM); the life cycle of the network functions at the NRF; and
the resource stores behind the service interfaces of all of them.
`PROJECT.json` lists every definition with the source lines it models, the runs, the mutants, the hazards
and the theorems.

## 1. The system

### Components

| Component | State | Operations | Hard behaviour |
|---|---|---|---|
| balance-management (TMF654) | `bucket` rows (remaining, reserved), three action tables | top-up, adjust, reserve/unreserve, each one transaction | many clients at the floor of a bucket; refused actions answered 201 |
| CHF charging engine | Redis: next id, active set, per-resource hash (supi, reserved_total, granted_*) | create, rate, reserve, accumulate, settle | every step is a remote call; lost calls, crashes, other requests in between |
| CHF SBI front end | none of its own | Create, Update, Release on a thread pool | an Update and a Release of one resource at the same time |
| CHF Gy / CAP front ends | per connection: Session-Id map; per association: one dialogue | CCR-I/U/T; InitialDP, ApplyChargingReport | state lost with the connection; result of the removal ignored |
| CHF rating | product catalogue (read) | choice of offering, grant, settlement ratio | absent attributes, unreadable prices, mixed dimensions |
| CHF CDR store (Doris) | `cdr` rows, archive files | write, gap detection, retention sweep | clock moving inside a sweep, partial failures |
| CHF spending limit, offline charging | Redis subscriptions, counters | subscribe, update, delete, notify | check-then-act on Redis |
| SMF | contexts, SEID table, invocation sequence numbers | Create/Update/ReleaseSMContext, PFCP reports, N40 | detached threads, out-of-order re-authorisation |
| UPF | PFCP sessions, BPF maps of URR counters | establish, modify, delete, count, report | read-modify-write against the packet path, report latches |
| NRF | profiles, heartbeat stamps, subscriptions | register, heartbeat, deregister, sweep, notify, discover, issue tokens | sweep against late heartbeat; notifications sent after the unlock; restart |
| NF daemons | a lifecycle thread each, a cached token | probe, register, beat every half timer | lost calls, threads held up, tokens that two clocks time |
| AMF, NGAP side | per association: a `UeAuthState` and a reply slot; registry of UEs by SUPI; security contexts in Redis | NG setup, registration, service request, release, path switch, N2 handover, cancellation | one association per thread, replies handed between threads with a time-out, late replies, closed associations |
| AUSF, UDM authentication | authentication contexts, KAUSF, SQN per subscriber | vectors, confirmation, resynchronisation | sequence numbers that other requests move on |
| UDR | some 90 stores in PostgreSQL tables, subscriptions to changes | GET, PUT, PATCH, DELETE, notify | read-modify-write, order of notifications, restart |
| UDM, PCF, NEF, BSF, NSSF, LMF, SMSF, GMLC, SCP, EIR, NSACF and AMF subscriptions, BSS tables | in-memory stores, PostgreSQL tables | the same | handlers that look and write in two critical sections |
| libs | codecs, HTTP/2, OAuth2 cache, rate limiter | pure or I/O | token expiry, TPS ceiling |

The SMF opens a charging session when a PDU session starts, updates it when the UPF reports that a volume
threshold was crossed, and releases it at the end. MSCs do the same by CAP and other Gy clients by Diameter.
All three reach the same engine, and the engine reserves the price of every grant at balance-management;
when the session ends the reservation is returned in full and the consumed part is debited.

A UE reaches the AMF through a gNB's association. The AMF has it authenticated by the AUSF, which takes a
vector from the UDM, stores the security context, and hands sessions to the SMF; a handover moves the UE to
another association, by the gNBs (Xn) or through the AMF (N2), which then waits on the target's thread for its
reply. Every NF registers its profile at the NRF, beats, takes OAuth2 tokens from it and finds its peers there.
What must outlive a request is a document in some store; UDR tells subscribers when a document changes, and
NEF keeps a copy of its influence data there.

### What makes it correct

* A session is settled at most once, and never for more than was held for it.
* Units reach the consumer only when their price is part of what will be settled.
* The balance is never overdrawn and can be rebuilt from its action rows.
* The right offering rates each usage, and the part of the reservation that is kept is fair.
* No charging record is lost, and the gap alarm tells what is missing.
* A usage report reaches the session that caused it, and is charged under an invocation number of its own.
* The UPF reports a crossing once, and a released session stays released.
* An NF that beats stays registered, one that crashed does not, and a subscriber sees which.
* A token from the cache is accepted.
* A UE that registers gets an answer, also when its USIM is ahead of the network; the AMF's registry never
  names an association the UE has left; a handover holds resources at the target exactly while it is under way.
* No update of a document is lost, a status tells creation from replacement and removal, and subscribers end up with the document.

## 2. The modules

| Module | Models | State ↔ code |
|---|---|---|
| `BalanceManagement` | `BalanceStore` | `bucket` is the table; `ledger` sums the completed rows per bucket; `memo` sums them per description, i.e. per charging session, and remembers refused kinds |
| `ProportionalDebit` | `proportional_debit` | operators only |
| `ChargingEngine` | `charging_engine.cpp`, `ChargingDataStore` | `nextId`, `active`, `content` are the Redis keys; `cdr` sums the rows; `job[t]` is the handler on thread `t` with its locals; `authorized` is what consumers were told |
| `ChargingSession` | abstract: what a session promises | phase, held, freed, paid |
| `ConvergedCharging` | the SBI handlers of `main.cpp` over the engine | `known`: resources whose Create was answered |
| `LegacyCharging` | `diameter_server.cpp`, `cap_server.cpp` over the engine | `session_to_ref`, `current_ref` as in the code |
| `Rating` | `build_rating_grant`, `charging_scope_matches`, `collect_charging_attributes` | the loop over offerings, one action per turn |
| `CdrStore` | `CdrWriter`, the retention thread, the gap alarm | `row`, `archive`, `sweep` (the three statements), `checking` (Releases before their gap query) |
| `UserPlane` | the UPF: `build_session_establishment/modification_response_ies`, `Datapath`, `gtpu_decap.bpf.c`, the report thread | `teidMap`, `urrMap`/`urr` and `ring` are the eBPF maps, `seidToTeid` and `teidSession` the two stores; `updating` is the Update URR between its lookup and its update; `crossings`, `provisioned` count for the properties |
| `SessionManagement` | the SMF: its HTTP handlers, `PfcpPeer`, the handler of usage reports | `ctx` is `SmContextStore` (the keys of each JSON object); `create`, `write`, `release`, `reauth` are the handlers under way with their locals; `pending` is `pending_responses_`; `open` stands for the CHF |
| `PduSession` | the two joined by N4 | `net` (declared by `UserPlane`) is the set of datagrams under way |
| `NfRegistry` | the NRF: `NfRegistry`, `SubscriptionRegistry`, the handlers, the sweep thread | `profiles_` and `last_heartbeat_` as ages in ticks, `Grain` of them in 5 s; `call` holds the requests under way with their step; `queue` is what the sweep has yet to notify; `view` is the subscriber's picture, `unsure` the instances about which two notifications crossed or one was lost |
| `NfLifecycle` | `run_nrf_lifecycle` of the 17 daemons, hello-nf, `OAuth2Client` | `pc`, `phase`, `wait` are the thread; `cached` the token by either clock; `slip`, `missed`, `waited` are histories for the properties |
| `Authentication` | UDM's authentication data, AUSF's 5G-AKA | SQN per subscriber, authentication contexts, KAUSF |
| `AccessMobility` | the AMF's NGAP threads | `UeAuthState` per association, `entries` is `NgapUeRegistry`, `security` the context store, `relay` the reply slot of an association |
| `Registration` | the two composed with UE, USIM, gNBs and SCTP (external) | `up`, `down` are the associations' queues; `ue`, `prepared`, `ho` the other side's state; `moved`, `disturbed`, `admitted` are histories for the properties |
| `ResourceStore` | what a store and a handler can do | `doc` the documents, `work` the handlers under way, `subs` and `copy` the subscribers; `truth` is the document by the requests one after the other, `overlapped`, `misreported`, `missed` are histories |
| `DataRepository`, `DataManagement`, `PolicyControl`, `NetworkExposure`, `ServiceProducers` | UDR; UDM; PCF; NEF; the other producers and the BSS | one definition per store (what it keeps and how it treats an absent document) and one per group of routes (which steps of `ResourceStore` each route is) |
| `ResourceStores` | all of them | `store` is the one a behaviour is about: stores share no state, so their behaviours are checked one by one |
| `*Proofs` | theorems about the module or modules they are named after | |
| `MC*` | instances for TLC | |

**Granularity.** A handler runs synchronously. Each access to shared state (a Redis command, a call to
balance-management, a CDR insert) is an action of its own, and the steps of other threads come in between.
Commands that nobody else can observe apart are one action: the four commands of `create`, because the id is
unknown until the handler answers; `get_supi` and `get_reserved_total`, because the SUPI of a resource never
changes; the three `get_granted_*`, because a grant has one dimension. An operation of balance-management is
atomic: it runs under the store's mutex and in one database transaction.

In the SMF each store call is an action, except that `get` is part of the action whose result it follows; a
store is locked for one call only, so a context read and written back is two actions. In the UPF the packet
program is one action, and an Update URR is two (the lookup and the update of the map entry). A datagram is an
element of a set: it may stay there for ever (lost), be overtaken, or be there in several copies with
different attempt numbers (repeated).

At the NRF every critical section of the registry's mutex is an action, and so is the sending of a
notification. At the AMF the handling of one message is an action where only its own thread can see the state
in between; N2 handover is several, because the source's thread waits for the target's. UDM's
resynchronisation and the advance of the SQN that follows are one action. A request to a store is one
action where the code holds the store's mutex throughout, and two where it looks, lets go and comes back; which
of the two a route is, is what the definitions of the routes say. Listing subscribers and telling each of
them are further actions.

**Faults.** A call to balance-management can fail before it is executed or lose its answer after; a row can
be lost; the process can stop at any step, keeping Redis and the databases. Gy and CAP peers can disconnect.
`MaxFaults` bounds them. In `NfLifecycle` calls break, notifications get lost, threads are held up,
the NF crashes and the NRF restarts; a held-up tick counts one and the others three against `MaxTrouble`. In
`Registration` calls of the AMF fail, radio links and associations break, and AMF and AUSF restart, all
counted with the UE's and gNB's initiatives in `MaxEvents`. In `ResourceStore` a delivery fails, or the process
restarts with what it persists.

**Data.** Money is an integer number of the smallest unit where the code uses doubles, and the quotient of
`proportional_debit` is rounded down. The units of grants keep their three dimensions. Names, dates and
encodings are left out. A price either has a value or is absent: a Money without value,
which the code reads uninitialised, is excluded by `EngineAssumption`. Top-ups are not negative (the
handler does not check this). SEIDs and TEIDs are allocated in step and share a number; an SM context is the
set of its keys; 90 % of a grant is `(9 * grant) \div 10`; a PFCP sequence number is cut to 24 bits on the
wire, as `encode_header` does, with the real 2^24 (the SMF's own counter of 32 bits is not wrapped). NAS messages are records; a MAC verifies when key and
COUNT agree; SQNs are small numbers (the wrap at 2^48 is not reached). A document is the set of the requests
that contributed to it, which tells a lost update from one that was made. At the NRF time is
in ticks, `Grain` of them in 5 s. All lengths in the code are multiples of 5 s: timer 30 s, half of it 15 s, margin and
retries 5 s, the token cache's margin 10 s. Comparisons are strict where the code's are (`age > timer + margin`,
`now + margin < expiry`), so with a `Grain` of 2 "just over 35 s" is 37.5 s; the theorems hold at every `Grain`, however
fine. `exp` of a token is cut to whole seconds, as the JWT's is, which takes up to one second off its lifetime at the NRF.

## 3. The runs

| Run | Checks | Bounds |
|---|---|---|
| `converged_charging` | `EngineTypeOK`, `NoOverdraft`, `Reconciles`, `SettledOnce`, `NeverOvercharged`, `RefundNeverRefused`, `GrantsBacked`, refinement of `ChargingSession` | 2 threads, 1 subscriber, 2 resources, 4 requests, 1 fault, 2 operations of other clients |
| `legacy_charging` | the same session properties, `DialoguesDisjoint`, and the liveness `EndedIsSettled` | 1 connection, 1 association, 1 Session-Id, 2 resources, 4 requests, 1 fault, 1 other operation |
| `rating` | `FirstMatchRates`, `DebitFair`, `OneDimensionUnitFree` | all catalogues of up to 2 of 6 offerings, all requests, 2 usages |
| `cdr_store` | `TypeOK`, `SweepInv`, `DeletedIsArchived`, `AlarmExact`, `ExpiredIsSwept` | 1 session of 4 requests, 4 clock ticks, retention 1, 1 fault |
| `pdu_session` | `TeidPerSession`, `ReportFindsSession`, `UniqueInvocation`, `NoReportStorm`, `ReleasedStaysReleased` | 2 sessions, 3 TEIDs, maps of 2 entries, ring of 1 event, 3 octets, 2 attempts, 3 inputs, PFCP numbers from 1 and from 2^24 - 1 |
| `nf_lifecycle` | `TokenAccepted`, `SubscriberFollows`, `SweptOnlyIfSilent`, and the liveness `CrashedIsSwept`, `RegistersEventually` | 1 instance of either program, ticks of 2.5 s, tokens of 27.5 s, 1 request of the subscriber, trouble 6 |
| `registration` | `NoSilentStall`, `EntryFresh`, `ReservationReturned`, `HandoverBacked` | 1 UE, 2 gNBs, 5 vectors, 4 ids, 4 events |
| `resource_stores` | `NoLostUpdate`, `AnswersTrue`, `WatcherFollows` | every store, 2 threads, 2 documents, 2 subscribers, 2 requests that write |
| `stranded_reservation` | violates `NothingStranded` | no faults |
| `octets_lost` | violates `OctetsPreserved` | 1 session, 2 inputs |
| `service_request` | violates `ServiceRequestVerifies` | 3 events |
| `handover_unreachable` | violates `ReachableAfterHandover` | 1 UE, 2 gNBs |

The type invariants of the other modules (`LegacyTypeOK`, `RatingTypeOK`, `PduSession!TypeOK`,
`StoreTypeOK`, `NfLifecycle!TypeOK`, `Registration!TypeOK`) hold in the same instances; the runs leave them out.

Why the bounds are enough: the races here are between two requests, so two threads and four requests
(Create, Update, Release and one more of any kind) reach every overlap of two handlers of one resource and of
two resources of one subscriber. The subscriber can pay for two grants and not for three, so refusals happen;
one care debit of the other client fits between any two calls. One fault reaches every single failure; the
proofs below do not depend on any bound. Four records of a session give a hole in the middle with a row on
each side, and four ticks let rows of one session expire at different sweeps.

In `pdu_session`, `MaxInputs` is one bound on HTTP requests, usage reports handled and repetitions that reach
the network, all together. Three of them give: two establishments side by side with a repeated request or a
report; establishment, report and release; establishment, a handler that reads and writes the context, and
release; establishment and two overlapping releases. A grant of 2 octets has its threshold at 1, so that three
packets cross a threshold, a quota, and a threshold again after re-authorisation. Maps of 2 entries
fill when a repeated establishment takes the third TEID, and a ring of one event overflows. The PFCP counter starts
at 1, or at 2^24 - 1, where a long-lived SMF is in the end: one request is then paired as ever and the next ones are
beyond the wrap. SEIDs, TEIDs and contexts of the sessions before are left out.

In `nf_lifecycle` time is unbounded (ages are cut off where nothing depends on them any more), and a trouble of
6 lets two calls fail, or one call fail and a thread or call be late by 7.5 s besides (the sweep needs just over 5 s),
or nothing fail and answers be late by 15 s (a token needs more than 9 s), or an NF crash with a request still in the server.
One instance is enough for properties of one: instances meet only in the sweep, which treats each alone. A
token of 27.5 s is outlived several times; within this trouble one is refused to a heartbeat, never to a registration,
which takes a token just fetched. In `registration` four events give: registration with
resynchronisation, release and service request; handover, cancellation, and another handover whose answer races
the late one; a restart or a broken association at any point of these. Five vectors let another consumer of
the SQN come between a vector and its use. It
takes six events until a registry entry is overtaken, the case `EntryFresh` excepts: a connection, its loss, another one
and its loss, and a third that fails while the release of the second is under way. The run does not reach it; with 1
gNB, 4 vectors and 7 events (7 million states) TLC finds `EntryFresh` without the exception violated, and with it
`EntryFresh` and `NoSilentStall` hold. For `NoSilentStall` and `EntryFresh`
one UE is not a bound that more would only confirm: the AMF discloses
that it serves one UE at a time per association (`ngap_task.cpp:821`), and with two UEs TLC finds both violated
when both register at one gNB, whose one `UeAuthState` the second overwrites. The two properties of handovers hold
for any number of UEs and gNBs (TLC agrees for 1 UE, 3 gNBs, 4 events and for 2 UEs, 3 gNBs, 3 events). They
exempt targets that were `disturbed`: the association or the AMF went down, a wait timed out, the
record of the handover in the UE context was overwritten, or two sources waited for one target, whose one reply
slot (`gnb_association_registry.hpp:39`) the first answer fills for both. `HandoverBacked` says that the target
*admitted* the handover, not that it still holds the reservation when the command arrives: with three gNBs it may
not, see below. In `resource_stores` each race is between two requests for one
document, or for two documents one of which has a path contained in the other's; nothing needs a third.

**Fairness.** `LegacyCharging` assumes weak fairness of each thread that has a message: the thread runs
synchronously and each call returns (answer or error). `CdrStore` assumes weak fairness of the sweep: the
retention thread wakes every hour. `NfLifecycle` assumes weak fairness of each lifecycle thread, of each
handler, of the sweep and of time: threads are scheduled, and since the client's calls have no time-out only an
answer or a broken connection ends one; lost calls are bounded by `MaxTrouble`. No fairness is assumed of clients or faults.
`ConvergedCharging`, `PduSession`, `Registration` and `ResourceStores` have only safety properties.

### What the violations show

* **stranded_reservation.** Thread 1 admits an Update (`is_active`), thread 2 handles the Release: it reads
  the total, removes the resource and settles. The Update then reserves and adds to the total. The money
  stays reserved and no request can release it. `stores.hpp` says that Release finalises exactly this total.
* **octets_lost.** A packet is counted between the lookup and the update of an Update URR, and the update
  writes the old total back. `datapath.hpp` says the total is preserved.
* **service_request.** RegistrationComplete is decoded with a literal COUNT and does not move the stored one on,
  so the first ServiceRequest after a registration is checked against COUNT 1 while the UE uses 2.
  `ue_security_context_store.hpp` says the store is read and written on every secured NAS message.
* **handover_unreachable.** HandoverNotify points the registry entry of the UE at the target; the source's
  UEContextReleaseComplete, which the AMF itself asked for, then removes that entry, because the source's
  `UeAuthState` still names the SUPI. `ngap_handover.cpp` says the entry points at the target from then on.

### Further disagreements met while modelling

These are in the models as the code has them; no run of their own states them.

* **Refund and debit are two calls** (`charging_engine.cpp:477`). Another client takes the money in
  between, the debit is answered 201 with status "failed", and the session was free. The comment at `:413` says
  it "now succeeds". `NeverOvercharged` holds all the same.
* **NOW() moves inside a sweep** (`cdr.cpp:248`). A row that expires between SELECT and DELETE is deleted
  unarchived; the comment at `:245` says the next sweep archives it. `DeletedIsArchived` excepts these rows.
* **Mixed dimensions** (`proportional_debit.cpp:34`). Octets and seconds are added into one ratio;
  `stores.hpp:70` says they never are. `OneDimensionUnitFree` is about sessions of one dimension.
* **PFCP sequence numbers** (`pfcp_peer.cpp:41`) are 32 bits in the SMF and 24 in the header. From request 2^24
  on no answer is found: callers repeat and give up, although the UPF has made the sessions they asked for.
  `pfcp_peer.hpp:32` says that a response matching an outstanding request is handed to its caller, with no collision
  possible. `TeidPerSession` and `ReportFindsSession` are checked, and proved, through the wrap: what stands is not harmed.
* **PUTs with one status.** Some routes answer every PUT 201, whether or not the document was there: UDR's usage
  monitoring, BDT, PDTQ, VN group and MBS group data (`udr/src/main.cpp:2757`, `:4549`, `:8062`, `:8623`, `:8908`; for
  all but the first, comments there say that the API documents 201 alone), and with them UDM's proxies, and the AMF's UE contexts
  (`amf/src/main.cpp:499`). Others answer every PUT 200: UDR's influence and application data subscriptions
  (`udr/src/main.cpp:9239`, `:9752`) and NSSF's (`nssf/src/main.cpp:589`). `Overwrite` records these as wrong answers,
  and `AnswersTrue` says nothing of the stores concerned (`FixedStatusStores`).
* **A late HandoverNotify releases the UE where it is** (`ngap_handover.cpp:1165`). The notify of a handover sends
  UEContextReleaseCommand to the association the registry names. When a path switch is processed first, that
  is the gNB the UE moved on to, or one that is preparing the UE's next handover. The comment calls it the source.
* **A release is directed at the association's id** (`ngap_task.cpp:780`). The UEContextReleaseCommand carries
  the id of the association's `UeAuthState` instead of the one in the UEContextReleaseRequest. A new RegistrationRequest
  replaces that id before the AUSF is asked; if the call then fails, the gNB never hears of the new id, ignores the
  command, and the registry keeps the entry of a connection that is gone. `EntryFresh` excepts such an entry until it
  changes (`Overtakes`).
* **Heartbeats do not lead back to registration** (`run_nrf_lifecycle` of every NF). After a restart of the NRF,
  or a sweep, heartbeats are answered 404 and logged, for ever. `docs/DECISIONS.md:538` counts on NFs
  registering again "periodically via heartbeat". `RegistersEventually` is about the first registration.
* **A heartbeat can be lost to the sweep** (`nrf/src/main.cpp:697`). The PATCH looks the profile up and stamps
  it in two critical sections, so the sweep may come in between, which `registry.hpp:56` excludes. With the
  real margin this takes a thread held up for long, as `SweptOnlyIfSilent` quantifies.
* **One binding per session** (`bsf/src/main.cpp:447`). Two POSTs may both find none and both create one.
* **A patch answered 400 is kept** (`nssf/src/main.cpp:613`): the document is checked after it was stored.
* **Documents merged in two steps**: UDM's PATCH of VN groups (`udm/src/main.cpp:3508`) and PCF's policy update
  (`pcf/src/main.cpp:806`) lose one of two concurrent updates.

`NoLostUpdate` and `AnswersTrue` are stated for the stores of the last three except when requests
overlap (`TwoStepStores`) or not at all (`UncheckedStores`). What these races do is therefore in the models but under no property,
and the same goes for notifications told in the wrong order, which `WatcherFollows` excepts.

## 4. The proofs

TLAPS proves, for all values of the constants that satisfy the named assumptions of the modules
(`EngineAssumption`, `ThreadsAssumption`, `CdrAssumption`, `UserPlaneAssumption`,
`SessionManagementAssumption`, `StoreAssumption`, `RegistryAssumption`, `LifecycleAssumption`,
`RatingAssumption`, `AccessMobilityAssumption`: "none" and "gone", which stand for no association, are not names of
gNBs):

| Theorem | Statement | Argument |
|---|---|---|
| `BalanceTypeCorrect`, `BalanceSafe` | `BalanceSpec => [](NoOverdraft /\ Reconciles)` | inductive together with the type invariant: each completed action moves bucket and ledger alike and its guard keeps the floor |
| `TypeCorrect` (SBI and Gy/CAP) | `Spec => []EngineTypeOK`, `[]LegacyTypeOK` | needs that a job at a step has what the step uses: a resource and at least one usage left while charging, a cost that is a number while reserving; `IInv` adds this to the type |
| `DrivesBalance` | `Spec => BalanceSpec` | step simulation: each action performs one operation of balance-management or none |
| `BalanceHolds`, `BooksAgree` | `Spec => []NoOverdraft`, `[]Reconciles` | the two above |
| `SettlesOnce` (SBI and Gy/CAP) | `Spec => []SettledOnce` | `SettleInv`: a thread past the SREM has a resource that is no longer active and has no final row, no two such threads share one, and an active or unborn resource has seen no refund, payment or final row. `SettledOnce` alone is not inductive: a crash may leave a closed resource unsettled, and it must be known that nobody comes back to it. Gy and CAP ignore the SREM's result; for them `DialogInv` shows that only one thread ever gets there |
| `OverchargesNobody`, `RefundsAccepted`, `BacksGrants`; `MoneyAddsUp` for Gy/CAP | `Spec => []NeverOvercharged` etc. | `MoneyInv`, below |
| `ImplementsSession` (SBI and Gy/CAP) | `Spec => RefinesSession` | step simulation of `ChargingSession` under `MoneyInv` and `SettleInv`: every engine step is one of its steps or leaves its variables alone |
| `KeepsDialoguesApart` | `Spec => []DialoguesDisjoint` | `DialogInv`: whoever holds a reference, in a table or in a handler's locals, holds it alone; a handler that ends a session was led to it by an entry of its own; no entry leads to an id not yet given out |
| `CdrTypeCorrect` | `Spec => []TypeOK` | by action |
| `SweepComplete`, `ArchiveBeforeDelete` | `Spec => []SweepInv`, `Spec => DeletedIsArchived` | `SweepInv` says what was read and what the file holds between the statements; the store's mutex keeps the writers out |
| `AlarmIsExact` | `Spec => AlarmExact` | `GapInv`: no number above the last one issued has a row, a session being checked has ended and its last record is no longer pending, and before that it has no alarm. With it the size of the set of stored numbers decides whether one is missing (`detect_gaps` compares a count with a span), by two lemmas on finite intervals |
| `ReportsBounded` | `Spec => []NoReportStorm` | `StormInv`: what was reported plus what the open latches still allow is at most twice the number of times the thresholds were written; only allocated TEIDs have an entry, and an Update URR under way is about a TEID that has one. The bound alone is not inductive: it says nothing of the latches. It holds although the write of an Update URR overwrites latches the packet program set in the meantime, because that write counts as a provisioning of its own |
| `ReleaseIsFinal` | `Spec => ReleasedStaysReleased` | an action property: only the POST that makes a reference stores one that is not there; the others write by `update()`, which needs the entry |
| `InvocationsUnique` | `Spec => []UniqueInvocation` | `NumbersInv`: numbers handed out lie behind the store's counter, and those drawn but not yet sent differ from each other and from those sent. `RefsInv`: the counter is only asked for a resource it knows, because every copy of a chargingDataRef was taken after Create stored it; otherwise it would start again at 1 |
| `SessionsPaired` | `Spec /\ []Recent => []TeidPerSession` | `PathInv`: the UPF offers a TEID in one answer only, under the SEID it was made for; one handler takes it, the one whose call that answer was made for; and what the SMF registered under a SEID and what its session holds name each other. `TeidPerSession` alone says nothing of answers still under way. The pairing needs `Recent`: no handler of Create waits for its answer while 2^24 later requests are numbered (the code waits three times for 2 s); without it the answer to a new request could be taken by a handler whose number has come round again |
| `ReportsRouted` | `Spec /\ []Recent => []ReportFindsSession` | `RouteInv`: a SEID is free until the session it was drawn for registers it, the UPF's TEID of it was allocated for it, and a TEID is in use by a gNB, in the ring buffer or in a report only once its SEID is registered. `SeidInv` bounds the SEIDs by the handlers that drew one, `FreshInv` keeps unallocated TEIDs addressed to nobody, `PathInv` is that of the row above. The number of requests is not bounded |
| `LosesNoUpdate`, `AnswersRightly` | `Spec => []NoLostUpdate`, `[]AnswersTrue` | `StoreInv`, below. `AnswersTrue` leaves out `FixedStatusStores` |
| `WatchersFollow` | `Spec => []WatcherFollows` | `FollowInv` on top of `StoreInv`: at most one thread is busy with a document about which no requests overlapped; what it is still going to tell agrees with the document, and brings a subscriber's copy to it, also the copy of one that fetched the document after the write; when no thread is busy, copy and document agree. `WatcherFollows` alone says nothing while a handler is between write, list and delivery |
| `SubscriberSeesRegistry` | `Spec => []SubscriberFollows` | `FollowInv`: of an instance the subscriber was never left unsure about, at most one notification is still to be told, by a handler or by the sweep, and it agrees with the registry; when there is none, the subscriber's view does. `SubscriberFollows` alone is not inductive: it says nothing of what is still to be told. `CallInv` adds that a thread which is not calling has no call it waits for, so a new request never displaces one whose notification is pending; `ThreadInv` types what requests are made from |
| `TokensAccepted` | `Spec => []TokenAccepted` | `TokenAt`: the lifetimes of a token by the client's and by the NRF's clock differ by what its answer took, and by what the cut of `exp` to whole seconds takes, in the cache and in the request that carries it. A token is refused only if answer and request took more than 9 s together: the margin of 10 s less the second that may be cut. The token is used at once after it came whatever is left of it, so its lifetime must exceed the client's margin (`TokenTtl > 2 * Grain` in `RegistryAssumption`: 10 s, the code's is 3600 s). For every `Grain` |
| `SilentAreSwept` | `Spec => SweptOnlyIfSilent` | `SilentAt`: the time since the last stamp of a running NF is at most its delays, the pauses after attempts that did not arrive, and the part of one sleep that has passed; a request that arrived and is not answered yet has used up no sleep. Only the sweep queues (`OnlySweepQueues`), and what it queues was stamped more than timer and margin (35 s) ago, of which one sleep (15 s) is the NF's own: more than 20 s are left for misses and delays. For every `Grain` |
| `RatesByFirstMatch` | `Spec => []FirstMatchRates` | `LoopInv`: what the loop has passed over is lower than its place, and of it every offering that applies had a price that could not be read; `RatingTypes` types grants, totals and the list that was fetched |
| `SettlesFairly` | `Spec => []DebitFair` | `SettledInv`: the debit is what the report makes of total and grants; then lemmas on integer division (`DebitIsShare`, `DebitMonotone`): a share of the total, nothing for nothing, no less for more usage |
| `UnitsDoNotMatter` | `Spec => []OneDimensionUnitFree` | `DebitUnitFree`: granted and used times the same factor give the same debit, for every factor above 0, which the property asks of two |
| `CommandsAreBacked` | `Spec => []HandoverBacked` of `Registration` | `HandoverInv`, below |
| `ReservationsReturn` | `Spec => []ReservationReturned` | `HandoverInv`, `StoresInv` and `ReturnInv`, below |

*The charging engine.* `ChargingEngineProofs` proves its facts of `EngineNext`, the steps any front end may take;
`ConvergedChargingProofs` and `LegacyChargingProofs` show that the steps of their front ends are such steps
(`DrivesEngine`) and inherit the invariants. `MoneyInv` says, per resource, that what the threads
have reserved and not yet added to the total fits between the total and the hold; that what the threads are about to
answer fits between what was authorised and the total (and the CDR rows, while none was lost); and, per bucket, that what
it still holds for all its resources together fits into `reserved`. These are sums over threads and over resources,
which would need induction. They are stated instead by the existence of an additive measure (`Covered`): a function on
the subsets that grows by an element's weight when the element is added, and is at most the bound for the whole set. A
step that changes one weight changes the measure accordingly (`CoveredStep`), and each single weight is at most the
bound, without induction and without assuming the set finite.

*The SMF's handlers* are typed with an unknown set for what they took from a PFCP response (`HandlersTyped`: some `U`
exists): once the 24-bit numbers have wrapped, a caller whose number came round again may be handed a response of the
other kind and keep from it what was not in it. No theorem bounds the number of requests. Only the two about sessions
and their TEIDs assume that such a caller is no longer waiting (`Recent`).

*The lifecycle threads.* `missed` counts the ticks slept after attempts that did not arrive, retries of a registration
whose answer was lost among them: an NF may be stored by the NRF and still be trying to register, every 5 s, and each
try that fails brings it nearer to the sweep. The count saturates at `SilenceCap`, one tick more than the 20 s the
property asks for.

*The stores.* Some 200 groups of routes run over some 150 stores. They are first sorted by the shape of their handlers (`Sorted`):
handlers whose look and write are one critical section, handlers that look and come back, BSF's handlers that search for
any document before they create one, and NSSF's patch that is kept though refused; the lemmas `*Sorted` go through every
route, `*Apart` tell BSF's stores from the others. `StoreInv` then says of a thread between its look and its write that
what it has seen is still there (`HeldInv`), that two such threads for one document have been recorded as overlapping
(`SoleInv`), and of BSF's stores that either two searches met, or at most one thread is between search and
create with no document there (`FindInv`). `NoLostUpdate` and `AnswersTrue` alone say nothing of the threads.
`FollowInv` also needs (`IssuedInv`) that a search of BSF that found nothing holds an id not given out before: the thread
about to create is then the only one that can be busy with that document.
`StoreAssumption` requires that the value standing for "no document" is not a document, and that a store copied to a
peer is kept in memory and starts empty, as NEF's traffic influence does: the copy then starts like the document.

*Handovers.* The queues of all associations hold at most one message of each handover, and which one tells how far it
is. `SourceAt` says of a source that exactly one of these is true: its request is still on its way to the AMF, its
thread waits, the verdict is on its way back, the source holds the command, the cancellation or its acknowledgement is on
its way. `TargetAt` says of an undisturbed target that at most one thread waits for it, that the request to it, its
answer and the filled reply slot exclude each other, and that an acknowledgement, in the queue or in the slot, means the
waiting source is `admitted`. `LinkAt` says what is left of a handover when a link is down or its thread has
ended, and `BackedAt` is the property. Lemmas on queues (`AppendedKind`, `TakenKind`) say what appending or taking one
message changes of the kinds of message in a queue; a step which changes none of the handovers' kinds keeps the invariant
at once (`ElsewhereKeeps`), a step at one source or target keeps it for the others (`SourceKeeps`, `TargetKeeps`).

`ReservationReturned` says nothing before everything is at rest. `KeptAt` says of each id a target holds resources for
that its release command is on its way, or that a source still has that handover and something to do or say about it
(`Holds`). For the command to be sent in the end, the AMF has to find the target when the source cancels, and it keeps
no record of the handover: it goes from the id through the index to the security context, and from there to the UE
context, which names the target. `PathAt` says that this way leads to the source's target, which is named, from
the time the AMF took the request until it answers the cancellation. It stands (`TargetsStand`) because a store of
another target disturbs the old one, by definition, and because nothing else rewrites the way (`StoresInv`): an id is
given to one association, is put into the index when that registration is accepted, is below `next_id` from then on and
not taken by a registration that could still be accepted. After a restart of the AMF ids are given out again, which
breaks that; then every target is disturbed. Each step is then shown to leave every handover where it is or to bring it
on (`Onward`, one lemma per step), which is enough for the invariant (`OnwardKeeps`).

Only model-checked: the liveness properties (`EndedIsSettled`, `ExpiredIsSwept`, `CrashedIsSwept`,
`RegistersEventually`), which need fairness; and `NoSilentStall` and `EntryFresh` of `Registration`. These two do not
hold for every value of `UE`, since the AMF serves one UE at a time per association: they are claims about one UE, and
what one UE, the messages to it, the registry, and the contexts of AMF and AUSF for it have in common in every phase of
a connection, with an earlier connection still being released, is an invariant of its own that has not been written yet.

## 5. Not modelled, and the plan

Left out for good: codecs and cryptography (pure functions on byte strings), generated code, simulators,
deployment, the packet path of the UPF except its counters, TAP3 files.

Left out of `PduSession`: Session Deletion (the UPF handles it, no function sends it), QoS enforcement and
buffering rules, the downlink path (installing it changes no state the model has), the count the NSACF keeps
(its answer is a choice), a restart of either side (nothing is persisted). The packet program and the map
update are atomic with respect to each other; in the kernel a packet may still add to the entry that was just
replaced, which loses octets in the same way as `octets_lost` shows. Liveness of the loop is not checked: the
state graph is too large for it under these bounds.

Left out elsewhere: EAP-AKA', ProSe, SoR and UPU of the AUSF; the SM policies of the PCF and the admission
counters of the NSACF (their answers are choices where AMF and SMF ask); UDM's pushes to a VLR on
detached threads; CHF's spending limits; the RatingDecision audit row; the SCP's forwarding.

Next, in this order:

1. proofs for one UE: `EntryFresh`, then `NoSilentStall` of `Registration`;
2. more of the quota loop: the quota never moves backwards when reports overlap, a context without a charging
   reference has no open charging session;
3. counters at their limits: NSACF admission, the rate limiter, the AUSF's SoR counter;
4. spending-limit subscriptions and their notifications.
