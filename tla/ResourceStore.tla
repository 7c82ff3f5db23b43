--------------------------- MODULE ResourceStore ---------------------------
(***************************************************************************)
(* What the SBI producers of the core have in common: a handler thread per *)
(* request, a keyed store behind a mutex (a PostgreSQL table in UDR and    *)
(* the BSS, a map in memory elsewhere), and, after a write, a synchronous  *)
(* best-effort notification of the subscribers of the resource.            *)
(*                                                                         *)
(* A behaviour follows ONE store, chosen by Init: handlers of different    *)
(* resources share no row.  A document is the set of the writes it         *)
(* reflects: a replacement by request n makes it {n}, a patch by request n *)
(* adds n.  The variables from truth on record history for the properties. *)
(***************************************************************************)
EXTENDS Naturals, FiniteSets

CONSTANTS
    Stores,        \* the stores a behaviour may follow, see StoreType
    Workers,       \* threads of sbi_core::run_multi_threaded
    Keys,          \* identifiers of the documents of the store
    Watchers,      \* consumers that may subscribe to the changes of one document
    Watch,         \* [Watchers -> Keys], the document each one monitors
    Contains,      \* [Keys -> SUBSET Keys], the documents whose URI contains this one's path
    MaxRequests,   \* bound on the writing requests
    Absent         \* no document

ASSUME StoreAssumption ==
    /\ Watch \in [Watchers -> Keys]
    /\ Contains \in [Keys -> SUBSET Keys]
    /\ \A k \in Keys : k \in Contains[k]
    /\ MaxRequests \in Nat
    /\ \A d \in SUBSET (0 .. MaxRequests) : d # Absent
    \* what a producer copies to a peer it keeps in memory itself
    /\ \A x \in Stores : x.scope = "push" => ~x.durable /\ ~x.seeded

VARIABLES
    store,        \* the store of this behaviour
    doc,          \* [Keys -> document or Absent]
    work,         \* what each thread is in the middle of
    requests,     \* writing requests so far
    issued,       \* keys the store has handed out itself
    subs,         \* [Watchers -> Scopes]: the subscription of each watcher
    copy,         \* [Watchers -> document]: what a watcher has been told
    truth,        \* the documents, had every write taken effect atomically
    overlapped,   \* <<k, phase>>: a request for k came while another was in that phase
    misreported,  \* keys about which an answer was wrong (created, removed)
    missed        \* watchers that were not told of a change of their document

vars == <<store, doc, work, requests, issued, subs, copy,
          truth, overlapped, misreported, missed>>

Seed == 0
Document == SUBSET (Seed .. MaxRequests)

\* Whom a write of a store reaches: nobody; the onDataChange subscriptions of a UE
\* or those without one (UDR); the event subscriptions of the producer (BSF, NSSF);
\* the copy of the document this producer keeps at a peer (NEF at UDR).
Scopes == {"none", "ue", "ueless", "event", "push"}

\* durable: rows survive a restart; scope: which subscriptions its writes reach;
\* onAbsent: what a patch does without a row; seeded: rows written at startup;
\* ids: who names the documents
Store(name, durable, onAbsent, scope, seeded, ids) ==
    [name |-> name, durable |-> durable, onAbsent |-> onAbsent, scope |-> scope,
     seeded |-> seeded, ids |-> ids]
Memory(name, onAbsent, ids) == Store(name, FALSE, onAbsent, "none", FALSE, ids)
Notify == TRUE      \* the route calls notify_subscribers after its write
Silent == FALSE

\* What the one status of a route says of the document: 201 that the request created
\* it, 200 that it was there, 204 neither.
Created == "201"
Replaced == "200"
Unsaid == "204"
Says(status, k) ==
    /\ status = Created => truth[k] = Absent
    /\ status = Replaced => truth[k] # Absent

Free == [at |-> "idle"]
Idle(w) == work[w] = Free
BusyOn(w, k) == ~Idle(w) /\ work[w].key = k

Change == [kind : {"REPLACE", "REMOVE", "PATCH"}, value : Document]
change_replace(d) == [kind |-> "REPLACE", value |-> d]
change_remove == [kind |-> "REMOVE", value |-> {}]
change_from_json_patch(n) == [kind |-> "PATCH", value |-> {n}]

Merged(d, n) == IF d = Absent THEN {n} ELSE d \cup {n}

\* A subscriber's copy of the document after a notification.
Told(d, change) ==
    CASE change.kind = "REPLACE" -> change.value
      [] change.kind = "REMOVE"  -> Absent
      [] change.kind = "PATCH"   -> IF d = Absent THEN change.value ELSE d \cup change.value
----------------------------------------------------------------------------
(* Steps of a handler *)

\* A request for k enters its handler on a free thread.
Enter(w, k) ==
    /\ Idle(w)
    /\ overlapped' = overlapped \cup
           {<<k, IF work[v].at = "checked" THEN "write" ELSE "notify">> :
               v \in {v \in Workers : BusyOn(v, k)}}

NewRequest ==
    /\ requests < MaxRequests
    /\ requests' = requests + 1

\* The watchers that have subscribed to what happens to k.
WatchersOf(k) == {s \in Watchers : subs[s] = store.scope /\ Watch[s] = k}

\* The handler goes on to notify_subscribers, or answers.
Finish(w, k, notifies, change) ==
    /\ work' = [work EXCEPT ![w] =
                   IF notifies /\ store.scope # "none"
                   THEN [at |-> "list", key |-> k, change |-> change]
                   ELSE Free]
    /\ missed' = IF notifies THEN missed ELSE missed \cup WatchersOf(k)

\* The store's one statement under its mutex: the document becomes d, an
\* atomic store's would become t; the answer is right or not.
Commit(k, d, t, right) ==
    /\ doc' = [doc EXCEPT ![k] = d]
    /\ truth' = [truth EXCEPT ![k] = t]
    /\ misreported' = IF right THEN misreported ELSE misreported \cup {k}

\* An answer that changes nothing: 200 to a GET, 404, 400, 401.
Answer(w, k) ==
    /\ Idle(w)
    /\ UNCHANGED vars

Unwatched == UNCHANGED <<store, subs, copy>>

\* GET of a document or of a collection.
Get(w, k) == Answer(w, k)

\* A request that check_bearer or parse_json_body turns away.
Reject(w) == Idle(w) /\ UNCHANGED vars
NoDocument(w, k) == doc[k] = Absent /\ Answer(w, k)

\* PUT through an upsert that reports whether it inserted the row.
Put(w, k, notifies) ==
    /\ Enter(w, k) /\ NewRequest
    /\ Commit(k, {requests'}, {requests'}, (doc[k] = Absent) = (truth[k] = Absent))
    /\ Finish(w, k, notifies, change_replace({requests'}))
    /\ Unwatched /\ UNCHANGED issued

\* PUT whose answer has one status, whether or not the row was there: where that
\* is 201 every replacement is answered wrong, where it is 200 every creation.
Overwrite(w, k, notifies, status) ==
    /\ Enter(w, k) /\ NewRequest
    /\ Commit(k, {requests'}, {requests'}, Says(status, k))
    /\ Finish(w, k, notifies, change_replace({requests'}))
    /\ Unwatched /\ UNCHANGED issued

\* PATCH, RFC 6902 or 7396, read and written back in one transaction.
PatchWith(w, k, notifies, change) ==
    \/ store.onAbsent = "refuse" /\ NoDocument(w, k)
    \/ /\ store.onAbsent = "create" \/ doc[k] # Absent
       /\ Enter(w, k) /\ NewRequest
       /\ Commit(k, Merged(doc[k], requests'), Merged(truth[k], requests'), TRUE)
       /\ Finish(w, k, notifies, change)
       /\ Unwatched /\ UNCHANGED issued
ApplyPatch(w, k, notifies) == PatchWith(w, k, notifies, change_from_json_patch(requests + 1))
MergePatch(w, k, notifies) ==
    PatchWith(w, k, notifies, change_replace(Merged(doc[k], requests + 1)))

\* A patch written back before its result is validated: 400, and the row is changed.
PatchKeptThoughRefused(w, k) ==
    /\ doc[k] # Absent
    /\ Enter(w, k) /\ NewRequest
    /\ Commit(k, Merged(doc[k], requests'), truth[k], FALSE)
    /\ Finish(w, k, Silent, change_remove)
    /\ Unwatched /\ UNCHANGED issued

\* PUT of a document that must exist: UPDATE, or a put that finds no entry.
Update(w, k, notifies) ==
    \/ NoDocument(w, k)
    \/ doc[k] # Absent /\ Overwrite(w, k, notifies, Replaced)

\* DELETE that reports whether a row went.
Remove(w, k, notifies) ==
    \/ NoDocument(w, k)
    \/ /\ doc[k] # Absent
       /\ Enter(w, k) /\ NewRequest
       /\ Commit(k, Absent, Absent, truth[k] # Absent)
       /\ Finish(w, k, notifies, change_remove)
       /\ Unwatched /\ UNCHANGED issued

\* POST to a collection: the producer names the document.
Create(w, k, notifies) ==
    /\ k \notin issued /\ doc[k] = Absent
    /\ Enter(w, k) /\ NewRequest
    /\ Commit(k, {requests'}, {requests'}, TRUE)
    /\ Finish(w, k, notifies, change_replace({requests'}))
    /\ issued' = issued \cup {k}
    /\ Unwatched
----------------------------------------------------------------------------
(* Handlers that look at the store, let go of its mutex and come back *)

\* get() before the write the handler has decided on: goal says which.
Check(w, k, goal, notifies) ==
    /\ Enter(w, k) /\ NewRequest
    /\ work' = [work EXCEPT ![w] = [at |-> "checked", key |-> k, goal |-> goal,
                                    seen |-> doc[k], request |-> requests',
                                    notifies |-> notifies]]
    /\ Unwatched /\ UNCHANGED <<doc, truth, misreported, issued, missed>>

\* 201 or 200 by an earlier get(), then put().
CheckThenPut(w, k, notifies) == Check(w, k, "put", notifies)
\* 404 by an earlier get(), then an upsert.
CheckThenUpsert(w, k, notifies) ==
    NoDocument(w, k) \/ (doc[k] # Absent /\ Check(w, k, "upsert", notifies))
\* 404 by an earlier get(), then a put() of the new body that is silent when the entry has gone.
CheckThenReplace(w, k, notifies) ==
    NoDocument(w, k) \/ (doc[k] # Absent /\ Check(w, k, "replace", notifies))
\* get(), merge into what was read, put().
ReadThenPut(w, k, notifies) ==
    NoDocument(w, k) \/ (doc[k] # Absent /\ Check(w, k, "merge", notifies))
\* The same against a peer whose PUT creates a missing document.
ReadThenUpsert(w, k, notifies) ==
    NoDocument(w, k) \/ (doc[k] # Absent /\ Check(w, k, "mergeUpsert", notifies))
\* 404 by an earlier get(), then remove(), whose result is not looked at.
CheckThenRemove(w, k, notifies) ==
    NoDocument(w, k) \/ (doc[k] # Absent /\ Check(w, k, "remove", notifies))

\* 403 if a document for the same combination is found, then create(). All keys
\* stand for documents of one combination, so two such requests always overlap.
FindThenCreate(w, k, notifies) ==
    /\ k \notin issued
    /\ \/ (\E j \in Keys : doc[j] # Absent) /\ Answer(w, k)
       \/ /\ \A j \in Keys : doc[j] = Absent
          /\ Idle(w) /\ NewRequest
          /\ overlapped' = overlapped \cup
                 {<<j, "write">> : j \in {j \in Keys : \E v \in Workers : work[v].at = "checked"}}
          /\ work' = [work EXCEPT ![w] = [at |-> "checked", key |-> k, goal |-> "create",
                                          seen |-> Absent, request |-> requests',
                                          notifies |-> notifies]]
          /\ Unwatched /\ UNCHANGED <<doc, truth, misreported, issued, missed>>
\* patch(), then get() of the whole document for the answer, taken to be there.
PatchThenGet(w, k, notifies) ==
    \/ NoDocument(w, k)
    \/ /\ doc[k] # Absent
       /\ Enter(w, k) /\ NewRequest
       /\ Commit(k, Merged(doc[k], requests'), Merged(truth[k], requests'), TRUE)
       /\ work' = [work EXCEPT ![w] = [at |-> "checked", key |-> k, goal |-> "get",
                                       seen |-> doc'[k], request |-> requests',
                                       notifies |-> notifies]]
       /\ Unwatched /\ UNCHANGED <<issued, missed>>

\* The write that follows the check, with what the check has read.
WriteChecked(w) ==
    LET c == work[w]
        k == c.key
        n == c.request
        merged == Merged(c.seen, n)
    IN  /\ c.at = "checked"
        /\ \/ /\ c.goal = "put"
              /\ Commit(k, {n}, {n}, (c.seen = Absent) = (truth[k] = Absent))
              /\ Finish(w, k, c.notifies, change_replace({n}))
           \/ /\ c.goal = "upsert"
              /\ Commit(k, {n}, IF truth[k] = Absent THEN Absent ELSE {n}, truth[k] # Absent)
              /\ Finish(w, k, c.notifies, change_replace({n}))
           \/ /\ c.goal \in {"replace", "merge"} /\ doc[k] = Absent
              /\ Commit(k, Absent, Absent, FALSE)
              /\ Finish(w, k, c.notifies, change_replace({n}))
           \/ /\ c.goal = "replace" /\ doc[k] # Absent
              /\ Commit(k, {n}, {n}, TRUE)
              /\ Finish(w, k, c.notifies, change_replace({n}))
           \/ /\ c.goal = "merge" /\ doc[k] # Absent
              /\ Commit(k, merged, Merged(truth[k], n), TRUE)
              /\ Finish(w, k, c.notifies, change_replace(merged))
           \/ /\ c.goal = "mergeUpsert"
              /\ Commit(k, merged, IF truth[k] = Absent THEN Absent ELSE Merged(truth[k], n),
                        truth[k] # Absent)
              /\ Finish(w, k, c.notifies, change_replace(merged))
           \/ /\ c.goal = "remove"
              /\ Commit(k, Absent, Absent, truth[k] # Absent)
              /\ Finish(w, k, c.notifies, change_remove)
           \/ /\ c.goal = "get"
              /\ Commit(k, doc[k], truth[k], doc[k] # Absent)
              /\ Finish(w, k, c.notifies, change_replace(c.seen))
        /\ Unwatched /\ UNCHANGED <<requests, issued, overlapped>>

\* create() after the search: the id is the next one by then.
CreateChecked(w) ==
    LET c == work[w]
    IN  /\ c.at = "checked" /\ c.goal = "create"
        /\ \E k \in Keys \ issued :
              /\ c.key \notin issued => k = c.key
              /\ Commit(k, {c.request},
                        IF \A j \in Keys : truth[j] = Absent THEN {c.request} ELSE Absent,
                        \A j \in Keys : truth[j] = Absent)
              /\ Finish(w, k, c.notifies, change_replace({c.request}))
              /\ issued' = issued \cup {k}
        /\ Unwatched /\ UNCHANGED <<requests, overlapped>>
----------------------------------------------------------------------------
(* onDataChange *)

\* UDR compares the monitored URI with the changed one by find().
Reaches(k, s) ==
    /\ subs[s] = store.scope
    /\ IF store.scope \in {"ue", "ueless"} THEN Watch[s] \in Contains[k] ELSE Watch[s] = k

\* list_by_ue_id, list_ue_less or list_all, after the write has been committed.
ListSubscribers(w) ==
    /\ work[w].at = "list"
    /\ LET k  == work[w].key
           to == {s \in Watchers : Reaches(k, s)}
       IN  work' = [work EXCEPT ![w] =
                       IF to = {} THEN Free
                       ELSE [at |-> "send", key |-> k, change |-> work[w].change, to |-> to]]
    /\ UNCHANGED <<store, doc, requests, issued, subs, copy, truth, overlapped,
                   misreported, missed>>

\* Mutant: the loop ends with the first subscriber.
SentToFirstOnly(w, s) == work' = [work EXCEPT ![w] = Free]

\* The loop of deliver_onDataChange goes on whatever became of a delivery.
Sent(w, s) ==
    LET rest == work[w].to \ {s}
    IN  work' = [work EXCEPT ![w] = IF rest = {} THEN Free ELSE [work[w] EXCEPT !.to = rest]]

\* One POST to a callbackReference; it may fail, which is only logged.
Deliver(w, s) ==
    /\ work[w].at = "send" /\ s \in work[w].to
    /\ Sent(w, s)
    /\ \/ /\ Watch[s] # work[w].key    \* about a document whose URI contains the monitored one
          /\ UNCHANGED <<copy, missed>>
       \/ /\ Watch[s] = work[w].key
          /\ copy' = [copy EXCEPT ![s] = Told(copy[s], work[w].change)]
          /\ UNCHANGED missed
       \/ /\ Watch[s] = work[w].key
          /\ missed' = missed \cup {s}
          /\ UNCHANGED copy
    /\ UNCHANGED <<store, doc, requests, issued, subs, truth, overlapped, misreported>>

\* A consumer subscribes and fetches the document it is to follow.
Subscribe(s) ==
    /\ subs[s] = "none" /\ store.scope # "none"
    /\ store.ids = "server" => Watch[s] \in issued
    /\ subs' = [subs EXCEPT ![s] = store.scope]
    /\ copy' = [copy EXCEPT ![s] = doc[Watch[s]]]
    /\ UNCHANGED <<store, doc, work, requests, issued, truth, overlapped, misreported, missed>>

Unsubscribe(s) ==
    /\ subs[s] \notin {"none", "push"}
    /\ subs' = [subs EXCEPT ![s] = "none"]
    /\ copy' = [copy EXCEPT ![s] = Absent]
    /\ missed' = missed \ {s}
    /\ UNCHANGED <<store, doc, work, requests, issued, truth, overlapped, misreported>>

\* The rows the constructor or seed() writes when the process starts.
Seeded(d) == IF store.seeded THEN {Seed} ELSE d

\* The process ends and comes back: requests in progress are gone with their
\* notifications, what was in memory is gone, the seed is written again.
Restart ==
    /\ work' = [w \in Workers |-> Free]
    /\ doc' = [k \in Keys |-> Seeded(IF store.durable THEN doc[k] ELSE Absent)]
    /\ truth' = [k \in Keys |-> Seeded(IF store.durable THEN truth[k] ELSE Absent)]
    /\ issued' = IF store.durable THEN issued ELSE {}
    /\ IF store.durable \/ store.scope = "push"
       THEN /\ missed' = IF work' = work /\ doc' = doc THEN missed
                         ELSE {s \in Watchers : subs[s] # "none"}
            /\ UNCHANGED <<subs, copy>>
       ELSE /\ missed' = {}
            /\ subs' = [s \in Watchers |-> "none"]
            /\ copy' = [s \in Watchers |-> Absent]
    /\ UNCHANGED <<store, requests, overlapped, misreported>>
----------------------------------------------------------------------------
\* A behaviour starts with any rows earlier ones left in the table.
Init ==
    /\ store \in Stores
    /\ doc \in [Keys -> {Seeded(Absent)} \cup (IF store.durable THEN {{Seed}} ELSE {})]
    /\ truth = doc
    /\ work = [w \in Workers |-> Free]
    /\ requests = 0
    /\ issued = IF store.ids = "server" THEN {k \in Keys : doc[k] # Absent} ELSE {}
    /\ subs = [s \in Watchers |-> IF store.scope = "push" THEN "push" ELSE "none"]
    /\ copy = [s \in Watchers |-> Absent]
    /\ overlapped = {} /\ misreported = {} /\ missed = {}

\* What every store goes through whatever its routes.
Background ==
    \/ \E w \in Workers : \/ Reject(w)
                          \/ WriteChecked(w)
                          \/ CreateChecked(w)
                          \/ ListSubscribers(w)
                          \/ \E s \in Watchers : Deliver(w, s)
    \/ \E s \in Watchers : \/ Subscribe(s)
                           \/ Unsubscribe(s)
    \/ Restart
=============================================================================
