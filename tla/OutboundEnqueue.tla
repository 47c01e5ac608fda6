--------------------------- MODULE OutboundEnqueue ---------------------------
(***************************************************************************)
(* The accept path of outbound events: enqueue_outbound_for_event          *)
(* (outbound_enqueue.py), called by POST /internal/v1/outbound/events and  *)
(* by the admin sandbox, with the process-local cache of partner, schema   *)
(* and endpoints (accept_path_cache.py) and the admin handlers that change *)
(* those rows and invalidate the cache of THEIR OWN process.               *)
(*                                                                         *)
(* One partner and one event type.  Calls with one key repeat one event.   *)
(* `deliveries` and `outbox` hold COMMITTED rows.                          *)
(***************************************************************************)
EXTENDS Naturals

CONSTANTS Requests,      \* calls that enqueue an event
          Keys,          \* idempotency_key values
          Key,           \* Key[r]: the key r carries
          Procs,         \* API processes (uvicorn workers)
          Serves,        \* Serves[r]: the processes r may be routed to
          Endpoints,     \* outbound endpoints of the partner
          None,
          InitialRows,   \* the rows to start from
          TTL,           \* DEFAULT_TTL_SECONDS, in ticks
          Latency,       \* most ticks between a SELECT and its cache_set
          MaxChanges     \* bound: admin changes

ASSUME NoneAssumption == None \notin Procs /\ None \notin Endpoints
ASSUME KeyAssumption == Key \in [Requests -> Keys]
ASSUME ServesAssumption == Serves \in [Requests -> SUBSET Procs]
ASSUME BoundsAssumption ==
    /\ TTL \in Nat \ {0} /\ Latency \in Nat
    /\ MaxChanges \in Nat

VARIABLES
    db,        \* db[i]: the committed value of item i
    age,       \* age[i]: ticks since db[i] last changed, up to the horizon
    by,        \* by[i]: the process that changed db[i] last, or None
    changes,   \* admin changes so far
    cache,     \* cache[p][i]: the entry process p holds, or None
    inval,     \* inval[p][i]: admin handlers of p between commit and invalidate
    pc,        \* pc[r]: where the handler of r stands
    local,     \* local[r]: the local variables of that handler
    got,       \* got[r]: what r's SELECT returned and is not cached yet, or None
    answer,    \* answer[r]: what the caller of r was answered
    deliveries, outbox

admin   == <<db, age, by, changes, inval>>
request == <<pc, local, got, answer>>
vars    == <<admin, cache, request, deliveries, outbox>>

Items   == {"partner", "schema", "endpoints"}
Horizon == TTL + Latency

(* A partner is missing, active or in one of the other statuses; a schema  *)
(* is absent, or accepts or rejects the payload of these events; of the    *)
(* endpoints the active outbound ones subscribed to the type count.        *)
Partner       == {"missing", "active", "inactive"}
PayloadSchema == {"absent", "accepts", "rejects"}
EndpointList  == SUBSET Endpoints
Values(i) == CASE i = "partner"   -> Partner
               [] i = "schema"    -> PayloadSchema
               [] i = "endpoints" -> EndpointList

ASSUME RowsAssumption ==
    \A row \in InitialRows :
        /\ row = [i \in Items |-> row[i]]
        /\ \A i \in Items : row[i] \in Values(i)

Entry(i)  == [value: Values(i), left: 0..TTL, late: BOOLEAN]
Local     == [home: Procs \cup {None},     \* the process that serves the call
              waited: 0..Latency,           \* ticks since the SELECT in flight
              from_cache: BOOLEAN,          \* the partner object came from the cache
              plan: SUBSET Endpoints,       \* the endpoints to fan out to
              next: Endpoints \cup {None},  \* whose row the statement inserts next
              inserted: SUBSET Endpoints]   \* rows of the open transaction
NoLocal   == [home |-> None, waited |-> 0, from_cache |-> FALSE, plan |-> {},
              next |-> None, inserted |-> {}]
Delivery  == [by: Requests, key: Keys, endpoint: Endpoints]
Stages    == {"new", "insert", "commit", "raced", "done"} \cup Items
Codes     == {"none", "accepted", "duplicate", "refused", "error", "lost"}
Answer    == [code: Codes, deliveries: SUBSET Delivery]

TypeOK ==
    /\ \A i \in Items : db[i] \in Values(i)
    /\ age \in [Items -> 0..Horizon]
    /\ by \in [Items -> Procs \cup {None}]
    /\ changes \in 0..MaxChanges
    /\ \A p \in Procs, i \in Items : cache[p][i] \in Entry(i) \cup {None}
    /\ inval \in [Procs -> [Items -> Nat]]
    /\ pc \in [Requests -> Stages]
    /\ local \in [Requests -> Local]
    /\ \A r \in Requests : got[r] # None => pc[r] \in Items /\ got[r] \in Values(pc[r])
    /\ answer \in [Requests -> Answer]
    /\ deliveries \subseteq Delivery
    /\ outbox \subseteq Delivery

NoEntries == [i \in Items |-> None]

Init ==
    /\ db \in InitialRows
    /\ age = [i \in Items |-> Horizon]
    /\ by = [i \in Items |-> None]
    /\ changes = 0
    /\ cache = [p \in Procs |-> NoEntries]
    /\ inval = [p \in Procs |-> [i \in Items |-> 0]]
    /\ pc = [r \in Requests |-> "new"]
    /\ local = [r \in Requests |-> NoLocal]
    /\ got = [r \in Requests |-> None]
    /\ answer = [r \in Requests |-> [code |-> "none", deliveries |-> {}]]
    /\ deliveries = {}
    /\ outbox = {}

-----------------------------------------------------------------------------
(* The cache and the admin handlers                                        *)

(* Slip: `>` for `>=` in the comparison with expires_at (BoundedStaleness). *)
LiveInclusive(p, i) == cache[p][i] # None

(* cache_get: an entry counts while its time is not over. *)
Live(p, i) == cache[p][i] # None /\ cache[p][i].left > 0

(* cache_set; `late` only records that the row had changed since the SELECT. *)
CacheSet(p, i, v) ==
    [cache EXCEPT ![p][i] = [value |-> v, left |-> TTL, late |-> v # db[i]]]

(* A row is changed in process p: what the admin handlers have in common,  *)
(* up to their commit.  The entry is invalidated after it.                 *)
Change(p, i, v) ==
    /\ changes < MaxChanges
    /\ db' = [db EXCEPT ![i] = v]
    /\ age' = IF v = db[i] THEN age ELSE [age EXCEPT ![i] = 0]
    /\ by' = [by EXCEPT ![i] = p]
    /\ changes' = changes + 1
    /\ inval' = [inval EXCEPT ![p][i] = @ + 1]
    /\ UNCHANGED <<cache, request, deliveries, outbox>>

(* A missing partner stays missing: create_partner draws a new id. *)
UpdatePartner(p) ==
    /\ db["partner"] # "missing"
    /\ \E v \in {"active", "inactive"} : Change(p, "partner", v)

(* A new endpoint is active; it counts here when it is an outbound one     *)
(* subscribed to the event type.                                           *)
CreateEndpoint(p, e) ==
    /\ e \notin db["endpoints"]
    /\ Change(p, "endpoints", db["endpoints"] \cup {e})

(* The status, the event types or neither of them change. *)
UpdateEndpoint(p, e) ==
    \E v \in {db["endpoints"] \cup {e}, db["endpoints"] \ {e}} : Change(p, "endpoints", v)

(* A version is added; none is ever taken away. *)
CreatePayloadSchema(p) ==
    \E v \in {"accepts", "rejects"} : Change(p, "schema", v)

(* Slip: only the endpoints are dropped when a partner changes             *)
(* (LocalInvalidation).                                                    *)
DroppedEndpoints(p, i) ==
    IF i = "partner" /\ cache[p][i] # None THEN {"endpoints"} ELSE {i}

(* invalidate_partner also drops the partner's endpoints, which it finds   *)
(* through the cached partner; invalidate_partner_endpoints and            *)
(* invalidate_schema drop their own entry.                                 *)
Dropped(p, i) ==
    IF i = "partner" /\ cache[p][i] # None THEN {"partner", "endpoints"} ELSE {i}

Invalidate(p, i) ==
    /\ inval[p][i] > 0
    /\ inval' = [inval EXCEPT ![p][i] = @ - 1]
    /\ cache' = [cache EXCEPT ![p] =
                    [j \in Items |-> IF j \in Dropped(p, i) THEN None ELSE @[j]]]
    /\ UNCHANGED <<db, age, by, changes, request, deliveries, outbox>>

(* Slip: entries are counted down for ever (TypeOK).                       *)
OlderForEver(i, entry) ==
    IF entry = None THEN None ELSE [entry EXCEPT !.left = @ - 1]

(* An entry whose time is over stays until the next cache_get; only the    *)
(* partner's is looked at before that, by invalidate_partner.              *)
Older(i, entry) ==
    IF entry # None /\ entry.left > 1 THEN [entry EXCEPT !.left = @ - 1]
    ELSE IF entry # None /\ i = "partner" THEN [entry EXCEPT !.left = 0]
    ELSE None

(* Time passes.  A SELECT answers within Latency. *)
Tick ==
    /\ \A r \in Requests : got[r] # None => local[r].waited < Latency
    /\ age' = [i \in Items |-> IF age[i] < Horizon THEN age[i] + 1 ELSE Horizon]
    /\ cache' = [p \in Procs |-> [i \in Items |-> Older(i, cache[p][i])]]
    /\ local' = [r \in Requests |->
                    IF got[r] # None THEN [local[r] EXCEPT !.waited = @ + 1] ELSE local[r]]
    /\ <<age, cache, local>>' # <<age, cache, local>>
    /\ UNCHANGED <<db, by, changes, inval, pc, got, answer, deliveries, outbox>>

-----------------------------------------------------------------------------
(* The handler                                                             *)

Goto(r, stage) == pc' = [pc EXCEPT ![r] = stage]

(* The call ends; an open transaction is rolled back. *)
Finish(r, code, ds) ==
    /\ Goto(r, "done")
    /\ answer' = [answer EXCEPT ![r] = [code |-> code, deliveries |-> ds]]
    /\ local' = [local EXCEPT ![r] = NoLocal]

(* Process p begins to serve the call. *)
Arrive(r, p) ==
    /\ pc[r] = "new"
    /\ p \in Serves[r]
    /\ Goto(r, "partner")
    /\ local' = [local EXCEPT ![r].home = p]
    /\ UNCHANGED <<admin, cache, got, answer, deliveries, outbox>>

(* The internal API, and the admin's sandbox, which draws a key of its own *)
(* when it is given none.                                                  *)
CreateOutboundEvent(r, p) == Arrive(r, p)
SandboxTestDelivery(r, p) == Arrive(r, p)

(* PartnerNotFoundError and PartnerInactiveError, validate_payload (no     *)
(* schema accepts everything), NoActiveEndpointError.                      *)
Refuses(i, v) == CASE i = "partner"   -> v # "active"
                   [] i = "schema"    -> v = "rejects"
                   [] i = "endpoints" -> v = {}

(* What the handler does with the value of an item.  After the last lookup *)
(* the rows are built, one per endpoint; the SELECT has no ORDER BY, so    *)
(* the order in which the statement inserts them is not determined.        *)
Use(r, v, hit) ==
    \/ /\ Refuses(pc[r], v)
       /\ Finish(r, "refused", {})
    \/ /\ ~Refuses(pc[r], v)
       /\ pc[r] = "partner"
       /\ Goto(r, "schema")
       /\ local' = [local EXCEPT ![r].waited = 0, ![r].from_cache = hit]
       /\ UNCHANGED answer
    \/ /\ ~Refuses(pc[r], v)
       /\ pc[r] = "schema"
       /\ Goto(r, "endpoints")
       /\ local' = [local EXCEPT ![r].waited = 0]
       /\ UNCHANGED answer
    \/ /\ ~Refuses(pc[r], v)
       /\ pc[r] = "endpoints"
       /\ Goto(r, "insert")
       /\ \E e \in v :
             local' = [local EXCEPT ![r].waited = 0, ![r].plan = v, ![r].next = e]
       /\ UNCHANGED answer

LookupHit(r) ==
    /\ pc[r] \in Items /\ got[r] = None
    /\ Live(local[r].home, pc[r])
    /\ Use(r, cache[local[r].home][pc[r]].value, TRUE)
    /\ UNCHANGED <<admin, cache, got, deliveries, outbox>>

(* cache_get found nothing or deleted an expired entry, and the SELECT has *)
(* read the row.                                                           *)
Select(r) ==
    /\ pc[r] \in Items /\ got[r] = None
    /\ ~Live(local[r].home, pc[r])
    /\ got' = [got EXCEPT ![r] = db[pc[r]]]
    /\ cache' = [cache EXCEPT ![local[r].home][pc[r]] = None]
    /\ UNCHANGED <<admin, pc, local, answer, deliveries, outbox>>

(* Slip: a partner that is not there is looked up again (EveryCallEnds).   *)
StoreRetries(r) ==
    /\ got[r] # None
    /\ got' = [got EXCEPT ![r] = None]
    /\ \/ /\ pc[r] = "partner" /\ got[r] = "missing"
          /\ UNCHANGED <<cache, pc, local, answer>>
       \/ /\ ~(pc[r] = "partner" /\ got[r] = "missing")
          /\ cache' = CacheSet(local[r].home, pc[r], got[r])
          /\ Use(r, got[r], FALSE)
    /\ UNCHANGED <<admin, deliveries, outbox>>

(* The row arrives and is cached, unless there is no such partner. *)
Store(r) ==
    /\ got[r] # None
    /\ cache' = IF pc[r] = "partner" /\ got[r] = "missing" THEN cache
                ELSE CacheSet(local[r].home, pc[r], got[r])
    /\ Use(r, got[r], FALSE)
    /\ got' = [got EXCEPT ![r] = None]
    /\ UNCHANGED <<admin, deliveries, outbox>>

(* Slip: a row's key is built from the whole endpoint list                 *)
(* (OneDeliveryPerEndpoint).                                               *)
ConflictOfPlans(r) ==
    \E d \in deliveries :
        /\ d.key = Key[r]
        /\ local[r].plan = {c.endpoint : c \in {c \in deliveries : c.by = d.by}}

(* UNIQUE (partner_id, idempotency_key), where the key of a row is the     *)
(* caller's key and the endpoint: the INSERT fails on a committed row and  *)
(* waits for another open transaction that has inserted one.               *)
Conflict(r) == \E d \in deliveries : d.key = Key[r] /\ d.endpoint = local[r].next

WaitsFor(r, q) ==
    /\ pc[r] = "insert" /\ q # r
    /\ Key[q] = Key[r] /\ local[r].next \in local[q].inserted

InsertRow(r) ==
    /\ pc[r] = "insert"
    /\ ~Conflict(r)
    /\ \A q \in Requests : ~WaitsFor(r, q)
    /\ LET done == local[r].inserted \cup {local[r].next}
           todo == local[r].plan \ done
       IN  \/ /\ todo = {}
              /\ Goto(r, "commit")
              /\ local' = [local EXCEPT ![r].inserted = done, ![r].next = None]
           \/ /\ \E e \in todo :
                    local' = [local EXCEPT ![r].inserted = done, ![r].next = e]
              /\ UNCHANGED pc
    /\ UNCHANGED <<admin, cache, got, answer, deliveries, outbox>>

(* copy_partner: what the cache holds belongs to no session. *)
Detached(r) == local[r].from_cache

(* IntegrityError.  A partner that was read in this session is expired by  *)
(* the rollback, and reading partner.id for the next query may raise: both *)
(* outcomes are allowed.                                                   *)
LoseRace(r) ==
    /\ pc[r] = "insert"
    /\ Conflict(r)
    /\ \/ /\ Goto(r, "raced")
          /\ local' = [local EXCEPT ![r].inserted = {}, ![r].next = None]
          /\ UNCHANGED answer
       \/ /\ ~Detached(r)
          /\ Finish(r, "error", {})
    /\ UNCHANGED <<admin, cache, got, deliveries, outbox>>

(* Two calls wait for each other: PostgreSQL ends one of them with an      *)
(* error the handler does not catch.                                       *)
Deadlock(r) ==
    /\ \E q \in Requests : WaitsFor(r, q) /\ WaitsFor(q, r)
    /\ Finish(r, "error", {})
    /\ UNCHANGED <<admin, cache, got, deliveries, outbox>>

(* Slip: the answer names the rows the call itself built (AnswersHonest).  *)
AnswerOwnRows(r) ==
    /\ pc[r] = "raced"
    /\ Finish(r, "duplicate",
              {[by |-> r, key |-> Key[r], endpoint |-> e] : e \in local[r].plan})
    /\ UNCHANGED <<admin, cache, got, deliveries, outbox>>

(* fetch_deliveries_by_source_event_id, duplicate_response.                *)
AnswerDuplicate(r) ==
    /\ pc[r] = "raced"
    /\ Finish(r, "duplicate", {d \in deliveries : d.key = Key[r]})
    /\ UNCHANGED <<admin, cache, got, deliveries, outbox>>

Rows(r) == {[by |-> r, key |-> Key[r], endpoint |-> e] : e \in local[r].inserted}

(* Deliveries and outbox rows are committed together.  The answer may be   *)
(* lost on its way.                                                        *)
Commit(r) ==
    /\ pc[r] = "commit"
    /\ deliveries' = deliveries \cup Rows(r)
    /\ outbox' = outbox \cup Rows(r)
    /\ Finish(r, "accepted", Rows(r)) \/ Finish(r, "lost", {})
    /\ UNCHANGED <<admin, cache, got>>

-----------------------------------------------------------------------------
Handle(r) ==
    \/ LookupHit(r) \/ Select(r) \/ Store(r)
    \/ InsertRow(r) \/ LoseRace(r) \/ Deadlock(r)
    \/ AnswerDuplicate(r) \/ Commit(r)

Admin(p) ==
    \/ UpdatePartner(p) \/ CreatePayloadSchema(p)
    \/ \E e \in Endpoints : CreateEndpoint(p, e) \/ UpdateEndpoint(p, e)
    \/ \E i \in Items : Invalidate(p, i)

(* Every call has been answered; the processes go on serving. *)
Quiet ==
    /\ \A r \in Requests : pc[r] = "done"
    /\ UNCHANGED vars

Next ==
    \/ \E r \in Requests : Handle(r)
    \/ \E r \in Requests, p \in Procs : CreateOutboundEvent(r, p) \/ SandboxTestDelivery(r, p)
    \/ \E p \in Procs : Admin(p)
    \/ Tick
    \/ Quiet

Spec == Init /\ [][Next]_vars

(* A handler that can run does run: the event loop and PostgreSQL serve    *)
(* every task.                                                             *)
FairSpec ==
    /\ Spec
    /\ \A r \in Requests : WF_vars(Handle(r))

-----------------------------------------------------------------------------
(* Properties                                                              *)

(* One event never becomes two deliveries to one endpoint, however many    *)
(* calls repeat it, in whatever processes and with whatever endpoint lists *)
(* their caches hold; and each delivery has its outbox row.                *)
OneDeliveryPerEndpoint ==
    /\ outbox = deliveries
    /\ \A d, c \in deliveries : d.key = c.key /\ d.endpoint = c.endpoint => d = c

(* An answer with delivery ids can be relied on: it names at least one     *)
(* delivery, only committed ones of the caller's key; a 202 names exactly  *)
(* those this call created, a 200 only those of other calls (a rolled back *)
(* row is never named).                                                    *)
AnswersHonest ==
    \A r \in Requests : answer[r].code \in {"accepted", "duplicate"} =>
        /\ answer[r].deliveries # {}
        /\ answer[r].deliveries \subseteq {d \in deliveries : d.key = Key[r]}
        /\ answer[r].code = "accepted" =>
              answer[r].deliveries = {d \in deliveries : d.by = r}
        /\ answer[r].code = "duplicate" => \A d \in answer[r].deliveries : d.by # r

(* A suspended partner, a paused endpoint or a new schema is noticed by    *)
(* every API process within the TTL and the time of one SELECT, although   *)
(* invalidation reaches one process only and a SELECT in flight can put    *)
(* the old row back after it.                                              *)
BoundedStaleness ==
    \A p \in Procs, i \in Items :
        Live(p, i) /\ cache[p][i].value # db[i] => age[i] < TTL + Latency

(* The process that made a change and has invalidated its cache serves the *)
(* new value at once; the one exception is an old row put back by a SELECT *)
(* that was in flight.                                                     *)
LocalInvalidation ==
    \A p \in Procs, i \in Items :
        /\ Live(p, i) /\ cache[p][i].value # db[i]
        /\ by[i] = p /\ inval[p][i] = 0
        => cache[p][i].late

(* Every call is answered: the waits of concurrent inserts end, whatever   *)
(* order the rows of two calls are inserted in.                            *)
EveryCallEnds ==
    \A r \in Requests : (pc[r] # "new") ~> (pc[r] = "done")
=============================================================================
