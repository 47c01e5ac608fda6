---------------------------- MODULE InboundIngest ----------------------------
(***************************************************************************)
(* The inbound path from the idempotency check to Kafka: the handler       *)
(* ingest_event (app/api/v1/inbound/events.py), the Redis cache of event   *)
(* ids (idempotency.py), the inbound_events and outbox_events tables and   *)
(* the relay processes (app/workers/outbox_relay.py).                      *)
(*                                                                         *)
(* Requests are calls of one partner; calls with one key are the partner's *)
(* repetitions, at once or later.  They start where PartnerGate has        *)
(* admitted them (headers, signature, API key, rate limit), with the body. *)
(* `events`, `outbox`, `published` and `inbound_published` hold COMMITTED  *)
(* rows.                                                                   *)
(*                                                                         *)
(* A definition headed "Slip:" is a plausible mistake in the definition    *)
(* that follows it; it shows that the named property notices it.           *)
(***************************************************************************)
EXTENDS Naturals, FiniteSets

CONSTANTS Requests,         \* calls of POST /inbound/v1/{slug}/events
          Keys,             \* Idempotency-Key values
          Key,              \* Key[r]: the Idempotency-Key r carries
          Relays,           \* hub-outbox-relay processes
          BatchSize,        \* limit of publish_unpublished_batch
          None,             \* "no event", "no id"
          MaxSendFailures,  \* bound: refused sends per outbox row
          MaxCrashes        \* bound: relay crashes

ASSUME NoneAssumption == None \notin Requests
ASSUME KeyAssumption == Key \in [Requests -> Keys]
ASSUME BatchAssumption == BatchSize \in Nat \ {0}
ASSUME BoundsAssumption == MaxSendFailures \in Nat /\ MaxCrashes \in Nat

VARIABLES
    pc,       \* pc[r]: where the handler of r stands
    answer,   \* answer[r]: what the caller of r was answered
    events,   \* inbound_events; an event's id is the request that made it
    cache,    \* cache[k]: the event id Redis holds for the key, or None
    outbox,   \* ids of the events that have an outbox_events row
    published,          \* those whose outbox row has published_at
    inbound_published,  \* those whose inbound_events row has published_at
    publish_attempts,   \* publish_attempts[i]: refused sends counted on the row
    batch,    \* batch[x]: rows relay x has locked and not yet tried
    sent,     \* sent[x]: rows x has sent and marked in its open transaction
    failed,   \* failed[x]: rows x has locked and could not send
    topic,    \* ids of the events with a message on hub.inbound.*
    crashes   \* relay crashes so far

api   == <<pc, answer>>
relay == <<batch, sent, failed>>
rows  == <<events, outbox, published, inbound_published>>
vars  == <<api, rows, cache, publish_attempts, relay, topic, crashes>>

Stages  == {"new", "lookup", "insert", "commit", "fill", "done"}
Codes   == {"none", "accepted", "duplicate", "refused", "error", "lost"}
Answer  == [code: Codes, id: Requests \cup {None}]
NoAnswer == [code |-> "none", id |-> None]
Event   == [id: Requests, key: Keys]

TypeOK ==
    /\ pc \in [Requests -> Stages]
    /\ answer \in [Requests -> Answer]
    /\ events \subseteq Event
    /\ cache \in [Keys -> Requests \cup {None}]
    /\ outbox \subseteq Requests
    /\ published \subseteq outbox
    /\ inbound_published \subseteq Requests
    /\ publish_attempts \in [Requests -> Nat]
    /\ batch \in [Relays -> SUBSET outbox]
    /\ sent \in [Relays -> SUBSET outbox]
    /\ failed \in [Relays -> SUBSET outbox]
    /\ topic \subseteq Requests
    /\ crashes \in Nat

Init ==
    /\ pc = [r \in Requests |-> "new"]
    /\ answer = [r \in Requests |-> NoAnswer]
    /\ events = {}
    /\ cache = [k \in Keys |-> None]
    /\ outbox = {}
    /\ published = {}
    /\ inbound_published = {}
    /\ publish_attempts = [r \in Requests |-> 0]
    /\ batch = [x \in Relays |-> {}]
    /\ sent = [x \in Relays |-> {}]
    /\ failed = [x \in Relays |-> {}]
    /\ topic = {}
    /\ crashes = 0

Goto(r, stage) == pc' = [pc EXCEPT ![r] = stage]

Finish(r, code, id) ==
    /\ Goto(r, "done")
    /\ answer' = [answer EXCEPT ![r] = [code |-> code, id |-> id]]

-----------------------------------------------------------------------------
(* The handler                                                             *)

(* _parse_event_body, or validate_payload after it, ends the request. *)
Refuse(r) ==
    /\ pc[r] = "new"
    /\ Finish(r, "refused", None)
    /\ UNCHANGED <<rows, cache, publish_attempts, relay, topic, crashes>>

Admit(r) ==
    /\ pc[r] = "new"
    /\ Goto(r, "lookup")
    /\ UNCHANGED <<answer, rows, cache, publish_attempts, relay, topic, crashes>>

(* get_cached_event_id.  A RedisError is not caught: the caller gets a 500. *)
LookupHit(r) ==
    /\ pc[r] = "lookup"
    /\ cache[Key[r]] # None
    /\ Finish(r, "duplicate", cache[Key[r]])
    /\ UNCHANGED <<rows, cache, publish_attempts, relay, topic, crashes>>

LookupMiss(r) ==
    /\ pc[r] = "lookup"
    /\ cache[Key[r]] = None
    /\ Goto(r, "insert")
    /\ UNCHANGED <<answer, rows, cache, publish_attempts, relay, topic, crashes>>

LookupError(r) ==
    /\ pc[r] = "lookup"
    /\ Finish(r, "error", None)
    /\ UNCHANGED <<rows, cache, publish_attempts, relay, topic, crashes>>

(* UNIQUE (partner_id, idempotency_key): the INSERT waits for another open *)
(* transaction that has inserted the key, and fails when one committed.    *)
Recorded(k)  == \E e \in events : e.key = k
Inserting(k) == \E q \in Requests : pc[q] = "commit" /\ Key[q] = k

(* Slip: no UNIQUE constraint on the table (AnswersAgree).                 *)
InsertAlways(r) ==
    /\ pc[r] = "insert"
    /\ Goto(r, "commit")
    /\ UNCHANGED <<answer, rows, cache, publish_attempts, relay, topic, crashes>>

(* Slip: the id is cached before the event is committed (IngestSpec).      *)
InsertCaches(r) ==
    /\ pc[r] = "insert"
    /\ ~Inserting(Key[r])
    /\ ~Recorded(Key[r])
    /\ Goto(r, "commit")
    /\ cache' = [cache EXCEPT ![Key[r]] = r]
    /\ UNCHANGED <<answer, rows, publish_attempts, relay, topic, crashes>>

Insert(r) ==
    /\ pc[r] = "insert"
    /\ ~Inserting(Key[r])
    /\ ~Recorded(Key[r])
    /\ Goto(r, "commit")
    /\ UNCHANGED <<answer, rows, cache, publish_attempts, relay, topic, crashes>>

(* Slip: the loser answers 202 with the id of its own row, which the       *)
(* rollback took back (AcceptedOnce).                                      *)
LoseRaceAccepts(r) ==
    /\ pc[r] = "insert"
    /\ ~Inserting(Key[r])
    /\ Recorded(Key[r])
    /\ Finish(r, "accepted", r)
    /\ UNCHANGED <<rows, cache, publish_attempts, relay, topic, crashes>>

(* IntegrityError: rollback, then the winner's row is fetched and its id   *)
(* answered.  The rollback has expired `partner`, and reading partner.id   *)
(* for that fetch may raise instead (a lazy load outside the session's     *)
(* greenlet): both outcomes are allowed.                                   *)
LoseRace(r) ==
    /\ pc[r] = "insert"
    /\ ~Inserting(Key[r])
    /\ Recorded(Key[r])
    /\ \/ \E e \in events : e.key = Key[r] /\ Finish(r, "duplicate", e.id)
       \/ Finish(r, "error", None)
    /\ UNCHANGED <<rows, cache, publish_attempts, relay, topic, crashes>>

(* Slip: the outbox row is left out of the transaction (NothingLost).      *)
CommitNoOutbox(r) ==
    /\ pc[r] = "commit"
    /\ events' = events \cup {[id |-> r, key |-> Key[r]]}
    /\ Goto(r, "fill")
    /\ UNCHANGED <<answer, outbox, published, inbound_published, cache, publish_attempts,
                   relay, topic, crashes>>

(* The event and its outbox row are committed together. *)
Commit(r) ==
    /\ pc[r] = "commit"
    /\ events' = events \cup {[id |-> r, key |-> Key[r]]}
    /\ outbox' = outbox \cup {r}
    /\ Goto(r, "fill")
    /\ UNCHANGED <<answer, published, inbound_published, cache, publish_attempts,
                   relay, topic, crashes>>

(* Slip: the key is cached in place of the id (TypeOK).                    *)
FillWithKey(r) ==
    /\ pc[r] = "fill"
    /\ cache' = [cache EXCEPT ![Key[r]] = Key[r]]
    /\ Finish(r, "accepted", r)
    /\ UNCHANGED <<rows, publish_attempts, relay, topic, crashes>>

(* _finalize_accepted_inbound: the id is cached, then 202. *)
Fill(r) ==
    /\ pc[r] = "fill"
    /\ cache' = [cache EXCEPT ![Key[r]] = r]
    /\ Finish(r, "accepted", r)
    /\ UNCHANGED <<rows, publish_attempts, relay, topic, crashes>>

(* The SET raises: the event is recorded and the caller gets a 500. *)
FillError(r) ==
    /\ pc[r] = "fill"
    /\ Finish(r, "error", None)
    /\ UNCHANGED <<rows, cache, publish_attempts, relay, topic, crashes>>

(* The API process ends, or the caller stops waiting: an open transaction  *)
(* is rolled back and no answer arrives.                                   *)
Abandon(r) ==
    /\ pc[r] \notin {"new", "done"}
    /\ Finish(r, "lost", None)
    /\ UNCHANGED <<rows, cache, publish_attempts, relay, topic, crashes>>

(* HUB_IDEMPOTENCY_TTL_HOURS pass, or Redis loses the key. *)
Expire(k) ==
    /\ cache[k] # None
    /\ cache' = [cache EXCEPT ![k] = None]
    /\ UNCHANGED <<api, rows, publish_attempts, relay, topic, crashes>>

-----------------------------------------------------------------------------
(* The relay                                                               *)

Locks(x) == batch[x] \cup sent[x] \cup failed[x]
Idle(x)  == Locks(x) = {}

(* Slip: rows that failed once are not selected again                      *)
(* (EveryEventPublished).                                                  *)
UnlockedFresh ==
    {i \in (outbox \ published) \ UNION {Locks(x) : x \in Relays} : publish_attempts[i] = 0}

(* SELECT ... WHERE published_at IS NULL FOR UPDATE SKIP LOCKED. *)
Unlocked == (outbox \ published) \ UNION {Locks(x) : x \in Relays}

(* ... ORDER BY created_at LIMIT BatchSize.  Which rows come first is left *)
(* open: created_at is taken before the commit that makes a row visible.   *)
Batches ==
    {b \in SUBSET Unlocked :
        \/ b = Unlocked /\ Cardinality(b) <= BatchSize
        \/ Cardinality(b) = BatchSize}

RelaySelect(x) ==
    /\ Idle(x)
    /\ Unlocked # {}
    /\ \E b \in Batches : batch' = [batch EXCEPT ![x] = b]
    /\ UNCHANGED <<api, rows, cache, publish_attempts, sent, failed, topic, crashes>>

(* send_and_wait returned: published_at is set on both rows, uncommitted. *)
RelaySend(x, i) ==
    /\ i \in batch[x]
    /\ batch' = [batch EXCEPT ![x] = @ \ {i}]
    /\ sent' = [sent EXCEPT ![x] = @ \cup {i}]
    /\ topic' = topic \cup {i}
    /\ UNCHANGED <<api, rows, cache, publish_attempts, failed, crashes>>

(* Slip: published_at is set although the send failed                      *)
(* (PublishedMeansSent).                                                   *)
RelaySendFailsMarked(x, i) ==
    /\ i \in batch[x]
    /\ publish_attempts[i] < MaxSendFailures
    /\ batch' = [batch EXCEPT ![x] = @ \ {i}]
    /\ sent' = [sent EXCEPT ![x] = @ \cup {i}]
    /\ UNCHANGED <<api, rows, cache, publish_attempts, failed, topic, crashes>>

(* send_and_wait raised: publish_attempts is counted (when the batch       *)
(* commits) and the loop goes on with the next row.                        *)
RelaySendFails(x, i) ==
    /\ i \in batch[x]
    /\ publish_attempts[i] < MaxSendFailures
    /\ batch' = [batch EXCEPT ![x] = @ \ {i}]
    /\ failed' = [failed EXCEPT ![x] = @ \cup {i}]
    /\ UNCHANGED <<api, rows, cache, publish_attempts, sent, topic, crashes>>

(* _mark_inbound_published, for the rows of a committed batch. *)
MarkInboundPublished(x) == inbound_published \cup sent[x]

RelayCommit(x) ==
    /\ ~Idle(x)
    /\ batch[x] = {}
    /\ published' = published \cup sent[x]
    /\ inbound_published' = MarkInboundPublished(x)
    /\ publish_attempts' =
          [i \in Requests |-> publish_attempts[i] + IF i \in failed[x] THEN 1 ELSE 0]
    /\ sent' = [sent EXCEPT ![x] = {}]
    /\ failed' = [failed EXCEPT ![x] = {}]
    /\ UNCHANGED <<api, events, outbox, cache, batch, topic, crashes>>

(* The relay ends with its transaction open; a new one starts. *)
RelayCrash(x) ==
    /\ ~Idle(x)
    /\ crashes < MaxCrashes
    /\ crashes' = crashes + 1
    /\ batch' = [batch EXCEPT ![x] = {}]
    /\ sent' = [sent EXCEPT ![x] = {}]
    /\ failed' = [failed EXCEPT ![x] = {}]
    /\ UNCHANGED <<api, rows, cache, publish_attempts, topic>>

-----------------------------------------------------------------------------
Handle(r) ==
    \/ Refuse(r) \/ Admit(r)
    \/ LookupHit(r) \/ LookupMiss(r) \/ LookupError(r)
    \/ Insert(r) \/ LoseRace(r) \/ Commit(r)
    \/ Fill(r) \/ FillError(r) \/ Abandon(r)

Relay(x) ==
    \/ RelaySelect(x) \/ RelayCommit(x) \/ RelayCrash(x)
    \/ \E i \in Requests : RelaySend(x, i) \/ RelaySendFails(x, i)

(* Every call has ended; the relays go on polling. *)
Quiet ==
    /\ \A r \in Requests : pc[r] = "done"
    /\ UNCHANGED vars

Next ==
    \/ \E r \in Requests : Handle(r)
    \/ \E k \in Keys : Expire(k)
    \/ \E x \in Relays : Relay(x)
    \/ Quiet

Spec == Init /\ [][Next]_vars

(* The relay loop runs for ever and is restarted when it ends.  Nothing is *)
(* assumed of the callers and the handlers.                                *)
FairSpec ==
    /\ Spec
    /\ \A x \in Relays : WF_vars(Relay(x))

-----------------------------------------------------------------------------
(* Properties                                                              *)

Named(r) == answer[r].code \in {"accepted", "duplicate"}

(* Whoever is answered with an event id is answered with the id of the one *)
(* committed event of its key: through cache hits, lost races, cache       *)
(* expiry, Redis errors and crashes, two callers of a key never learn two  *)
(* ids (ingest_event, lines 388 to 462).                                   *)
AnswersAgree ==
    \A r \in Requests : Named(r) =>
        /\ [id |-> answer[r].id, key |-> Key[r]] \in events
        /\ \A q \in Requests :
              Named(q) /\ Key[q] = Key[r] => answer[q].id = answer[r].id

(* A 202 names the event that this very call recorded, and every other     *)
(* caller of the key that learns an id is told it is a duplicate of that   *)
(* event: a key is accepted once.                                          *)
AcceptedOnce ==
    \A r \in Requests : answer[r].code = "accepted" =>
        /\ answer[r].id = r
        /\ [id |-> r, key |-> Key[r]] \in events
        /\ \A q \in Requests \ {r} :
              Named(q) /\ Key[q] = Key[r] => answer[q] = [code |-> "duplicate", id |-> r]

(* A recorded event is never lost between PostgreSQL and Kafka: until its  *)
(* message is on the topic there is an unpublished outbox row for it, even *)
(* when its caller was told 500 or nothing.  Nothing reaches the topic     *)
(* that was not recorded.                                                  *)
NothingLost ==
    /\ \A e \in events : e.id \in topic \/ e.id \in outbox \ published
    /\ \A i \in topic : \E e \in events : e.id = i

(* inbound_events.published_at, which operators read, is set on exactly    *)
(* the events whose outbox row is published, and never before a message is *)
(* on the topic, whatever relay crashed after a send.                      *)
PublishedMeansSent ==
    /\ inbound_published = published
    /\ published \subseteq topic

(* The handler and the relays together keep the promise of                 *)
(* IdempotentIngest.                                                       *)
Ingest == INSTANCE IdempotentIngest
             WITH log <- events, told <- [r \in Requests |-> answer[r].id]
IngestSpec == Ingest!Spec

(* Every recorded event is published in the end, although relays crash,    *)
(* sends fail and the caller may never have got an answer.                 *)
EveryEventPublished ==
    \A r \in Requests : (r \in outbox) ~> (r \in published)
=============================================================================
