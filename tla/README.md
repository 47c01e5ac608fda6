# A TLA+ verification of the B2B partner integration hub

This directory holds TLA+ modules that model the hub's core, TLC configurations
that check them on small instances, and TLAPS proofs of the main safety
properties for every instance. `PROJECT.json` maps each definition to the lines
it models and lists components, runs, hazards, findings and theorems.

To check: `tlc -config <run>.cfg <module>` for each run listed below,
`tlapm <module>` for each module whose name ends in `Proofs`.

## 1. The system

The hub sits between an internal shop and its partners. Outbound, an internal
event becomes one *delivery* per endpoint of the partner, which workers POST to
the partner until it accepts, refuses for good, or the attempts are used up.
Inbound, a partner's signed webhook becomes one event on Kafka.

| Part | Keeps | Operations | Modelled in |
|---|---|---|---|
| Outbound enqueue (`outbound_enqueue.py`, `accept_path_cache.py`) | `deliveries`, `outbox_events`, a per-process cache | validate, fan out, insert deliveries and outbox rows in one statement; admin handlers change and invalidate | `OutboundEnqueue` |
| Inbound gate (`inbound/events.py`, `hmac_service.py`, `api_keys.py`) | `partners`, `partner_api_keys` | timestamp, signature, API key, rate limit | `PartnerGate` |
| Inbound ingest (`inbound/events.py`, `idempotency.py`) | `inbound_events`, outbox, a Redis cache | look up, insert, commit, cache | `InboundIngest` |
| Outbox relay (`outbox_relay.py`) | `published_at` of two tables | lock a batch, send it to Kafka, commit | `InboundIngest`, `OutboundDelivery` |
| Outbound worker (`outbound_consumer.py`, `outbound_processor.py`) | `deliveries`, `delivery_attempts`, `dead_letters`, consumer offsets | take a message, load, gate, POST, commit, publish, acknowledge | `OutboundDelivery` |
| Status machine, SLA (`status_machine.py`, `sla_service.py`) | `status`, `first_success_at`, `sla_breached` | `transition`, `apply_first_success` | `DeliveryLifecycle`, `OutboundDelivery` |
| Replay (`replay_service.py`, Celery `replay.py`, admin API) | `deliveries`, outbox, audit log | replay one, many, or stale failed deliveries | `ReplayControl`, `OutboundDelivery` |
| Replay approvals (`replay_approval_service.py`) | `replay_approvals` | request, approve, reject | `ReplayControl` |
| Circuit breaker (`circuit_breaker.py`) | four Redis keys per partner | `allow_outbound`, `record_failure`, `record_success` | `CircuitBreaker` |
| Rate limiter (`rate_limit.py`) | two Redis keys per partner | token bucket | `PartnerGate` |
| Signing secrets (`signing_secrets.py`) | a chain of rows per partner | load, rotate | `PartnerGate`; readable or not: `OutboundDelivery` |
| Retry policy (`backoff.py`, `retry_topics.py`, `delivery_attempt.py`) | nothing | class of an answer, delay, topic tier | the class: `OutboundDelivery` |
| Analytics, listings, roles, observability, UI | nothing of their own | one request at a time | no, see section 9 |

How they interact: enqueue, replay and ingest write outbox rows in the
transaction of the row they announce; the relay turns them into messages of
`hub.outbound.pending` and `hub.inbound.*`; workers of one consumer group
consume `pending` and the retry topics, ask the circuit breaker before a POST,
tell it the result, and publish directly (not through the outbox) to
`hub.outbound.retry.*`, `hub.outbound.dlq` and `hub.integration.sla_breached`.

What is hard in it:

* a worker reads its delivery **without a lock**, gets the lock when the secret's
  SELECT autoflushes `status = DELIVERING`, and holds it across the HTTP call:
  what it decides on may be stale;
* delivery of messages is at least once: the relay, a crash between commit and
  acknowledgement, and a rebalance all produce duplicates;
* commit, publish and acknowledgement are three steps, and the process may end
  between any two;
* replays change the row and add a message while old messages may be around;
* the breaker's state is four keys, the bucket's two, changed by single Redis
  commands;
* API processes keep caches that an admin change in another process does not
  reach, and a SELECT in flight can undo an invalidation;
* idempotency rests on a UNIQUE constraint behind a cache: whoever loses the
  race continues after a rollback, and the caller may never see the answer;
* approvals, replays and rotations read a row, decide, and write later without
  a lock or a condition.

What makes each part correct: the attempts of a delivery form a gapless history
with at most one definitive answer; a settled status is backed by its record;
events follow commits; an unsettled delivery always has something that will
bring it back; a message is acknowledged only by whoever handled it; every
accepted delivery settles; a circuit pauses and resumes. A key names one event
or one delivery per endpoint, and everyone who asks is told the same; what is
recorded is published; a stale value is served for a bounded time; a verdict is
final; a single rotation turns nobody away; a bucket keeps its budget.

## 2. Modules

```
AttemptLedger       abstract: numbered attempts, one definitive answer
DeliveryLifecycle   abstract: the transition table on committed rows
OutboundDelivery    the pipeline; implements AttemptLedger, and departs from
                    DeliveryLifecycle only where a read was stale
  MCOutboundDelivery
  OutboundDeliveryProofs -> OutboundHistoryProofs
                         -> OutboundCoverageProofs
CircuitBreaker      the breaker, one Redis command per action
  MCCircuitBreaker
  CircuitBreakerProofs
IdempotentIngest    abstract: one event per key, one id for all its callers
InboundIngest       handler, cache and relays; implements the one above
  MCInboundIngest
  InboundIngestProofs
OutboundEnqueue     accept path, per-process caches, admin changes
  MCOutboundEnqueue
  OutboundEnqueueProofs
ReplayControl       single, approved, bulk and scheduled replays
  MCReplayControl
  ReplayControlProofs
PartnerGate         signature, rotation, API key and token bucket
  MCPartnerGate
  PartnerGateProofs
```

### OutboundDelivery

State. `status`, `attempt_count`, `first_success`, `sla_breached`, `attempts`,
`deadLetters` are the **committed** rows; DELIVERING never appears because the
transaction that writes it overwrites it before committing. `first_success[d]`
is the number of the attempt whose time `first_success_at` holds (0: NULL).
`unpublished`/`sent` are the outbox rows and the relay's open batch. `queue[t]`
is the partition from the committed offset on (one partition per topic: a
delivery's messages share a key, so per-partition order is all it can see),
`owner` its assignment, `prefetched` what a worker still has in its batch from a
partition it lost. `pc`, `job`, `src`, `seen`, `verdict`, `fenced` are a worker's
locals; `seen` holds the columns its session loaded.

Actions. `PersistDelivery` (accept), `RelaySend`/`RelayCommit`/`RelayCrash`,
then, in the order of `process_outbound_message`: `Take` (with the wait for
`scheduled_at`), `FetchContext` (unlocked read, skip), `LoadSecret` (autoflush,
row lock, missing secret), `AllowOutbound`/`RefuseOutbound`, `PostOutbound`
or `PostRaises` (an httpx error that `post_outbound` does not catch), one of `CommitDelivered`, `CommitRetrying`, `CommitFailed`, `CommitRejected`
(IntegrityError), then `PublishRetry`/`PublishDlq`/`PublishSla`, then
`CommitOffset` or `CommitOffsetRefused`. `Crash` ends a worker anywhere,
`Rebalance` moves a partition even in the middle of a batch,
`ReplayRead`/`ReplayCommit` are the two halves of `replay_delivery`, whose UPDATE
waits for the row lock as well. The session writes only columns that changed,
which is why a poison or successful attempt leaves the committed
`attempt_count` alone while a retryable one overwrites it with a value computed
from `seen`.

Abstractions. An HTTP answer is its class, any class at any time; the retry
topic is any of them; whether a success is late is a free choice; the circuit
is a yes/no answer; payloads, keys, audit and metrics are left out; the
endpoint and partner rows do not change.

### CircuitBreaker

One partner. `state`, `opened_at`, `probe`, `failures` with its TTL `window` are
the Redis keys, and `pc[w]` names the next command of worker `w`; times are
ages or remaining lifetimes that saturate where the code no longer tells them
apart; `failures` saturates one above the threshold. `RedisFails` follows each function's `except RedisError`: `allow_outbound`
lets the request through, an unreadable state in `record_failure` counts as
closed (`get_circuit_state` catches it), anything else skips the rest. `Answer`
is the POST; a poison answer records nothing. The threshold is any number from
1 on (0 acts like 1): with 1 the INCR that sets the window also opens the
circuit. `TimerLost` names the state an interrupted opening leaves behind: OPEN
without `opened_at` and nobody about to set it.

### InboundIngest and IdempotentIngest

One partner's calls after the gate. `pc[r]` is the next await of `ingest_event`,
`events`, `outbox`, `published`, `inbound_published` are committed rows (an event is
named by the call that made it), `cache` the Redis keys, `batch`/`sent`/`failed`
what a relay holds under `FOR UPDATE SKIP LOCKED`. `Insert` is the flush: it waits
while another open transaction holds the key. `LoseRace` is the IntegrityError;
whether the handler then reads the expired `partner.id` without an error depends
on the session, so both outcomes are steps. `LookupError` and `FillError` are
uncaught Redis errors, `Abandon` a process or caller that goes away anywhere.
Relays take up to `BatchSize` unlocked rows, in any order (`Batches`; the code's
ORDER BY has a LIMIT of 100, and rows skipped while locked make every order
possible), count refused sends, crash with their transaction open, and mark
both tables together. `IdempotentIngest` knows a log of (id, key) pairs, what each
caller was told and what is published.

### OutboundEnqueue

One partner, one event type. `db` holds the rows behind the three cached lookups
(partner, schema, endpoint list), `cache[p]` the entries of process `p` with their
remaining time, `inval` the admin handlers between commit and invalidation, `got`
a SELECT's result on its way to the cache. Rows are inserted one at a time, in
any order, since the SELECT has no ORDER BY: the wait for another transaction's
key, the lost race and the deadlock come from that. A missing partner is not
cached; an expired entry is deleted by the next `cache_get`; `invalidate_partner`
finds the endpoint entries through the cached partner, expired or not. `age`,
`by` and `late` are history.

### ReplayControl

Requests and the Celery task are sessions with a `job`. A session reads FAILED
once and later commits REPLAYING unconditionally. Approve is a read, a replay
that commits, and a second commit; reject a read and a commit; bulk and
scheduled replays walk a list and skip open circuits (scheduled: any circuit
that is not closed) and rows the rate limit refuses. A scheduled batch
(`StaleBatches`) is the oldest `BatchLimit` rows of `StaleRows` by `updated_at`, which
while a row is FAILED is the moment it failed (`FailedAt`); rows of the same
moment come in any order. Everything starts FAILED. The surroundings are free:
`Worker` is any commit of any worker at any moment, RETRYING or DELIVERED, stale
ones included (a second FAILED cannot be committed, `FailsOnce`); `CircuitMoves`
any change of a circuit; the rate limit refuses when it likes (`SkipRow`); a
session ends anywhere, as often as it likes (`Crash`). So what is shown holds
whatever the pipeline does. `replays[d]` counts the audit and outbox rows a
replay writes; `overlapped` and `contested` record where two sessions held the
same row, `halfway` the approvals whose session ended between its two commits.

### PartnerGate

One partner. The handler's checks in their order: header, partner, timestamp,
presence and validity of the signature (two SELECTs), API key, then the four
Redis commands of `allow_request` with a RedisError at each. Time is in ticks and
tokens in parts, so that the arithmetic of the floats is exact; `get_now`'s whole
seconds are `Now`. A rotation reads and commits; it is taken to be shorter than
the overlap, which is counted in hours. The partner starts with a row, as the
migration and `create_partner` leave it, or with the column only.
Left out: `rate_limit_rps` does not change, every stored secret decrypts,
`revoked_at` of an API key is never set (no code sets it), Redis does not lose
the bucket's keys.

## 3. Runs

| Run | Instance | Shows |
|---|---|---|
| `outbound_safety` | 1 delivery, 2 workers, 1 replayer, 1 retry topic, 2 attempts, 1 crash, 1 replay, 1 rebalance, any number of deferrals and of POSTs that raise; 1.5 million states | the first nine properties of section 4 |
| `outbound_progress` | 1 delivery, 1 worker, 2 replayers, 2 replays, 1 crash; 110 thousand states | `EverySettles`; `LedgerSpec` with overlapping replays |
| `circuit_breaker` | 2 workers, threshold, pause and window 2, 2 faults | the four breaker properties |
| `inbound_ingest` | 3 calls, 2 keys, 2 relays with batches of 1, 1 refused send per row, 1 relay crash; 190 thousand states | the seven inbound properties |
| `outbound_enqueue` | 2 calls of one key, 2 processes, 2 endpoints, TTL and latency 1, 1 change, a partner with two endpoints, or none; 430 thousand states | the six accept-path properties |
| `replay_control` | 2 deliveries of 2 partners, 2 administrators, the task with batches of 1, 1 approval; 440 thousand states | the five replay properties |
| `partner_gate` | 2 calls, 2 rotations, 1 key that expires, 2 ticks a second, 1 rps, 1 fault; 1.9 million states | the five gate properties |
| `replay_blocks_partition` | 2 deliveries, 1 worker, 1 replay | violates `PartitionNotBlocked` |
| `dlq_event_lost` | 1 delivery, 1 worker, 1 crash | violates `DlqAnnounced` |
| `stale_worker_overwrites` | 1 delivery, 2 workers, 1 crash | violates `LifecycleSpec` |
| `circuit_stuck_open` | 2 workers, 1 fault | violates `PauseEnds` |
| `rotation_revokes_early` | 1 call, 2 rotations | violates `PreviousHonoured` |

The bounds: deliveries touch each other only by sharing a partition, so one is
enough except where blocking is the question. Two workers give every race on
one row, because the row lock serialises the rest. Two attempts give a retry
and an exhaustion; one of each fault, alone and combined with the others,
gives duplicates (relay or worker crash), lost ownership (rebalance) and a
replay of every way to fail; two replays that overlap are in `outbound_progress`.
Deferrals by the circuit and POSTs that raise are not counted, in the code or
in the model. The proofs of section 6 then drop
all of these bounds for the safety properties. For the breaker, threshold 2 is
the first value at which counting and opening are different calls, and two
workers let a success and a failure interleave with a probe (the invariants are
proved for any number and any threshold). Three calls
over two keys give a race, a later repetition and an unrelated neighbour; two
relays give SKIP LOCKED something to skip. Two processes with two endpoints and
one change give caches that disagree by one endpoint, which is how two calls of
one event come to hold different lists (disjoint lists, which take two changes,
are left to the proofs). Two administrators and
the task race pairwise on each row, and with a batch of one a failure of one
partner keeps that of the other out, which is how the limit bites. Two rotations are what it takes to revoke a previous secret, two
calls what it takes to tear a bucket, and three ticks cross the end of an
overlap, of a key and of a second. Symmetry is used in runs without liveness
only. The outbound configurations say
`CHECK_DEADLOCK FALSE` because the pipeline rests when everything is settled;
the breaker's clock never rests.

## 4. Properties

* `AcksOwnMessage`: a worker that still owns its partition acknowledges exactly
  the message it handled.
* `OneSenderPerDelivery`: the autoflushed UPDATE keeps two workers from posting
  one delivery at the same time.
* `SettledIsRecorded`, `AttemptBudget`, `EventsFollowCommits`: what the rows and
  topics say about each other, through replays, resets and stale workers.
* `NoLostDelivery`: an unsettled delivery has an outbox row to send or an
  unacknowledged message that will be handled. It is claimed until a partition
  moves: after a rebalance a stale worker can move a settled delivery back to
  RETRYING and end before it publishes, and then nothing brings it back.
* `LedgerSpec`: the pipeline implements `AttemptLedger`.
* `FailsOnce`: a delivery commits FAILED once in its life: the first dead letter
  stays, and a second cannot be inserted. `ReplayControl` builds on it.
* `LifecycleSpec`: committed statuses follow `_VALID_TRANSITIONS`, where a
  transaction may take two edges through DELIVERING. It does not hold of the
  code: not with two workers (section 5), and not with one worker and two
  overlapping replays, the second of which writes REPLAYING over what the
  worker has done meanwhile. What holds is `OffTableNeedsStaleRead`, section 6.
* `EverySettles`: an accepted delivery is delivered or dead-lettered unless some
  delivery was replayed, provided the circuit does not refuse for ever and POSTs
  do not raise for ever.
* `OpenHasTimer`, `WindowHasEnd`, `PauseEndsWithTimer`: section 2; the first two are
  claimed while no fault has happened, the third, with faults, unless the timer
  is lost.
* `AnswersAgree`, `AcceptedOnce`: all who are told an id for a key are told that
  of its one committed event; a 202 names the event its own call committed, and
  every other caller of that key who is told an id is told this one, as a
  duplicate.
* `NothingLost`, `PublishedMeansSent`, `EveryEventPublished`: a committed event has
  an outbox row to send or a message, both tables' `published_at` agree and come
  after the message, and the message comes, even when the caller saw a 500.
* `IngestSpec`: handler and relays implement `IdempotentIngest`.
* `OneDeliveryPerEndpoint`, `AnswersHonest`: with whatever endpoint lists the
  callers' caches hold, a key has one delivery per endpoint and answers name
  committed rows only.
* `BoundedStaleness`: no process serves a value that was replaced TTL plus one
  SELECT ago. The SELECT is needed: one in flight puts the old row back.
  `LocalInvalidation` says that this is the only way the changing process itself
  can serve it.
* `EveryCallEnds`: lock waits and deadlocks of inserts end.
* `ReplayedOnce`: a failed delivery is replayed a second time only if two sessions
  had read it as FAILED at once. What overlapping replays do to the history is
  `LedgerSpec` of the pipeline.
* `ApprovedWasReplayed`, `OneVerdict`: an approved approval has replayed. One that no
  two sessions were deciding at once has no verdict in the audit log but its
  row's, and if it is rejected although it has replayed, its approving session
  ended between its two commits; such an approval can never be approved.
* `BacklogReplayed`: the part of `spec.md`'s J6 that the scheduled task is
  responsible for: a failed delivery of a partner with auto replay leaves FAILED,
  provided the circuits of all such partners close for good and the rate limit
  does not refuse the task for ever. Neither is the task's to bring about.
* `AdmittedWasEntitled`, `RefusalJustified`: whoever passes had signed with a secret
  in force on arrival (as the code sees it), and whoever had is refused only if a
  further rotation has revoked the secret, or it never had a row: these are the
  two ways the code refuses, the first of which the documents rule out
  (`PreviousHonoured`, section 5). The second is about the step that refuses: later, a rotation that read its primary long ago may demote the
  revoked secret once more and give it a new window.
* `RotationKeepsService`: while rotations do not overlap there is one secret to
  sign with, at most one older one in force, and no call fails.
* `Budget`: while checks do not overlap and none stops half-way, admitted calls
  stay within burst and refill.

Definitions headed *Slip* are plausible mistakes; each shows that one property
would notice it (`mutants` in `PROJECT.json`).

### Fairness

`FairSpec` of `OutboundDelivery` has weak fairness for the relay and for each
worker, which run in endless loops under `restart: unless-stopped`, and strong
fairness for taking a message from each partition a worker owns, since `getmany`
rotates over partitions. Nothing is assumed of operators, crashes or rebalances.
A retryable answer may come every time: the attempt limit ends it. A refused
circuit and a POST that raises use up no attempt, so that either may go on for
ever; `EverySettles` and `PartitionNotBlocked` therefore have as explicit hypotheses
that a send is let through (`CircuitRelents`) and answered (`PartnerAnswers`) if it
is tried again and again. The code does not guarantee them: `circuit_stuck_open`
is a circuit that refuses for ever.
The breaker's `FairSpec` lets time pass and workers go on; asking again is
justified because a refused delivery returns through a retry topic.
`InboundIngest` assumes only that relays run, which their loop and restart policy
give; `OutboundEnqueue` that a handler that can run does (event loop and
PostgreSQL); `ReplayControl` that Celery beat ticks and time passes, with the
hypotheses of `BacklogReplayed` in the property itself. Callers, administrators and
handlers of the inbound path owe nothing.

## 5. Disagreements between code and documents

* **A replayed delivery can block its partition** (`replay_blocks_partition`).
  `dead_letters.delivery_id` is unique and the first dead letter stays, so the
  second terminal failure of a delivery raises IntegrityError in
  `_mark_failed_dlq`; likewise an attempt after a poison answer or a counter
  reset reuses an attempt number. Nothing catches it: the worker ends, restarts,
  takes the same message, posts to the partner once more and ends again.
  `spec.md:560` says the partition is not blocked.
* **The DLQ event can be lost** (`dlq_event_lost`): a process that ends between
  the commit and `publish_outbound_dlq` leaves a FAILED delivery whose message is
  skipped on redelivery (`spec.md:280`, ADR-002).
* **A stale worker takes a settled delivery back** (`stale_worker_overwrites`):
  the transition is validated against the status loaded before the lock. The
  shortest case is a duplicate message and an open circuit, which writes no
  attempt row and so meets no UNIQUE constraint (`spec.md:903` to `913`).
* **A circuit can stay open for ever** (`circuit_stuck_open`): a Redis error or
  a crash between `SET state OPEN` and `SET opened_at`; an OPEN state without
  `opened_at` is reported OPEN without end (ADR-005).
* **A second rotation revokes a secret inside its window**
  (`rotation_revokes_early`): `rotate_partner_signing_secret` sets every earlier
  PREVIOUS row to REVOKED whatever its `valid_until` says, while
  `partners.py:240` and `runbooks/secret-rotation.md:20` promise validity until
  then. (The stage-2 plan, line 268, has "revoked never", which agrees with the
  code.)

Met while modelling, and present in the models as steps or as histories that
the properties exclude, without a run of their own:

* `get_cached_event_id` and `cache_event_id` let a RedisError through, so that an
  inbound call answers 500 when Redis is down; ADR-005 line 17 says idempotency
  falls back to the UNIQUE constraint. (`LookupError`, `FillError`)
* The internal API's description says the same key returns 200 with the original
  `delivery_ids`. Two calls whose cached endpoint lists are disjoint are both
  accepted with 202, each with its own deliveries. (`OutboundEnqueue`)
* Two overlapping rotations leave two PRIMARY rows; `scalar_one_or_none` then
  raises in every inbound call and in every further rotation. (`crossed`)
* A partner that has only the column loses its old secret at once at its first
  rotation: there is no row to demote. (`RefusalJustified`)
* Overlapping rate-limit checks spend one token twice, and a SET of the tokens
  without the SET of their time refills the same seconds twice (`clean`).
  `spec.md:301` and `:588` state the limit without exception, and the stage-2 plan
  (line 257) says that a burst of `rps+1` in 1 ms rejects one request.
* `post_outbound` lets httpx errors other than timeouts, connection and network
  errors through. They end the worker, and the message is taken again without
  an attempt having been counted. (`PostRaises`)
* J6 (`spec.md:306` to `312`) expects the backlog to shrink when the partner
  recovers. A half-open circuit is skipped by the task and closed only by other
  traffic of the partner; rows of a partner whose circuit stays open fill the
  batch of 100 and keep everybody else's out (TLC finds this with two partners
  and a batch of one); and a delivery that failed with a poison answer reuses its
  attempt number when it is replayed, so that even a success ends in the
  IntegrityError of `replay_blocks_partition`. `BacklogReplayed` says what is left.
* Two overlapping decisions on one approval overwrite each other (`contested`), and
  an approve that ends between its two commits leaves a replayed delivery whose
  approval can only be rejected (`halfway`).

## 6. Proofs

All theorems hold for every set of deliveries, workers, replayers and topics and
every bound, from the named assumptions in the modules (the bounds are naturals,
`MaxAttempts` is positive, `None` is not a delivery or topic; for the breaker
`CircuitAssumption`; for the enqueue path `RowsAssumption`, that the initial rows
have their types; for the gate `TimesAssumption`: a second has a tick and the rate
is at least one request a second). One theorem carries a hypothesis of its own, named below.

* `OutboundDeliveryProofs`. `TypeInv` is inductive: types, a busy worker has a
  delivery, the relay has sent no more than there is, and `AcksOwnMessage`, which
  types need because `CommitOffset` takes the tail of a queue. Theorems
  `TypeCorrect`, `AcksOwn`, and `OneSender` on top.
* `OutboundHistoryProofs`. `SettledIsRecorded` and `AttemptBudget` are not
  inductive: a worker may commit values it read long ago. `HistoryInv` adds what
  those values stand for: `HistoryGapless` (numbers are unique and everything
  below an attempt was retryable), `CountsBacked` and `FirstsBacked` (every counter
  value in a row *or in a worker's hands* is a recorded attempt, and a spent one
  a dead letter) and `AnnouncesCommitted`. An unused number can then only be the
  next one, which is why the UNIQUE constraint is enough. Theorems
  `SettledRecorded`, `BudgetKept`, `EventsCommitted`, `LedgerRefinement` (every step
  is a `Record` of `AttemptLedger` or leaves the ledger alone) and `FailsOnlyOnce`,
  which needs that a FAILED row has its dead letter.
  `LifecycleSpec` is false for two workers (section 5). `OffTableNeedsStaleRead`
  says why, for any number of them: a step leaves the table only where
  `ReadsHold` is broken, that is where the status a worker or a replay read without a
  lock is no longer the row's.
* `OutboundCoverageProofs`. `CoverageInv` adds that nobody is fenced before the
  first rebalance. A queue element that covers a delivery is followed through
  appends and through the removal of a head whose delivery is settled or has
  been published again. Theorem `NothingLost`.
* `InboundIngestProofs`. `AnswersAgree` is not inductive: an answer may come from
  the cache or from a row another transaction is about to commit. `IngestInv`
  adds `Keyed` (the events of a key are one), `InsertsAlone` (a call between flush
  and commit is alone on its key and the key has no event), `CacheBacked`,
  `AnswersBacked` (every id in Redis or in an answer is a committed event of that
  key; a 202 is the caller's own) and `OutboxBacked` (outbox, relays' batches and
  topic tell one story). Theorems `AnswersKept`, `AcceptedKept`, `NothingLostKept`,
  `PublishedKept` and `IngestRefinement`.
* `OutboundEnqueueProofs`. `TypeInv` needs `Shaped`, `Homed` and `Planned`: who serves a
  call and what it still has to insert. `Ages` ties the age of a change to the
  remaining time of every entry that does not know of it, and of every SELECT
  in flight; `BoundedStaleness` follows for every TTL and latency
  (`StalenessBounded`, `InvalidationWorks`). `RowsInv` (`OpenRows`, `KeysHeld`,
  `Makers`) says that open transactions hold disjoint keys and that a delivery
  belongs to a call that is over: `OneDelivery`, `AnswersKept`.
* `ReplayControlProofs`. A session commits what it read earlier, so `ReplayedOnce`
  and `OneVerdict` need what it still holds. `ReplayInv`: `JobsWellFormed` (lists are
  not empty, a scheduled one names no row twice, a session has an approval
  exactly when it decides one), `Exact` (a FAILED delivery has not been replayed;
  unless two sessions overlapped on it, a delivery is held by one, and only
  before it is replayed), `ApprovingReplayed` (between the two commits of an
  approval the replay is in), `Caused` (an approval replays its own delivery) and
  `DecidedOnce` (unless contested, an approval is pending while a session has it,
  the audit log agrees with the row, and one that was left half-way is not being
  approved: its delivery is no longer FAILED). Theorems `ReplaysOnce`,
  `ApprovalsReplay`, `ApprovalsDecidedOnce`, for any bulk lists, batch limit and
  number of sessions, and for workers that commit at any moment.
* `PartnerGateProofs`. `GateInv`: `RowsKept` and `OnePrimary` (what rotations leave, and
  that the one at work has read the column's secret), `CallsKept`, `Entitled` (an
  unwelcome call is signed with an `Outdated` secret, one that was not in force on
  arrival and never will be, so that neither SELECT finds it whatever is
  committed between them) and `Accounted`, the bucket's accounts: calls paid for
  plus tokens held never exceed the burst plus the refill up to the moment
  *those tokens are dated with*, in the keys and in the locals of the check at
  work. The refill is linear, so reading, refilling and paying keep it; it would
  be false of the stored time with the current tokens between the two SETs.
  Theorems `RotationsKeepService`, `AdmissionsEntitled`, `BudgetKept` for every rate.
  `RefusalsJustified` adds `Served` and has the hypothesis `Overlap > 0`: the
  setting is a plain integer (24 hours by default), and with 0 a rotation
  demotes a secret that is at once no longer valid, so its holder is refused
  without any further rotation.
* `TypesKept` of these modules and of `OutboundDeliveryProofs` and
  `CircuitBreakerProofs`: the runs' `TypeOK` for every instance.
* `CircuitBreakerProofs`. `OpenHasTimer` and `WindowHasEnd` are inductive with the
  types: whoever deletes a timer is about to close, whoever opens is about to
  set it. Theorems `TimerKept`, `WindowKept`.

Only model-checked: the liveness properties `EverySettles`, `PauseEndsWithTimer`,
`EveryEventPublished`, `EveryCallEnds` and `BacklogReplayed`, which need fairness
and are out of the prover's reach. Every other property of a passing run is
also a theorem. Each inductive invariant was checked with TLC on the instance
of its run before it was proved.

## 7. Plan

Modelled: the outbound pipeline, the breaker, the inbound path, the accept path,
replays and approvals, the gate. What is left, in this order:

1. A composition of breaker and worker, to state what a probe promises, with its
   theorem.
2. Safety lemmas towards the liveness properties: what is enabled in a state
   that is not settled, as invariants (`NoLostDelivery` is one).

## 8. Reading the models

`Reset` closes a worker's session, `Exit` also forgets its batch. `Locked(d)` is the
row lock: held from the autoflush to the commit. `Spend` charges a bounded kind
of event. `Covered`, `CountBacked`, `FirstBacked` and `Retried` name the parts of
the invariants.

## 9. Not modelled

* JSON Schema validation, signatures, hashing, encryption: library calls, taken at
  their word. `OutboundEnqueue` and `PartnerGate` have their outcomes.
* Analytics and listings: they only read. Acknowledging a dead letter reads and
  writes one row (two at once both succeed). Purging marks the row MANUAL_PURGE
  and keeps it, so that its unique `delivery_id` stays taken and no second dead
  letter can follow: nothing else depends on them. Administrators' roles are checked per request.
* The delay of `backoff.py` and the tier of `retry_topics.py`: any time and any
  retry topic in `OutboundDelivery`, so that its properties hold for every policy;
  the float arithmetic with jitter is not stated.
* `auto_offset_reset`: a consumer group's very first start. The models begin
  after the group has committed once.
* A partition that returns to a worker that had lost it: the model keeps the
  worker `fenced` for the rest of its batch, as if the broker refused the offset
  commit; the code would commit an offset the worker owns again.
* The 409 that follows a lost race whose winner cannot be found
  (`events.py:423` to `427`, `outbound_enqueue.py:169` to `180`): the loser's flush
  fails only after the winner has committed, and rows are not deleted.
* Time in the outbound pipeline: `wait_until_scheduled` ends at some time. That one
  long wait delays everything behind it is listed as a hazard.
* Kafka and PostgreSQL are taken at their word: `acks` are durable, a partition
  is ordered, a transaction is atomic and READ COMMITTED.
* Metrics, tracing, logging, the admin UI, migrations, load tests and the
  partner mock.
