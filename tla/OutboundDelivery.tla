-------------------------- MODULE OutboundDelivery --------------------------
(***************************************************************************)
(* The outbound delivery pipeline of the hub: the deliveries, attempts and *)
(* dead letters kept in PostgreSQL, the transactional outbox and its       *)
(* relay, the Kafka topics hub.outbound.pending and hub.outbound.retry.*,  *)
(* the outbound workers (app/workers/outbound_consumer.py and              *)
(* outbound_processor.py) and the replays operators and the scheduler      *)
(* start (app/domain/services/replay_service.py).                          *)
(*                                                                         *)
(* One action is one step between two awaits after which another process   *)
(* may observe or change shared state.  The variables of `rows` hold       *)
(* COMMITTED values.  A worker reads a row without a lock (FetchContext)   *)
(* and takes the row lock only when autoflush sends its UPDATE, so what it *)
(* has `seen` may be stale; it then keeps the lock across the HTTP call    *)
(* until it commits.                                                       *)
(*                                                                         *)
(* A definition headed "Slip:" is a plausible mistake in the definition    *)
(* that follows it.  No specification uses it; it shows that the named     *)
(* property notices the mistake.                                           *)
(*                                                                         *)
(* Abstracted here: the circuit breaker is a yes/no answer                 *)
(* (CircuitBreaker has its steps), an HTTP answer is its class and the     *)
(* retry topic is any retry topic.                                         *)
(***************************************************************************)
EXTENDS Naturals, Sequences

CONSTANTS Deliveries,     \* delivery ids
          Workers,        \* members of the consumer group hub-outbound-worker
          Replayers,      \* API requests and Celery ticks that run a replay
          RetryTopics,    \* hub.outbound.retry.*, one partition each
          None,           \* "no delivery", "no topic"
          MaxAttempts,    \* deliveries.max_attempts
          MaxCrashes,     \* bound: process crashes (workers and relay)
          MaxReplays,     \* bound: replays started
          MaxRebalances   \* bound: partitions moved between workers

ASSUME MaxAttemptsAssumption == MaxAttempts \in Nat \ {0}
ASSUME BoundsAssumption ==
    /\ MaxCrashes \in Nat
    /\ MaxReplays \in Nat
    /\ MaxRebalances \in Nat
ASSUME NoneAssumption == None \notin Deliveries \cup RetryTopics \cup {"pending"}
ASSUME TopicAssumption == "pending" \notin RetryTopics

VARIABLES
    status,         \* status[d]: deliveries.status; "absent" before the INSERT
    attempt_count,  \* attempt_count[d]: deliveries.attempt_count
    first_success,  \* first_success[d]: the attempt whose time first_success_at
                    \*   holds, 0 for NULL
    sla_breached,   \* the deliveries with sla_breached set
    attempts,     \* attempts[d]: the committed delivery_attempts rows of d
    deadLetters,  \* the deliveries that have a dead_letters row
    unpublished,  \* unpublished[d]: outbox rows of d with published_at NULL
    sent,         \* sent[d]: those sent in the relay's open transaction
    queue,        \* queue[t]: messages of partition t from the committed offset
    owner,        \* owner[t]: the worker partition t is assigned to
    prefetched,   \* prefetched[w]: messages w fetched from partitions it then lost
    pc,           \* pc[w]: where worker w stands in _handle_message
    job,          \* job[w]: the delivery of the message w is handling
    src,          \* src[w]: the topic that message came from
    seen,         \* seen[w]: the columns of the row as w's session loaded them
    verdict,      \* verdict[w]: what w is about to commit
    fenced,       \* workers whose message's partition was taken away
    keyless,      \* deliveries whose signing secret cannot be read
    replay,       \* replay[r]: what replayer r has read and not yet committed
    dlqTopic,     \* deliveries announced on hub.outbound.dlq
    slaTopic,     \* deliveries announced on hub.integration.sla_breached
    spent         \* how much of each bound has been used

columns == <<status, attempt_count, first_success, sla_breached>>
rows    == <<columns, attempts, deadLetters>>
outbox  == <<unpublished, sent>>
kafka   == <<queue, owner, prefetched>>
session == <<job, src, seen, verdict, fenced>>
events  == <<dlqTopic, slaTopic>>
vars    == <<rows, outbox, kafka, pc, session, keyless, replay, events, spent>>

Topics   == {"pending"} \cup RetryTopics
(* "delivering" is no committed status: a worker's transaction writes it   *)
(* and overwrites it before it commits.                                    *)
Statuses == {"absent", "pending", "retrying", "replaying", "delivered", "failed"}
Sources  == {"pending", "retrying", "replaying"}   \* _DELIVERING_SOURCES
Answers  == {"success", "poison", "retryable"}     \* ResponseClassification
(* What post_outbound returns: a status of the 200s, one of the 500s, one  *)
(* below that the endpoint (or by default the hub) lists as retryable, any *)
(* other, or no status after a timeout or a network error.                 *)
Replies  == {"2xx", "5xx", "listed", "unlisted", "none"}
Verdicts == Answers \cup {"none", "nosecret", "deferred"}
Stages   == {"poll", "fetch", "flush", "gate", "send", "commit",
             "pub_retry", "pub_dlq", "pub_sla", "ack"}

(* What a worker's session keeps of the row.  sla_breached is only ever    *)
(* set together with first_success_at, so it need not be kept apart.       *)
Seen    == [attempt_count: Nat, first_success: Nat]
Unseen  == [attempt_count |-> 0, first_success |-> 0]
Attempt == [number: Nat \ {0}, outcome: Answers]

Replay   == [delivery: Deliveries \cup {None}, reset: BOOLEAN, attempt_count: Nat]
NoReplay == [delivery |-> None, reset |-> FALSE, attempt_count |-> 0]

Bounded == {"crash", "replay", "rebalance"}

TypeOK ==
    /\ status \in [Deliveries -> Statuses]
    /\ attempt_count \in [Deliveries -> Nat]
    /\ first_success \in [Deliveries -> Nat]
    /\ sla_breached \subseteq Deliveries
    /\ attempts \in [Deliveries -> SUBSET Attempt]
    /\ deadLetters \subseteq Deliveries
    /\ unpublished \in [Deliveries -> Nat]
    /\ sent \in [Deliveries -> Nat]
    /\ queue \in [Topics -> Seq(Deliveries)]
    /\ owner \in [Topics -> Workers]
    /\ prefetched \in [Workers -> SUBSET Deliveries]
    /\ pc \in [Workers -> Stages]
    /\ job \in [Workers -> Deliveries \cup {None}]
    /\ src \in [Workers -> Topics \cup {None}]
    /\ seen \in [Workers -> Seen]
    /\ verdict \in [Workers -> Verdicts]
    /\ fenced \subseteq Workers
    /\ keyless \subseteq Deliveries
    /\ replay \in [Replayers -> Replay]
    /\ dlqTopic \subseteq Deliveries
    /\ slaTopic \subseteq Deliveries
    /\ spent \in [Bounded -> Nat]

Init ==
    /\ status = [d \in Deliveries |-> "absent"]
    /\ attempt_count = [d \in Deliveries |-> 0]
    /\ first_success = [d \in Deliveries |-> 0]
    /\ sla_breached = {}
    /\ attempts = [d \in Deliveries |-> {}]
    /\ deadLetters = {}
    /\ unpublished = [d \in Deliveries |-> 0]
    /\ sent = [d \in Deliveries |-> 0]
    /\ queue = [t \in Topics |-> <<>>]
    /\ owner \in [Topics -> Workers]
    /\ prefetched = [w \in Workers |-> {}]
    /\ pc = [w \in Workers |-> "poll"]
    /\ job = [w \in Workers |-> None]
    /\ src = [w \in Workers |-> None]
    /\ seen = [w \in Workers |-> Unseen]
    /\ verdict = [w \in Workers |-> "none"]
    /\ fenced = {}
    /\ keyless \in SUBSET Deliveries
    /\ replay = [r \in Replayers |-> NoReplay]
    /\ dlqTopic = {}
    /\ slaTopic = {}
    /\ spent = [b \in Bounded |-> 0]

(* The deliveries with a message of t at or after the committed offset. *)
Uncommitted(t) == {queue[t][i] : i \in DOMAIN queue[t]}

Spend(b, max) ==
    /\ spent[b] < max
    /\ spent' = [spent EXCEPT ![b] = @ + 1]

-----------------------------------------------------------------------------
(* Accepting a delivery and relaying the outbox                            *)

(* One statement inserts the PENDING delivery and its outbox row. *)
PersistDelivery(d) ==
    /\ status[d] = "absent"
    /\ status' = [status EXCEPT ![d] = "pending"]
    /\ unpublished' = [unpublished EXCEPT ![d] = @ + 1]
    /\ UNCHANGED <<attempt_count, first_success, sla_breached, attempts, deadLetters,
                   sent, kafka, pc, session, keyless, replay, events, spent>>

(* Slip: rows already sent in this batch are not told apart (TypeOK).      *)
RelaySendAgain(d) ==
    /\ unpublished[d] > 0
    /\ sent' = [sent EXCEPT ![d] = @ + 1]
    /\ queue' = [queue EXCEPT !["pending"] = Append(@, d)]
    /\ UNCHANGED <<rows, unpublished, owner, prefetched, pc, session, keyless, replay, events, spent>>

(* send_and_wait of one row; the row counts as published only when the     *)
(* batch commits.  A send that fails leaves the row for a later batch.     *)
RelaySend(d) ==
    /\ sent[d] < unpublished[d]
    /\ sent' = [sent EXCEPT ![d] = @ + 1]
    /\ queue' = [queue EXCEPT !["pending"] = Append(@, d)]
    /\ UNCHANGED <<rows, unpublished, owner, prefetched, pc, session, keyless, replay, events, spent>>

RelayCommit ==
    /\ \E d \in Deliveries : sent[d] > 0
    /\ unpublished' = [d \in Deliveries |-> unpublished[d] - sent[d]]
    /\ sent' = [d \in Deliveries |-> 0]
    /\ UNCHANGED <<rows, kafka, pc, session, keyless, replay, events, spent>>

(* The relay dies with messages sent and nothing committed. *)
RelayCrash ==
    /\ \E d \in Deliveries : sent[d] > 0
    /\ Spend("crash", MaxCrashes)
    /\ sent' = [d \in Deliveries |-> 0]
    /\ UNCHANGED <<rows, unpublished, kafka, pc, session, keyless, replay, events>>

-----------------------------------------------------------------------------
(* The outbound worker                                                     *)

(* Drop the message: the session is closed, an open transaction rolls back *)
(* and with it the row lock goes.                                          *)
Reset(w) ==
    /\ pc' = [pc EXCEPT ![w] = "poll"]
    /\ job' = [job EXCEPT ![w] = None]
    /\ src' = [src EXCEPT ![w] = None]
    /\ seen' = [seen EXCEPT ![w] = Unseen]
    /\ verdict' = [verdict EXCEPT ![w] = "none"]
    /\ fenced' = fenced \ {w}

(* The process ends and is restarted: the fetched batch is gone too. *)
Exit(w) ==
    /\ Reset(w)
    /\ prefetched' = [prefetched EXCEPT ![w] = {}]

Goto(w, stage) == pc' = [pc EXCEPT ![w] = stage]

(* w's transaction holds the lock of its delivery's row. *)
HoldsLock(w) == pc[w] \in {"gate", "send", "commit"}
Locked(d)    == \E w \in Workers : HoldsLock(w) /\ job[w] = d

(* The next uncommitted message of a partition w owns; for a retry topic   *)
(* the step ends when wait_until_scheduled does.                           *)
Take(w, t) ==
    /\ pc[w] = "poll"
    /\ owner[t] = w
    /\ queue[t] # <<>>
    /\ Goto(w, "fetch")
    /\ job' = [job EXCEPT ![w] = Head(queue[t])]
    /\ src' = [src EXCEPT ![w] = t]
    /\ UNCHANGED <<rows, outbox, kafka, seen, verdict, fenced, keyless, replay, events, spent>>

(* The loop over a fetched batch goes on after a partition was taken away. *)
TakePrefetched(w) ==
    /\ pc[w] = "poll"
    /\ \E d \in prefetched[w] :
          /\ job' = [job EXCEPT ![w] = d]
          /\ prefetched' = [prefetched EXCEPT ![w] = @ \ {d}]
    /\ Goto(w, "fetch")
    /\ fenced' = fenced \cup {w}
    /\ UNCHANGED <<rows, outbox, queue, owner, src, seen, verdict, keyless, replay, events, spent>>

(* Slip: RETRYING missing from _DELIVERING_SOURCES (EverySettles).         *)
FetchContextNoRetry(w) ==
    /\ pc[w] = "fetch"
    /\ \/ /\ status[job[w]] \in Sources \ {"retrying"}
          /\ seen' = [seen EXCEPT ![w] =
                 [attempt_count |-> attempt_count[job[w]],
                  first_success |-> first_success[job[w]]]]
          /\ Goto(w, "flush")
       \/ /\ status[job[w]] \notin Sources \ {"retrying"}
          /\ Goto(w, "ack")
          /\ UNCHANGED seen
    /\ UNCHANGED <<rows, outbox, kafka, job, src, verdict, fenced, keyless, replay, events, spent>>

(* fetch_delivery_context: a SELECT without a lock.  A delivery whose      *)
(* status cannot move to DELIVERING is skipped.                            *)
FetchContext(w) ==
    /\ pc[w] = "fetch"
    /\ \/ /\ status[job[w]] \in Sources
          /\ seen' = [seen EXCEPT ![w] =
                 [attempt_count |-> attempt_count[job[w]],
                  first_success |-> first_success[job[w]]]]
          /\ Goto(w, "flush")
       \/ /\ status[job[w]] \notin Sources
          /\ Goto(w, "ack")
          /\ UNCHANGED seen
    /\ UNCHANGED <<rows, outbox, kafka, job, src, verdict, fenced, keyless, replay, events, spent>>

(* Slip: autoflush off, so no row lock is taken before the POST            *)
(* (OneSenderPerDelivery).                                                 *)
LoadSecretUnflushed(w) ==
    /\ pc[w] = "flush"
    /\ job[w] \notin keyless
    /\ Goto(w, "gate")
    /\ UNCHANGED <<rows, outbox, kafka, session, keyless, replay, events, spent>>

(* Slip: the missing secret is announced before it is committed            *)
(* (EventsFollowCommits).                                                  *)
LoadSecretAnnounces(w) ==
    /\ pc[w] = "flush"
    /\ ~Locked(job[w])
    /\ Goto(w, IF job[w] \in keyless THEN "pub_dlq" ELSE "gate")
    /\ UNCHANGED <<rows, outbox, kafka, session, keyless, replay, events, spent>>

(* The SELECT of the signing secret autoflushes the UPDATE to DELIVERING,  *)
(* which waits for the row lock.                                           *)
LoadSecret(w) ==
    /\ pc[w] = "flush"
    /\ ~Locked(job[w])
    /\ \/ /\ job[w] \notin keyless
          /\ Goto(w, "gate")
          /\ UNCHANGED verdict
       \/ /\ job[w] \in keyless
          /\ Goto(w, "commit")
          /\ verdict' = [verdict EXCEPT ![w] = "nosecret"]
    /\ UNCHANGED <<rows, outbox, kafka, job, src, seen, fenced, keyless, replay, events, spent>>

(* An operator rotates the partner's secret: a readable one is in place. *)
RotateSecret(d) ==
    /\ d \in keyless
    /\ keyless' = keyless \ {d}
    /\ UNCHANGED <<rows, outbox, kafka, pc, session, replay, events, spent>>

AllowOutbound(w) ==
    /\ pc[w] = "gate"
    /\ Goto(w, "send")
    /\ UNCHANGED <<rows, outbox, kafka, session, keyless, replay, events, spent>>

(* The circuit refuses the send; nothing counts how often. *)
RefuseOutbound(w) ==
    /\ pc[w] = "gate"
    /\ Goto(w, "commit")
    /\ verdict' = [verdict EXCEPT ![w] = "deferred"]
    /\ UNCHANGED <<rows, outbox, kafka, job, src, seen, fenced, keyless, replay, events, spent>>

(* classify_http_outcome *)
Classify(reply) ==
    CASE reply = "2xx"                       -> "success"
      [] reply \in {"5xx", "listed", "none"} -> "retryable"
      [] reply = "unlisted"                  -> "poison"

(* The partner answers the POST, or does not. *)
PostOutbound(w, reply) ==
    /\ pc[w] = "send"
    /\ Goto(w, "commit")
    /\ verdict' = [verdict EXCEPT ![w] = Classify(reply)]
    /\ UNCHANGED <<rows, outbox, kafka, job, src, seen, fenced, keyless, replay, events, spent>>

(* An error of the HTTP client that post_outbound does not catch (a broken *)
(* answer, a bad URL) ends the process: no attempt is recorded and the     *)
(* message comes again.                                                    *)
PostRaises(w) ==
    /\ pc[w] = "send"
    /\ Exit(w)
    /\ UNCHANGED <<rows, outbox, queue, owner, keyless, replay, events, spent>>

AttemptNumber(w) == seen[w].attempt_count + 1

AttemptsLeft(w) == AttemptNumber(w) < MaxAttempts

Exhausted(w) == verdict[w] = "retryable" /\ ~AttemptsLeft(w)

WritesAttempt(w) == verdict[w] \in Answers

WritesDeadLetter(w) == verdict[w] \in {"poison", "nosecret"} \/ Exhausted(w)

(* Slip: a table without its UNIQUE constraint (LedgerSpec, AttemptBudget, *)
(* FailsOnce).                                                             *)
Unconstrained(w) == FALSE

(* UNIQUE (delivery_id, attempt_number) and UNIQUE (delivery_id). *)
DuplicateAttempt(w) ==
    /\ WritesAttempt(w)
    /\ \E a \in attempts[job[w]] : a.number = AttemptNumber(w)

DuplicateDeadLetter(w) ==
    /\ WritesDeadLetter(w)
    /\ job[w] \in deadLetters

ViolatesUnique(w) == DuplicateAttempt(w) \/ DuplicateDeadLetter(w)

(* The delivery_attempts rows once w's transaction is in. *)
AttemptRows(w) ==
    IF WritesAttempt(w)
    THEN [attempts EXCEPT ![job[w]] =
             @ \cup {[number |-> AttemptNumber(w), outcome |-> verdict[w]]}]
    ELSE attempts

(* attempt_count as the worker writes it: only a retryable answer counts.  *)
CountedAttempts(w) ==
    IF verdict[w] = "retryable"
    THEN AttemptNumber(w)
    ELSE attempt_count[job[w]]

(* apply_first_success on what the session loaded; the session writes the  *)
(* two columns only where their value changes.                             *)
FirstSuccess(w) ==
    IF seen[w].first_success = 0
    THEN AttemptNumber(w)
    ELSE first_success[job[w]]

BreachFlips(w, late) ==
    /\ late
    /\ seen[w].first_success = 0

CommitDelivered(w, late) ==
    /\ pc[w] = "commit"
    /\ verdict[w] = "success"
    /\ ~ViolatesUnique(w)
    /\ attempts' = AttemptRows(w)
    /\ status' = [status EXCEPT ![job[w]] = "delivered"]
    /\ first_success' = [first_success EXCEPT ![job[w]] = FirstSuccess(w)]
    /\ \/ /\ BreachFlips(w, late)
          /\ sla_breached' = sla_breached \cup {job[w]}
          /\ Goto(w, "pub_sla")
       \/ /\ ~BreachFlips(w, late)
          /\ Goto(w, "ack")
          /\ UNCHANGED sla_breached
    /\ UNCHANGED <<attempt_count, deadLetters, outbox, kafka, session, keyless, replay, events, spent>>

(* Slip: the retry message is forgotten (NoLostDelivery).                  *)
CommitRetryingUnsent(w) ==
    /\ pc[w] = "commit"
    /\ \/ verdict[w] = "deferred"
       \/ verdict[w] = "retryable" /\ AttemptsLeft(w)
    /\ ~ViolatesUnique(w)
    /\ attempts' = AttemptRows(w)
    /\ status' = [status EXCEPT ![job[w]] = "retrying"]
    /\ attempt_count' = [attempt_count EXCEPT ![job[w]] = CountedAttempts(w)]
    /\ Goto(w, "ack")
    /\ UNCHANGED <<first_success, sla_breached, deadLetters, outbox, kafka, session,
                   keyless, replay, events, spent>>

(* RETRYING, after a retryable answer or without a send. *)
CommitRetrying(w) ==
    /\ pc[w] = "commit"
    /\ \/ verdict[w] = "deferred"
       \/ verdict[w] = "retryable" /\ AttemptsLeft(w)
    /\ ~ViolatesUnique(w)
    /\ attempts' = AttemptRows(w)
    /\ status' = [status EXCEPT ![job[w]] = "retrying"]
    /\ attempt_count' = [attempt_count EXCEPT ![job[w]] = CountedAttempts(w)]
    /\ Goto(w, "pub_retry")
    /\ UNCHANGED <<first_success, sla_breached, deadLetters, outbox, kafka, session,
                   keyless, replay, events, spent>>

(* Slip: FAILED is committed without the dead letter (SettledIsRecorded).  *)
CommitFailedBare(w) ==
    /\ pc[w] = "commit"
    /\ WritesDeadLetter(w)
    /\ ~ViolatesUnique(w)
    /\ attempts' = AttemptRows(w)
    /\ status' = [status EXCEPT ![job[w]] = "failed"]
    /\ attempt_count' = [attempt_count EXCEPT ![job[w]] = CountedAttempts(w)]
    /\ Goto(w, "pub_dlq")
    /\ UNCHANGED <<first_success, sla_breached, deadLetters, outbox, kafka, session,
                   keyless, replay, events, spent>>

(* _mark_failed_dlq: FAILED and the dead letter in one transaction. *)
CommitFailed(w) ==
    /\ pc[w] = "commit"
    /\ WritesDeadLetter(w)
    /\ ~ViolatesUnique(w)
    /\ attempts' = AttemptRows(w)
    /\ deadLetters' = deadLetters \cup {job[w]}
    /\ status' = [status EXCEPT ![job[w]] = "failed"]
    /\ attempt_count' = [attempt_count EXCEPT ![job[w]] = CountedAttempts(w)]
    /\ Goto(w, "pub_dlq")
    /\ UNCHANGED <<first_success, sla_breached, outbox, kafka, session, keyless, replay, events, spent>>

(* IntegrityError: nothing is caught, the process exits and restarts. *)
CommitRejected(w) ==
    /\ pc[w] = "commit"
    /\ ViolatesUnique(w)
    /\ Exit(w)
    /\ UNCHANGED <<rows, outbox, queue, owner, keyless, replay, events, spent>>

(* publish_outbound_retry, publish_outbound_dlq and publish_sla_breached   *)
(* return once the broker has the message.                                 *)
PublishOutboundRetry(d, t) == queue' = [queue EXCEPT ![t] = Append(@, d)]
PublishOutboundDlq(d)      == dlqTopic' = dlqTopic \cup {d}
PublishSlaBreached(d)      == slaTopic' = slaTopic \cup {d}

(* retry_topic_for: any of the tiers. *)
PublishRetry(w, t) ==
    /\ pc[w] = "pub_retry"
    /\ PublishOutboundRetry(job[w], t)
    /\ Goto(w, "ack")
    /\ UNCHANGED <<rows, outbox, owner, prefetched, session, keyless, replay, events, spent>>

PublishDlq(w) ==
    /\ pc[w] = "pub_dlq"
    /\ PublishOutboundDlq(job[w])
    /\ Goto(w, "ack")
    /\ UNCHANGED <<rows, outbox, kafka, session, keyless, replay, slaTopic, spent>>

PublishSla(w) ==
    /\ pc[w] = "pub_sla"
    /\ PublishSlaBreached(job[w])
    /\ Goto(w, "ack")
    /\ UNCHANGED <<rows, outbox, kafka, session, keyless, replay, dlqTopic, spent>>

(* Slip: the offset is moved for a partition that is no longer assigned    *)
(* (AcksOwnMessage).                                                       *)
CommitOffsetUnfenced(w) ==
    /\ pc[w] = "ack"
    /\ src[w] \in Topics
    /\ queue[src[w]] # <<>>
    /\ queue' = [queue EXCEPT ![src[w]] = Tail(@)]
    /\ Reset(w)
    /\ UNCHANGED <<rows, outbox, owner, prefetched, keyless, replay, events, spent>>

(* consumer.commit(offset + 1). *)
CommitOffset(w) ==
    /\ pc[w] = "ack"
    /\ w \notin fenced
    /\ queue' = [queue EXCEPT ![src[w]] = Tail(@)]
    /\ Reset(w)
    /\ UNCHANGED <<rows, outbox, owner, prefetched, keyless, replay, events, spent>>

(* A worker that lost the partition cannot commit: the error ends it.  One *)
(* that got the partition back in the meantime is treated the same: its    *)
(* commit would move the offset, backwards if others have been at work.    *)
CommitOffsetRefused(w) ==
    /\ pc[w] = "ack"
    /\ w \in fenced
    /\ Exit(w)
    /\ UNCHANGED <<rows, outbox, queue, owner, keyless, replay, events, spent>>

(* The process ends anywhere (kill, shutdown while waiting, an exception   *)
(* of the database, Redis or Kafka client) and is restarted.               *)
Crash(w) ==
    /\ pc[w] # "poll"
    /\ Spend("crash", MaxCrashes)
    /\ Exit(w)
    /\ UNCHANGED <<rows, outbox, queue, owner, keyless, replay, events>>

(* The group coordinator moves partition t to w, possibly while its old    *)
(* owner is in the middle of a batch.                                      *)
Rebalance(t, w) ==
    /\ owner[t] # w
    /\ Spend("rebalance", MaxRebalances)
    /\ owner' = [owner EXCEPT ![t] = w]
    /\ fenced' = fenced \cup {v \in Workers : pc[v] # "poll" /\ src[v] = t}
    /\ prefetched' = [prefetched EXCEPT ![owner[t]] =
           IF pc[owner[t]] = "poll" THEN @ ELSE @ \cup Uncommitted(t)]
    /\ UNCHANGED <<rows, outbox, queue, pc, job, src, seen, verdict, keyless, replay, events>>

-----------------------------------------------------------------------------
(* Replay                                                                  *)

(* replay_delivery, or the scheduler's snapshot, reads a FAILED delivery.  *)
ReplayRead(r, d, reset) ==
    /\ replay[r] = NoReplay
    /\ status[d] = "failed"
    /\ Spend("replay", MaxReplays)
    /\ replay' = [replay EXCEPT ![r] =
           [delivery |-> d, reset |-> reset,
            attempt_count |-> attempt_count[d]]]
    /\ UNCHANGED <<rows, outbox, kafka, pc, session, keyless, events>>

(* The flush and commit: REPLAYING, the counter reset when asked and not   *)
(* already 0, and a new outbox row.  The UPDATE waits for the row lock.    *)
ReplayCommit(r) ==
    LET d == replay[r].delivery
        resets == replay[r].reset /\ replay[r].attempt_count # 0
    IN  /\ d # None
        /\ ~Locked(d)
        /\ status' = [status EXCEPT ![d] = "replaying"]
        /\ attempt_count' = [attempt_count EXCEPT ![d] = IF resets THEN 0 ELSE @]
        /\ unpublished' = [unpublished EXCEPT ![d] = @ + 1]
        /\ replay' = [replay EXCEPT ![r] = NoReplay]
        /\ UNCHANGED <<first_success, sla_breached, attempts, deadLetters, sent,
                       kafka, pc, session, keyless, events, spent>>

-----------------------------------------------------------------------------
(* The steps of worker w that its own event loop takes. *)
WorkerStep(w) ==
    \/ \E t \in Topics : Take(w, t)
    \/ TakePrefetched(w)
    \/ FetchContext(w)
    \/ LoadSecret(w)
    \/ AllowOutbound(w)
    \/ RefuseOutbound(w)
    \/ \E reply \in Replies : PostOutbound(w, reply)
    \/ PostRaises(w)
    \/ \E late \in BOOLEAN : CommitDelivered(w, late)
    \/ CommitRetrying(w)
    \/ CommitFailed(w)
    \/ CommitRejected(w)
    \/ \E t \in RetryTopics : PublishRetry(w, t)
    \/ PublishDlq(w)
    \/ PublishSla(w)
    \/ CommitOffset(w)
    \/ CommitOffsetRefused(w)

RelayStep ==
    \/ \E d \in Deliveries : RelaySend(d)
    \/ RelayCommit

Next ==
    \/ \E d \in Deliveries : PersistDelivery(d)
    \/ RelayStep
    \/ RelayCrash
    \/ \E w \in Workers : WorkerStep(w)
    \/ \E w \in Workers : Crash(w)
    \/ \E t \in Topics, w \in Workers : Rebalance(t, w)
    \/ \E d \in Deliveries : RotateSecret(d)
    \/ \E r \in Replayers, d \in Deliveries, reset \in BOOLEAN : ReplayRead(r, d, reset)
    \/ \E r \in Replayers : ReplayCommit(r)

Spec == Init /\ [][Next]_vars

(* The relay and the worker loops run forever under a restart policy, and  *)
(* polling starves no partition; the environment (operators, partner,      *)
(* circuit, crashes) owes nothing.                                         *)
FairSpec ==
    /\ Spec
    /\ WF_vars(RelayStep)
    /\ \A w \in Workers : WF_vars(WorkerStep(w))
    /\ \A w \in Workers, t \in Topics : SF_vars(Take(w, t))

-----------------------------------------------------------------------------
(* Safety                                                                  *)

(* The autoflushed UPDATE of LoadSecret keeps two workers from sending the *)
(* same delivery at the same time, although both may have read it.         *)
OneSenderPerDelivery ==
    \A v, w \in Workers :
        HoldsLock(v) /\ HoldsLock(w) /\ job[v] = job[w] => v = w

(* A settled status is backed by the record it stands for: DELIVERED by    *)
(* the row of an attempt the partner accepted, whose time is               *)
(* first_success_at; FAILED by a dead letter.                              *)
SettledIsRecorded ==
    \A d \in Deliveries :
        /\ status[d] = "delivered" =>
              [number |-> first_success[d], outcome |-> "success"] \in attempts[d]
        /\ status[d] = "failed" => d \in deadLetters

(* attempt_count counts recorded retryable attempts, and replays, resets   *)
(* and stale workers together never get a delivery past one attempt more   *)
(* than max_attempts: the second dead letter is refused.                   *)
AttemptBudget ==
    \A d \in Deliveries :
        /\ attempt_count[d] > 0 =>
              [number |-> attempt_count[d], outcome |-> "retryable"] \in attempts[d]
        /\ attempt_count[d] <= MaxAttempts
        /\ \A a \in attempts[d] : a.number <= MaxAttempts + 1

(* An event is announced only for what is committed: a breach event for a  *)
(* delivery marked breached, a DLQ event for a dead letter.                *)
EventsFollowCommits ==
    /\ slaTopic \subseteq sla_breached
    /\ dlqTopic \subseteq deadLetters

(* A worker that still owns its partition handles the first uncommitted    *)
(* message of it: the offset it will commit acknowledges the message it    *)
(* has handled and no other.                                               *)
AcksOwnMessage ==
    \A w \in Workers : pc[w] # "poll" /\ w \notin fenced =>
        /\ src[w] \in Topics
        /\ owner[src[w]] = w
        /\ queue[src[w]] # <<>>
        /\ Head(queue[src[w]]) = job[w]

(* The worker is through with its message but for the offset. *)
Settling(w) == pc[w] \in {"pub_dlq", "pub_sla", "ack"}

(* A message of d that will be handled, again if need be. *)
Covered(d) ==
    \/ sent[d] < unpublished[d]
    \/ \E t \in Topics : \E i \in DOMAIN queue[t] :
          /\ queue[t][i] = d
          /\ \A w \in Workers : Settling(w) /\ src[w] = t => i # 1

(* Whatever crashes, an unsettled delivery has an outbox row to send or an *)
(* uncommitted message: until a partition is moved, nothing is lost.       *)
NoLostDelivery ==
    spent["rebalance"] = 0 =>
        \A d \in Deliveries : status[d] \in Sources => Covered(d)

(* A delivery is dead-lettered once: UNIQUE (dead_letters.delivery_id)     *)
(* lets no replayed delivery become FAILED again, so a replay that runs    *)
(* out of attempts can never be settled.                                   *)
FailsOnce ==
    [][\A d \in Deliveries :
          d \in deadLetters /\ status[d] # "failed" => status'[d] # "failed"]_vars

-----------------------------------------------------------------------------
(* The inductive invariant behind the safety properties                    *)

(* A worker that is not polling handles the message of a delivery. *)
JobKnown == \A w \in Workers : pc[w] # "poll" => job[w] \in Deliveries

SentUnpublished == \A d \in Deliveries : sent[d] <= unpublished[d]

TypeInv ==
    /\ TypeOK
    /\ JobKnown
    /\ SentUnpublished
    /\ AcksOwnMessage

(* Attempt n of d is recorded and was answered with a retryable failure.   *)
Retried(d, n) == [number |-> n, outcome |-> "retryable"] \in attempts[d]

(* Numbers are unique, and below an attempt all numbers are taken by       *)
(* retryable ones: the attempts of d are 1..k and only k may be final.     *)
HistoryGapless ==
    \A d \in Deliveries : \A a \in attempts[d] :
        /\ \A b \in attempts[d] : a.number = b.number => a = b
        /\ \A m \in 1 .. (a.number - 1) : Retried(d, m)

(* The worker will still use what its session loaded. *)
Handling(w) == pc[w] \in {"flush", "gate", "send", "commit"}

(* A counter value, in the row or in a worker's hands, stands for recorded *)
(* retryable attempts; a spent counter for a dead letter.                  *)
CountBacked(d, n) ==
    /\ n # 0 => Retried(d, n)
    /\ n <= MaxAttempts
    /\ n = MaxAttempts => d \in deadLetters

CountsBacked ==
    /\ \A d \in Deliveries : CountBacked(d, attempt_count[d])
    /\ \A w \in Workers :
          Handling(w) => CountBacked(job[w], seen[w].attempt_count)

(* first_success is the number of the one successful attempt. *)
FirstBacked(d, n) == n # 0 => [number |-> n, outcome |-> "success"] \in attempts[d]

FirstsBacked ==
    /\ \A d \in Deliveries :
          /\ FirstBacked(d, first_success[d])
          /\ \A a \in attempts[d] :
                a.outcome = "success" => first_success[d] = a.number
    /\ \A w \in Workers :
          Handling(w) => FirstBacked(job[w], seen[w].first_success)

NumbersBounded == \A d \in Deliveries : \A a \in attempts[d] : a.number <= MaxAttempts + 1

(* A worker about to announce something has committed it. *)
AnnouncesCommitted ==
    \A w \in Workers :
        /\ pc[w] = "pub_dlq" => job[w] \in deadLetters
        /\ pc[w] = "pub_sla" => job[w] \in sla_breached

HistoryInv ==
    /\ TypeInv
    /\ HistoryGapless
    /\ CountsBacked
    /\ FirstsBacked
    /\ NumbersBounded
    /\ SettledIsRecorded
    /\ AnnouncesCommitted
    /\ EventsFollowCommits

(* Until a partition is moved no worker is fenced or holds leftovers.      *)
NoneFenced ==
    spent["rebalance"] = 0 =>
        /\ fenced = {}
        /\ \A w \in Workers : prefetched[w] = {}

CoverageInv ==
    /\ TypeInv
    /\ NoneFenced
    /\ NoLostDelivery

-----------------------------------------------------------------------------
(* Refinement                                                              *)

Ledger == INSTANCE AttemptLedger WITH
              ledger <- attempts,
              first  <- first_success

(* Every behaviour keeps the promises of AttemptLedger. *)
LedgerSpec == Ledger!Spec

Lifecycle == INSTANCE DeliveryLifecycle WITH
                 status <- status

(* The committed status moves only along the transition table. *)
LifecycleSpec == Lifecycle!Spec

(* What the sessions rely on still holds in the committed row: the status  *)
(* the worker moves on from, the FAILED the replayer has read.             *)
ReadsHold ==
    /\ \A w \in Workers : Handling(w) => status[job[w]] \in Sources
    /\ \A r \in Replayers :
          replay[r].delivery # None => status[replay[r].delivery] = "failed"

-----------------------------------------------------------------------------
(* Progress                                                                *)

(* What the code cannot guarantee.  A refused send uses up no attempt and  *)
(* neither does a POST that raises: either may go on for ever.             *)
CircuitRelents == \A w \in Workers : SF_vars(AllowOutbound(w))
PartnerAnswers == \A w \in Workers : SF_vars(\E reply \in Replies : PostOutbound(w, reply))

(* If the circuit does not refuse for ever and POSTs do not raise for      *)
(* ever, every accepted delivery is eventually delivered or dead-lettered, *)
(* through any number of deferrals, failed POSTs and duplicates and the    *)
(* crashes of the bound, as long as nothing is replayed.                   *)
EverySettles ==
    CircuitRelents /\ PartnerAnswers =>
        \A d \in Deliveries :
            status[d] = "pending" ~>
                \/ status[d] \in {"delivered", "failed"}
                \/ spent["replay"] > 0

(* spec.md, failure isolation: a dead-lettered message does not block the  *)
(* partition, so a pending delivery is eventually taken up, if circuit and *)
(* partner let the others pass.                                            *)
PartitionNotBlocked ==
    CircuitRelents /\ PartnerAnswers =>
        \A d \in Deliveries :
            status[d] = "pending" ~> status[d] # "pending"

(* spec.md, journey J3: a dead-lettered delivery is published to           *)
(* hub.outbound.dlq.                                                       *)
DlqAnnounced ==
    \A d \in Deliveries : d \in deadLetters ~> d \in dlqTopic
=============================================================================
