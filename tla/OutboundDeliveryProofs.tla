----------------------- MODULE OutboundDeliveryProofs -----------------------
(***************************************************************************)
(* Proofs about OutboundDelivery, for any number of deliveries, workers,   *)
(* replayers and retry topics and any bounds.                              *)
(***************************************************************************)
EXTENDS OutboundDelivery, TLAPS

USE DEF Statuses, Sources, Answers, Replies, Verdicts, Stages, Bounded,
        PublishOutboundRetry, PublishOutboundDlq, PublishSlaBreached

-----------------------------------------------------------------------------
(* Type correctness                                                        *)

(* The initial values of the record-valued variables have their types.     *)
LEMMA RecordFacts ==
    /\ Unseen \in Seen
    /\ NoReplay \in Replay
BY DEF Unseen, Seen, NoReplay, Replay

(* What the columns of a delivery become when a worker commits.            *)
LEMMA CommitFacts ==
    ASSUME TypeOK, NEW w \in Workers, job[w] \in Deliveries
    PROVE  /\ AttemptNumber(w) \in Nat \ {0}
           /\ AttemptRows(w) \in [Deliveries -> SUBSET Attempt]
           /\ CountedAttempts(w) \in Nat
           /\ FirstSuccess(w) \in Nat
<1>1. AttemptNumber(w) \in Nat \ {0}
    BY DEF TypeOK, AttemptNumber, Seen
<1>2. WritesAttempt(w) => [number |-> AttemptNumber(w), outcome |-> verdict[w]] \in Attempt
    BY <1>1 DEF WritesAttempt, Attempt
<1>. QED
    BY <1>1, <1>2 DEF TypeOK, AttemptRows, CountedAttempts, FirstSuccess

(* A bound is charged with one event of its kind.                          *)
LEMMA SpendFacts ==
    ASSUME TypeOK, NEW b \in Bounded, NEW max, Spend(b, max)
    PROVE  spent' \in [Bounded -> Nat]
BY DEF TypeOK, Spend

(* A worker whose process ends is back at its start.                       *)
LEMMA ExitFacts ==
    ASSUME TypeOK, JobKnown, NEW w \in Workers, Exit(w)
    PROVE  /\ pc' \in [Workers -> Stages]
           /\ job' \in [Workers -> Deliveries \cup {None}]
           /\ src' \in [Workers -> Topics \cup {None}]
           /\ seen' \in [Workers -> Seen]
           /\ verdict' \in [Workers -> Verdicts]
           /\ fenced' \subseteq Workers
           /\ prefetched' \in [Workers -> SUBSET Deliveries]
           /\ JobKnown'
<1>1. "poll" \in Stages /\ "none" \in Verdicts /\ Unseen \in Seen
    BY RecordFacts DEF Stages, Verdicts
<1>2. /\ pc' \in [Workers -> Stages]
      /\ job' \in [Workers -> Deliveries \cup {None}]
      /\ src' \in [Workers -> Topics \cup {None}]
    BY <1>1 DEF Exit, Reset, TypeOK
<1>3. /\ seen' \in [Workers -> Seen]
      /\ verdict' \in [Workers -> Verdicts]
    BY <1>1 DEF Exit, Reset, TypeOK
<1>4. /\ fenced' \subseteq Workers
      /\ prefetched' \in [Workers -> SUBSET Deliveries]
    BY DEF Exit, Reset, TypeOK
<1>5. \A v \in Workers : pc'[v] = "poll" \/ (pc'[v] = pc[v] /\ job'[v] = job[v])
    BY DEF Exit, Reset, TypeOK
<1>. QED
    BY <1>2, <1>3, <1>4, <1>5 DEF JobKnown

(* Every action keeps the types, a worker leaves "poll" only with a        *)
(* delivery in hand, and the relay marks no row it has not sent.           *)
LEMMA TypeStep == TypeInv /\ [Next]_vars => (TypeOK /\ JobKnown /\ SentUnpublished)'
<1> DEFINE Goal == TypeOK /\ JobKnown /\ SentUnpublished
<1> SUFFICES ASSUME TypeInv, [Next]_vars
             PROVE  Goal'
    OBVIOUS
<1> USE RecordFacts, NoneAssumption DEF TypeInv, TypeOK, JobKnown, SentUnpublished
<1>1. ASSUME NEW d \in Deliveries, PersistDelivery(d)
      PROVE  Goal'
    BY <1>1 DEF PersistDelivery, kafka, session, events
<1>2. ASSUME NEW d \in Deliveries, RelaySend(d)
      PROVE  Goal'
    <2>1. Append(queue["pending"], d) \in Seq(Deliveries)
        BY DEF Topics
    <2>2. queue' \in [Topics -> Seq(Deliveries)]
        BY <1>2, <2>1 DEF RelaySend
    <2>3. sent' \in [Deliveries -> Nat] /\ SentUnpublished'
        BY <1>2 DEF RelaySend
    <2>. QED
        BY <1>2, <2>2, <2>3 DEF RelaySend, rows, columns, session, events
<1>3. CASE RelayCommit
    <2>1. unpublished' = [d \in Deliveries |-> unpublished[d] - sent[d]]
        BY <1>3 DEF RelayCommit
    <2>2. \A d \in Deliveries : unpublished[d] - sent[d] \in Nat
        OBVIOUS
    <2>3. unpublished' \in [Deliveries -> Nat]
        BY <2>1, <2>2
    <2>4. sent' = [d \in Deliveries |-> 0]
        BY <1>3 DEF RelayCommit
    <2>5. sent' \in [Deliveries -> Nat] /\ SentUnpublished'
        BY <2>3, <2>4
    <2>. QED
        BY <1>3, <2>3, <2>5 DEF RelayCommit, rows, columns, kafka, session, events
<1>4. CASE RelayCrash
    <2>1. spent' \in [Bounded -> Nat]
        BY <1>4, SpendFacts DEF RelayCrash
    <2>2. sent' \in [Deliveries -> Nat] /\ SentUnpublished'
        BY <1>4 DEF RelayCrash
    <2>. QED
        BY <1>4, <2>1, <2>2 DEF RelayCrash, rows, columns, kafka, session, events
<1>5. ASSUME NEW w \in Workers, NEW t \in Topics, Take(w, t)
      PROVE  Goal'
    <2>1. Head(queue[t]) \in Deliveries
        BY <1>5 DEF Take
    <2>. QED
        BY <1>5, <2>1 DEF Take, Goto, rows, columns, outbox, kafka, events
<1>6. ASSUME NEW w \in Workers, TakePrefetched(w)
      PROVE  Goal'
    BY <1>6 DEF TakePrefetched, Goto, rows, columns, outbox, events
<1>7. ASSUME NEW w \in Workers, FetchContext(w)
      PROVE  Goal'
    <2>1. job[w] \in Deliveries
        BY <1>7 DEF FetchContext
    <2> DEFINE loaded == [attempt_count |-> attempt_count[job[w]],
                          first_success |-> first_success[job[w]]]
    <2>2. loaded \in Seen
        BY <2>1 DEF Seen
    <2>3. /\ seen' = [seen EXCEPT ![w] = loaded] \/ seen' = seen
          /\ pc' = [pc EXCEPT ![w] = "flush"] \/ pc' = [pc EXCEPT ![w] = "ack"]
          /\ pc[w] # "poll"
          /\ UNCHANGED <<rows, outbox, kafka, job, src, verdict, fenced, keyless, replay, events, spent>>
        BY <1>7 DEF FetchContext, Goto
    <2> HIDE DEF loaded
    <2>4. seen' \in [Workers -> Seen]
        <3>1. CASE seen' = seen
            BY <3>1
        <3>2. CASE seen' = [seen EXCEPT ![w] = loaded]
            BY <2>2, <3>2
        <3>. QED
            BY <2>3, <3>1, <3>2
    <2>5. pc' \in [Workers -> Stages] /\ JobKnown'
        BY <2>1, <2>3
    <2>. QED
        BY <2>3, <2>4, <2>5 DEF rows, columns, outbox, kafka, events
<1>8. ASSUME NEW w \in Workers, LoadSecret(w)
      PROVE  Goal'
    <2>1. verdict' \in [Workers -> Verdicts]
        BY <1>8 DEF LoadSecret
    <2>2. /\ pc' = [pc EXCEPT ![w] = "gate"] \/ pc' = [pc EXCEPT ![w] = "commit"]
          /\ pc[w] # "poll" /\ job' = job
        BY <1>8 DEF LoadSecret, Goto
    <2>3. pc' \in [Workers -> Stages] /\ JobKnown'
        <3>1. CASE pc' = [pc EXCEPT ![w] = "gate"]
            BY <2>2, <3>1
        <3>2. CASE pc' = [pc EXCEPT ![w] = "commit"]
            BY <2>2, <3>2
        <3>. QED
            BY <2>2, <3>1, <3>2
    <2>4. UNCHANGED <<rows, outbox, kafka, job, src, seen, fenced, keyless, replay, events, spent>>
        BY <1>8 DEF LoadSecret
    <2>. QED
        BY <2>1, <2>3, <2>4 DEF rows, columns, outbox, kafka, events
<1>9. ASSUME NEW w \in Workers, AllowOutbound(w)
      PROVE  Goal'
    BY <1>9 DEF AllowOutbound, Goto, rows, columns, outbox, kafka, session, events
<1>10. ASSUME NEW w \in Workers, RefuseOutbound(w)
      PROVE  Goal'
    BY <1>10 DEF RefuseOutbound, Goto, rows, columns, outbox, kafka, events
<1>11. ASSUME NEW w \in Workers, NEW reply \in Replies, PostOutbound(w, reply)
      PROVE  Goal'
    BY <1>11 DEF PostOutbound, Classify, Goto, rows, columns, outbox, kafka, events
<1>12. ASSUME NEW w \in Workers, NEW late \in BOOLEAN, CommitDelivered(w, late)
      PROVE  Goal'
    <2>1. job[w] \in Deliveries
        BY <1>12 DEF CommitDelivered
    <2>2. /\ attempts' \in [Deliveries -> SUBSET Attempt]
          /\ first_success' \in [Deliveries -> Nat]
        BY <1>12, <2>1, CommitFacts DEF CommitDelivered
    <2>3. status' \in [Deliveries -> Statuses] /\ sla_breached' \subseteq Deliveries
        BY <1>12, <2>1 DEF CommitDelivered
    <2>4. pc' \in [Workers -> Stages] /\ JobKnown'
        BY <1>12, <2>1 DEF CommitDelivered, Goto, session
    <2>. QED
        BY <1>12, <2>2, <2>3, <2>4 DEF CommitDelivered, outbox, kafka, session, events
<1>13. ASSUME NEW w \in Workers, CommitRetrying(w)
      PROVE  Goal'
    <2>1. job[w] \in Deliveries
        BY <1>13 DEF CommitRetrying
    <2>. QED
        BY <1>13, <2>1, CommitFacts DEF CommitRetrying, Goto, outbox, kafka, session, events
<1>14. ASSUME NEW w \in Workers, CommitFailed(w)
      PROVE  Goal'
    <2>1. job[w] \in Deliveries
        BY <1>14 DEF CommitFailed
    <2>. QED
        BY <1>14, <2>1, CommitFacts DEF CommitFailed, Goto, outbox, kafka, session, events
<1>15. ASSUME NEW w \in Workers, CommitRejected(w)
      PROVE  Goal'
    BY <1>15, ExitFacts DEF CommitRejected, rows, columns, outbox, events
<1>16. ASSUME NEW w \in Workers, NEW t \in RetryTopics, PublishRetry(w, t)
      PROVE  Goal'
    <2>1. Append(queue[t], job[w]) \in Seq(Deliveries)
        BY <1>16 DEF PublishRetry, Topics
    <2>. QED
        BY <1>16, <2>1 DEF PublishRetry, Goto, Topics, rows, columns, outbox, session, events
<1>17. ASSUME NEW w \in Workers, PublishDlq(w)
      PROVE  Goal'
    BY <1>17 DEF PublishDlq, Goto, rows, columns, outbox, kafka, session
<1>18. ASSUME NEW w \in Workers, PublishSla(w)
      PROVE  Goal'
    BY <1>18 DEF PublishSla, Goto, rows, columns, outbox, kafka, session
<1>19. ASSUME NEW w \in Workers, CommitOffset(w)
      PROVE  Goal'
    <2>1. Tail(queue[src[w]]) \in Seq(Deliveries)
        BY <1>19 DEF CommitOffset, AcksOwnMessage
    <2>. QED
        BY <1>19, <2>1 DEF CommitOffset, Reset, rows, columns, outbox, events
<1>20. ASSUME NEW w \in Workers, CommitOffsetRefused(w)
      PROVE  Goal'
    BY <1>20, ExitFacts DEF CommitOffsetRefused, rows, columns, outbox, events
<1>21. ASSUME NEW w \in Workers, Crash(w)
      PROVE  Goal'
    <2>1. spent' \in [Bounded -> Nat]
        BY <1>21, SpendFacts DEF Crash
    <2>. QED
        BY <1>21, <2>1, ExitFacts DEF Crash, rows, columns, outbox, events
<1>22. ASSUME NEW t \in Topics, NEW w \in Workers, Rebalance(t, w)
      PROVE  Goal'
    <2>1. owner[t] \in Workers /\ Uncommitted(t) \subseteq Deliveries
        BY DEF Uncommitted
    <2>2. owner' \in [Topics -> Workers] /\ fenced' \subseteq Workers
        BY <1>22 DEF Rebalance
    <2>3. prefetched' \in [Workers -> SUBSET Deliveries]
        BY <1>22, <2>1 DEF Rebalance
    <2>4. spent' \in [Bounded -> Nat]
        BY <1>22, SpendFacts DEF Rebalance
    <2>5. UNCHANGED <<rows, outbox, queue, pc, job, src, seen, verdict, keyless, replay, events>>
        BY <1>22 DEF Rebalance
    <2>. QED
        BY <2>2, <2>3, <2>4, <2>5 DEF rows, columns, outbox, events
<1>23. ASSUME NEW d \in Deliveries, RotateSecret(d)
      PROVE  Goal'
    BY <1>23 DEF RotateSecret, rows, columns, outbox, kafka, session, events
<1>24. ASSUME NEW r \in Replayers, NEW d \in Deliveries, NEW reset \in BOOLEAN, ReplayRead(r, d, reset)
      PROVE  Goal'
    <2>1. [delivery |-> d, reset |-> reset, attempt_count |-> attempt_count[d]] \in Replay
        BY DEF Replay
    <2>2. spent' \in [Bounded -> Nat]
        BY <1>24, SpendFacts DEF ReplayRead
    <2>. QED
        BY <1>24, <2>1, <2>2 DEF ReplayRead, rows, columns, outbox, kafka, session, events
<1>25. ASSUME NEW r \in Replayers, ReplayCommit(r)
      PROVE  Goal'
    BY <1>25 DEF ReplayCommit, Replay, kafka, session, events
<1>26. CASE UNCHANGED vars
    BY <1>26 DEF vars, rows, columns, outbox, kafka, session, events
<1>27. ASSUME NEW w \in Workers, PostRaises(w)
      PROVE  Goal'
    BY <1>27, ExitFacts DEF PostRaises, rows, columns, outbox, events
<1> HIDE DEF TypeInv, TypeOK, JobKnown, SentUnpublished, Goal
<1>. QED
    BY <1>1, <1>2, <1>3, <1>4, <1>5, <1>6, <1>7, <1>8, <1>9, <1>10, <1>11, <1>12, <1>13, <1>14, <1>15, <1>16, <1>17, <1>18, <1>19, <1>20, <1>21, <1>22, <1>23, <1>24, <1>25, <1>26, <1>27 DEF Next, RelayStep, WorkerStep

(* A message sent to a partition with messages leaves the first one first. *)
LEMMA AppendKeepsHead ==
    ASSUME NEW S, NEW q \in Seq(S), q # <<>>, NEW d \in S
    PROVE  Append(q, d) # <<>> /\ Head(Append(q, d)) = Head(q)
<1>1. Len(q) > 0
    OBVIOUS
<1>2. /\ Len(Append(q, d)) > 0
      /\ Append(q, d)[1] = q[1]
    BY <1>1
<1>. QED
    BY <1>1, <1>2

(* A worker that owns its partition keeps handling the first message of    *)
(* it: others only append, and a rebalance fences it.                      *)
LEMMA AcksStep == TypeInv /\ [Next]_vars => AcksOwnMessage'
<1> DEFINE Own(v) == /\ src[v] \in Topics
                     /\ owner[src[v]] = v
                     /\ queue[src[v]] # <<>>
                     /\ Head(queue[src[v]]) = job[v]
<1> SUFFICES ASSUME TypeInv, [Next]_vars,
                    NEW v \in Workers, pc'[v] # "poll", v \notin fenced'
             PROVE  Own(v)'
    BY DEF AcksOwnMessage
<1> USE DEF TypeInv, TypeOK, AcksOwnMessage
<1>1. ASSUME NEW t \in Topics, NEW d \in Deliveries,
             queue' = [queue EXCEPT ![t] = Append(@, d)],
             pc[v] # "poll", UNCHANGED <<owner, job, src, fenced>>
      PROVE  Own(v)'
    <2>1. Own(v)
        BY <1>1
    <2>2. CASE src[v] = t
        <3>1. queue[t] \in Seq(Deliveries) /\ queue[t] # <<>>
            BY <2>1, <2>2
        <3>2. queue'[t] = Append(queue[t], d)
            BY <1>1
        <3>3. queue'[t] # <<>> /\ Head(queue'[t]) = Head(queue[t])
            <4> HIDE DEF TypeInv, TypeOK, AcksOwnMessage, Own
            <4>. QED
                BY AppendKeepsHead, <3>1, <3>2
        <3>4. src'[v] = t /\ owner'[t] = v /\ job'[v] = Head(queue[t])
            BY <1>1, <2>1, <2>2
        <3>. QED
            BY <3>3, <3>4
    <2>3. CASE src[v] # t
        BY <1>1, <2>1, <2>3
    <2>. QED
        BY <2>2, <2>3
<1>2. ASSUME NEW d \in Deliveries, RelaySend(d)
      PROVE  Own(v)'
    BY <1>1, <1>2 DEF RelaySend, session, Topics
<1>3. ASSUME NEW w \in Workers, NEW t \in RetryTopics, PublishRetry(w, t)
      PROVE  Own(v)'
    <2>1. job[w] \in Deliveries /\ t \in Topics /\ pc[v] # "poll"
        BY <1>3 DEF PublishRetry, JobKnown, Topics, Goto
    <2>. QED
        BY <1>1, <1>3, <2>1 DEF PublishRetry, session
<1>4. ASSUME NEW w \in Workers, CommitOffset(w)
      PROVE  Own(v)'
    <2>1. v # w /\ pc[v] # "poll" /\ v \notin fenced
        BY <1>4 DEF CommitOffset, Reset
    <2>2. src[v] # src[w]
        BY <1>4, <2>1 DEF CommitOffset
    <2>. QED
        BY <1>4, <2>1, <2>2 DEF CommitOffset, Reset
<1>5. ASSUME NEW w \in Workers, NEW t \in Topics, Take(w, t)
      PROVE  Own(v)'
    BY <1>5 DEF Take, Goto, kafka
<1>6. ASSUME NEW t \in Topics, NEW w \in Workers, Rebalance(t, w)
      PROVE  Own(v)'
    <2>1. v \notin fenced /\ src[v] # t
        BY <1>6 DEF Rebalance
    <2>. QED
        BY <1>6, <2>1 DEF Rebalance
<1>7. ASSUME UNCHANGED <<queue, owner>>, pc[v] # "poll", v \notin fenced,
             src'[v] = src[v], job'[v] = job[v]
      PROVE  Own(v)'
    BY <1>7
<1>8. ASSUME NEW d \in Deliveries, PersistDelivery(d)
      PROVE  Own(v)'
    BY <1>7, <1>8 DEF PersistDelivery, kafka, session
<1>9. CASE RelayCommit
    BY <1>7, <1>9 DEF RelayCommit, kafka, session
<1>10. CASE RelayCrash
    BY <1>7, <1>10 DEF RelayCrash, kafka, session
<1>11. ASSUME NEW w \in Workers, TakePrefetched(w)
      PROVE  Own(v)'
    BY <1>7, <1>11 DEF TakePrefetched, Goto
<1>12. ASSUME NEW w \in Workers, FetchContext(w)
      PROVE  Own(v)'
    BY <1>7, <1>12 DEF FetchContext, Goto, kafka
<1>13. ASSUME NEW w \in Workers, LoadSecret(w)
      PROVE  Own(v)'
    BY <1>7, <1>13 DEF LoadSecret, Goto, kafka
<1>14. ASSUME NEW w \in Workers, AllowOutbound(w)
      PROVE  Own(v)'
    BY <1>7, <1>14 DEF AllowOutbound, Goto, kafka, session
<1>15. ASSUME NEW w \in Workers, RefuseOutbound(w)
      PROVE  Own(v)'
    BY <1>7, <1>15 DEF RefuseOutbound, Goto, kafka
<1>16. ASSUME NEW w \in Workers, NEW reply \in Replies, PostOutbound(w, reply)
      PROVE  Own(v)'
    BY <1>7, <1>16 DEF PostOutbound, Goto, kafka
<1>17. ASSUME NEW w \in Workers, NEW late \in BOOLEAN, CommitDelivered(w, late)
      PROVE  Own(v)'
    BY <1>7, <1>17 DEF CommitDelivered, Goto, kafka, session
<1>18. ASSUME NEW w \in Workers, CommitRetrying(w)
      PROVE  Own(v)'
    BY <1>7, <1>18 DEF CommitRetrying, Goto, kafka, session
<1>19. ASSUME NEW w \in Workers, CommitFailed(w)
      PROVE  Own(v)'
    BY <1>7, <1>19 DEF CommitFailed, Goto, kafka, session
<1>20. ASSUME NEW w \in Workers, CommitRejected(w)
      PROVE  Own(v)'
    BY <1>7, <1>20 DEF CommitRejected, Exit, Reset
<1>21. ASSUME NEW w \in Workers, PublishDlq(w)
      PROVE  Own(v)'
    BY <1>7, <1>21 DEF PublishDlq, Goto, kafka, session
<1>22. ASSUME NEW w \in Workers, PublishSla(w)
      PROVE  Own(v)'
    BY <1>7, <1>22 DEF PublishSla, Goto, kafka, session
<1>23. ASSUME NEW w \in Workers, CommitOffsetRefused(w)
      PROVE  Own(v)'
    BY <1>7, <1>23 DEF CommitOffsetRefused, Exit, Reset
<1>24. ASSUME NEW w \in Workers, Crash(w)
      PROVE  Own(v)'
    BY <1>7, <1>24 DEF Crash, Exit, Reset
<1>25. ASSUME NEW d \in Deliveries, RotateSecret(d)
      PROVE  Own(v)'
    BY <1>7, <1>25 DEF RotateSecret, kafka, session
<1>26. ASSUME NEW r \in Replayers, NEW d \in Deliveries, NEW reset \in BOOLEAN, ReplayRead(r, d, reset)
      PROVE  Own(v)'
    BY <1>7, <1>26 DEF ReplayRead, kafka, session
<1>27. ASSUME NEW r \in Replayers, ReplayCommit(r)
      PROVE  Own(v)'
    BY <1>7, <1>27 DEF ReplayCommit, kafka, session
<1>28. CASE UNCHANGED vars
    BY <1>7, <1>28 DEF vars, kafka, session
<1>29. ASSUME NEW w \in Workers, PostRaises(w)
      PROVE  Own(v)'
    BY <1>7, <1>29 DEF PostRaises, Exit, Reset
<1> HIDE DEF TypeInv, TypeOK, AcksOwnMessage, Own
<1>. QED
    BY <1>2, <1>3, <1>4, <1>5, <1>6, <1>8, <1>9, <1>10, <1>11, <1>12, <1>13, <1>14, <1>15, <1>16, <1>17, <1>18, <1>19, <1>20, <1>21, <1>22, <1>23, <1>24, <1>25, <1>26, <1>27, <1>28, <1>29
    DEF Next, RelayStep, WorkerStep

LEMMA TypeInit == Init => TypeInv
BY RecordFacts DEF Init, TypeInv, TypeOK, JobKnown, SentUnpublished, AcksOwnMessage

(* The state keeps its types: in particular a row is marked published only *)
(* if it was sent, and an offset is committed only for a message there is. *)
THEOREM TypeCorrect == Spec => []TypeInv
<1>1. TypeInv /\ [Next]_vars => TypeInv'
    BY TypeStep, AcksStep DEF TypeInv
<1>. QED
    BY TypeInit, <1>1, PTL DEF Spec

(* The part of it that the runs check.                                     *)
THEOREM TypesKept == Spec => []TypeOK
<1>1. TypeInv => TypeOK
    BY DEF TypeInv
<1>. QED
    BY TypeCorrect, <1>1, PTL

(* The offset a worker commits acknowledges the message it has handled.    *)
THEOREM AcksOwn == Spec => []AcksOwnMessage
<1>1. TypeInv => AcksOwnMessage
    BY DEF TypeInv
<1>. QED
    BY TypeCorrect, <1>1, PTL

-----------------------------------------------------------------------------
(* Frames: who changes what                                                *)

(* What the stages of worker v rest on.                                    *)
Slot(v) == <<pc[v], job[v], seen[v], verdict[v]>>

(* A worker's stage, message and session change only by its own steps.     *)
LEMMA WorkerFrame ==
    ASSUME TypeOK, [Next]_vars, NEW v \in Workers
    PROVE  Slot(v)' = Slot(v) \/ WorkerStep(v) \/ Crash(v)
<1> DEFINE Same == Slot(v)' = Slot(v)
<1> USE DEF Slot, TypeOK
<1>1. ASSUME UNCHANGED <<pc, job, seen, verdict>>
      PROVE  Same
    BY <1>1
<1>2. ASSUME NEW d \in Deliveries, PersistDelivery(d)
      PROVE  Same
    BY <1>1, <1>2 DEF PersistDelivery, session
<1>3. CASE RelayStep \/ RelayCrash
    BY <1>1, <1>3 DEF RelayStep, RelaySend, RelayCommit, RelayCrash, session
<1>4. ASSUME NEW w \in Workers, w # v, WorkerStep(w)
      PROVE  Same
    BY <1>4 DEF WorkerStep, Take, TakePrefetched, FetchContext, LoadSecret, AllowOutbound,
       RefuseOutbound, PostOutbound, PostRaises, CommitDelivered, CommitRetrying, CommitFailed,
       CommitRejected, PublishRetry, PublishDlq, PublishSla, CommitOffset,
       CommitOffsetRefused, Exit, Reset, Goto, session
<1>5. ASSUME NEW w \in Workers, w # v, Crash(w)
      PROVE  Same
    BY <1>5 DEF Crash, Exit, Reset
<1>6. ASSUME NEW t \in Topics, NEW w \in Workers, Rebalance(t, w)
      PROVE  Same
    BY <1>1, <1>6 DEF Rebalance
<1>7. ASSUME NEW d \in Deliveries, RotateSecret(d)
      PROVE  Same
    BY <1>1, <1>7 DEF RotateSecret, session
<1>8. ASSUME NEW r \in Replayers, NEW d \in Deliveries, NEW reset \in BOOLEAN, ReplayRead(r, d, reset)
      PROVE  Same
    BY <1>1, <1>8 DEF ReplayRead, session
<1>9. ASSUME NEW r \in Replayers, ReplayCommit(r)
      PROVE  Same
    BY <1>1, <1>9 DEF ReplayCommit, session
<1>10. CASE UNCHANGED vars
    BY <1>1, <1>10 DEF vars, session
<1> HIDE DEF TypeOK, Slot, Same
<1>. QED
    BY <1>2, <1>3, <1>4, <1>5, <1>6, <1>7, <1>8, <1>9, <1>10 DEF Next, Same

-----------------------------------------------------------------------------
(* Mutual exclusion of senders                                             *)

(* A worker enters the locked stages through LoadSecret only, and keeps    *)
(* its message while it is in them.                                        *)
LEMMA LockEntry ==
    ASSUME TypeInv, [Next]_vars, NEW v \in Workers, HoldsLock(v)'
    PROVE  \/ LoadSecret(v) /\ job'[v] = job[v]
           \/ HoldsLock(v) /\ job'[v] = job[v]
<1>1. CASE Slot(v)' = Slot(v)
    BY <1>1 DEF Slot, HoldsLock
<1>2. CASE WorkerStep(v)
    <2>1. CASE \/ \E t \in Topics : Take(v, t)
               \/ TakePrefetched(v) \/ FetchContext(v)
               \/ \E t \in RetryTopics : PublishRetry(v, t)
               \/ PublishDlq(v) \/ PublishSla(v)
        BY <2>1 DEF TypeInv, TypeOK, HoldsLock, Take, TakePrefetched, FetchContext,
           PublishRetry, PublishDlq, PublishSla, Goto
    <2>2. CASE \/ AllowOutbound(v) \/ RefuseOutbound(v)
               \/ \E reply \in Replies : PostOutbound(v, reply)
        BY <2>2 DEF HoldsLock, AllowOutbound, RefuseOutbound, PostOutbound, session
    <2>3. CASE \/ \E late \in BOOLEAN : CommitDelivered(v, late)
               \/ CommitRetrying(v) \/ CommitFailed(v)
        BY <2>3 DEF TypeInv, TypeOK, HoldsLock, CommitDelivered, CommitRetrying, CommitFailed, Goto
    <2>4. CASE PostRaises(v) \/ CommitRejected(v) \/ CommitOffset(v) \/ CommitOffsetRefused(v)
        BY <2>4 DEF TypeInv, TypeOK, HoldsLock, PostRaises, CommitRejected, CommitOffset,
           CommitOffsetRefused, Exit, Reset
    <2>5. CASE LoadSecret(v)
        BY <2>5 DEF LoadSecret
    <2>. QED
        BY <1>2, <2>1, <2>2, <2>3, <2>4, <2>5 DEF WorkerStep
<1>3. CASE Crash(v)
    BY <1>3 DEF TypeInv, TypeOK, HoldsLock, Crash, Exit, Reset
<1>. QED
    BY <1>1, <1>2, <1>3, WorkerFrame DEF TypeInv

(* No two workers hold the row lock of one delivery, so no two POST the    *)
(* same delivery at the same time, however stale what they read.           *)
THEOREM OneSender == Spec => []OneSenderPerDelivery
<1>1. Init => OneSenderPerDelivery
    BY DEF Init, OneSenderPerDelivery, HoldsLock
<1>2. ASSUME TypeInv, OneSenderPerDelivery, [Next]_vars
      PROVE  OneSenderPerDelivery'
    <2> SUFFICES ASSUME NEW v \in Workers, NEW w \in Workers, v # w,
                        HoldsLock(v)', HoldsLock(w)', job'[v] = job'[w]
                 PROVE  FALSE
        BY DEF OneSenderPerDelivery
    <2>1. ASSUME NEW x \in Workers, NEW y \in Workers, x # y, HoldsLock(y)', job'[x] = job'[y],
                 LoadSecret(x), job'[x] = job[x]
          PROVE  FALSE
        <3>1. pc'[y] = pc[y] /\ job' = job
            BY <2>1, <1>2 DEF LoadSecret, Goto, TypeInv, TypeOK
        <3>2. HoldsLock(y) /\ job[y] = job[x]
            BY <2>1, <3>1 DEF HoldsLock
        <3>. QED
            BY <2>1, <3>2 DEF LoadSecret, Locked
    <2>. QED
        BY <1>2, <2>1, LockEntry DEF OneSenderPerDelivery
<1>. QED
    BY <1>1, <1>2, TypeCorrect, PTL DEF Spec
=============================================================================
