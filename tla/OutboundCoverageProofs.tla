----------------------- MODULE OutboundCoverageProofs -----------------------
(***************************************************************************)
(* No delivery is lost: until a partition is moved between workers, every  *)
(* unsettled delivery of OutboundDelivery has an outbox row to send or a   *)
(* message that no worker is about to acknowledge.                         *)
(*                                                                         *)
(* Offsets are committed last.  A worker that acknowledges the head of its *)
(* partition has either settled that delivery or sent its retry message,   *)
(* which lies behind a head or in a partition where nothing is             *)
(* acknowledged.                                                           *)
(***************************************************************************)
EXTENDS OutboundDeliveryProofs

USE DEF PublishOutboundRetry, PublishOutboundDlq, PublishSlaBreached

(* What an append does to the messages of a partition.                     *)
LEMMA AppendFacts ==
    ASSUME NEW q \in Seq(Deliveries), NEW d \in Deliveries
    PROVE  /\ DOMAIN q = 1 .. Len(q) /\ Len(q) \in Nat
           /\ DOMAIN Append(q, d) = 1 .. (Len(q) + 1)
           /\ Append(q, d)[Len(q) + 1] = d
           /\ \A i \in DOMAIN q : i \in DOMAIN Append(q, d) /\ Append(q, d)[i] = q[i]
           /\ q # <<>> => Len(q) + 1 # 1
OBVIOUS

(* What acknowledging the head does to the messages behind it.             *)
LEMMA TailFacts ==
    ASSUME NEW q \in Seq(Deliveries), NEW i \in DOMAIN q, i # 1
    PROVE  i - 1 \in DOMAIN Tail(q) /\ Tail(q)[i - 1] = q[i]
<1>1. q # <<>> /\ Len(q) \in Nat /\ i \in 1 .. Len(q)
    OBVIOUS
<1>2. Len(Tail(q)) = Len(q) - 1 /\ DOMAIN Tail(q) = 1 .. (Len(q) - 1)
    BY <1>1
<1>. QED
    BY <1>1, <1>2

(* The first message is the head.                                          *)
LEMMA HeadFacts ==
    ASSUME NEW q \in Seq(Deliveries), q # <<>>
    PROVE  1 \in DOMAIN q /\ q[1] = Head(q)
OBVIOUS

-----------------------------------------------------------------------------
(* Without a rebalance no worker is fenced or left with old messages.      *)
LEMMA FenceStep ==
    ASSUME TypeInv, NoneFenced, [Next]_vars, spent'["rebalance"] = 0
    PROVE  /\ spent["rebalance"] = 0
           /\ fenced' = {} /\ \A w \in Workers : prefetched'[w] = {}
<1>1. spent \in [Bounded -> Nat] /\ prefetched \in [Workers -> SUBSET Deliveries]
    BY DEF TypeInv, TypeOK
<1>2. ASSUME NEW t \in Topics, NEW w \in Workers, Rebalance(t, w)
      PROVE  FALSE
    BY <1>1, <1>2 DEF Rebalance, Spend, Bounded
<1>3. ASSUME spent'["rebalance"] = spent["rebalance"], fenced' \subseteq fenced,
             \A w \in Workers : prefetched'[w] \subseteq prefetched[w]
      PROVE  /\ spent["rebalance"] = 0
             /\ fenced' = {} /\ \A w \in Workers : prefetched'[w] = {}
    BY <1>3 DEF NoneFenced
<1>4. ASSUME NEW d \in Deliveries, PersistDelivery(d) \/ RelaySend(d) \/ RotateSecret(d)
      PROVE  UNCHANGED <<spent, fenced, prefetched>>
    BY <1>4 DEF PersistDelivery, RelaySend, RotateSecret, kafka, session
<1>5. CASE RelayCommit \/ RelayCrash
    <2>1. spent'["rebalance"] = spent["rebalance"] /\ UNCHANGED <<fenced, prefetched>>
        BY <1>1, <1>5 DEF RelayCommit, RelayCrash, Spend, Bounded, kafka, session
    <2>. QED
        BY <1>3, <2>1
<1>6. ASSUME NEW w \in Workers, WorkerStep(w)
      PROVE  /\ spent'["rebalance"] = spent["rebalance"]
             /\ TakePrefetched(w) \/ fenced' \subseteq fenced
             /\ \A v \in Workers : prefetched'[v] \subseteq prefetched[v]
    <2>1. spent'["rebalance"] = spent["rebalance"]
        BY <1>1, <1>6 DEF WorkerStep, Take, TakePrefetched, FetchContext,
           LoadSecret, AllowOutbound, RefuseOutbound, PostOutbound, PostRaises, CommitDelivered, CommitRetrying,
           CommitFailed, CommitRejected, PublishRetry, PublishDlq, PublishSla, CommitOffset,
           CommitOffsetRefused, Spend, Bounded
    <2>2. TakePrefetched(w) \/ fenced' \subseteq fenced
        BY <1>6 DEF WorkerStep, Take, FetchContext,
           LoadSecret, AllowOutbound, RefuseOutbound, PostOutbound, PostRaises, CommitDelivered, CommitRetrying,
           CommitFailed, CommitRejected, PublishRetry, PublishDlq, PublishSla, CommitOffset,
           CommitOffsetRefused, Exit, Reset, session
    <2>3. \A v \in Workers : prefetched'[v] \subseteq prefetched[v]
        BY <1>1, <1>6 DEF WorkerStep, Take, TakePrefetched, FetchContext,
           LoadSecret, AllowOutbound, RefuseOutbound, PostOutbound, PostRaises, CommitDelivered, CommitRetrying,
           CommitFailed, CommitRejected, PublishRetry, PublishDlq, PublishSla, CommitOffset,
           CommitOffsetRefused, Exit, kafka
    <2>. QED
        BY <2>1, <2>2, <2>3
<1>7. ASSUME NEW w \in Workers, TakePrefetched(w), spent["rebalance"] = 0
      PROVE  FALSE
    BY <1>7 DEF TakePrefetched, NoneFenced
<1>8. ASSUME NEW w \in Workers, Crash(w)
      PROVE  /\ spent'["rebalance"] = spent["rebalance"] /\ fenced' \subseteq fenced
             /\ \A v \in Workers : prefetched'[v] \subseteq prefetched[v]
    BY <1>1, <1>8 DEF Crash, Exit, Reset, Spend, Bounded
<1>9. ASSUME NEW r \in Replayers, NEW d \in Deliveries, NEW reset \in BOOLEAN, ReplayRead(r, d, reset)
      PROVE  spent'["rebalance"] = spent["rebalance"] /\ UNCHANGED <<fenced, prefetched>>
    BY <1>1, <1>9 DEF ReplayRead, Spend, Bounded, kafka, session
<1>10. ASSUME NEW r \in Replayers, ReplayCommit(r)
      PROVE  UNCHANGED <<spent, fenced, prefetched>>
    BY <1>10 DEF ReplayCommit, kafka, session
<1>11. CASE UNCHANGED vars
    BY <1>3, <1>11 DEF vars, kafka, session
<1>. QED
    BY <1>2, <1>3, <1>4, <1>5, <1>6, <1>7, <1>8, <1>9, <1>10, <1>11 DEF Next, RelayStep

-----------------------------------------------------------------------------
(* The messages of d stay, and whoever comes to acknowledge one of a       *)
(* partition acknowledges another delivery's.                              *)
LEMMA CoveredKept ==
    ASSUME TypeInv, NEW d \in Deliveries, Covered(d),
           sent[d] < unpublished[d] => sent'[d] < unpublished'[d],
           \A t \in Topics : \A i \in DOMAIN queue[t] :
               i \in DOMAIN queue'[t] /\ queue'[t][i] = queue[t][i],
           \A v \in Workers : Settling(v)' =>
               /\ src'[v] = src[v]
               /\ Settling(v) \/ (src[v] \in Topics => queue[src[v]][1] # d)
    PROVE  Covered(d)'
<1>1. CASE sent[d] < unpublished[d]
    BY <1>1 DEF Covered
<1>2. ASSUME NEW t \in Topics, NEW i \in DOMAIN queue[t], queue[t][i] = d,
             \A w \in Workers : Settling(w) /\ src[w] = t => i # 1
      PROVE  Covered(d)'
    <2>1. ASSUME NEW w \in Workers, Settling(w)', src'[w] = t
          PROVE  i # 1
        BY <1>2, <2>1
    <2>. QED
        BY <1>2, <2>1 DEF Covered
<1>. QED
    BY <1>1, <1>2 DEF Covered

(* A worker starts settling its message when the delivery needs no more,   *)
(* or when it has sent the retry message.                                  *)
LEMMA SettlingStarts ==
    ASSUME TypeInv, NEW w \in Workers, WorkerStep(w), Settling(w)', ~Settling(w)
    PROVE  /\ src'[w] = src[w] /\ job'[w] = job[w] /\ pc[w] # "poll"
           /\ \/ status'[job[w]] \notin Sources
              \/ \E t \in RetryTopics : PublishRetry(w, t)
<1> USE DEF TypeInv, TypeOK, JobKnown, Settling, Goto
<1>1. CASE FetchContext(w)
    BY <1>1 DEF FetchContext, rows, columns
<1>2. CASE \E late \in BOOLEAN : CommitDelivered(w, late)
    BY <1>2 DEF CommitDelivered, Sources, session
<1>3. CASE CommitFailed(w)
    BY <1>3 DEF CommitFailed, Sources, session
<1>4. CASE \E t \in RetryTopics : PublishRetry(w, t)
    BY <1>4 DEF PublishRetry, session
<1>5. CASE (\E t \in Topics : Take(w, t)) \/ TakePrefetched(w) \/ LoadSecret(w)
               \/ AllowOutbound(w) \/ RefuseOutbound(w) \/ CommitRetrying(w)
               \/ \E reply \in Replies : PostOutbound(w, reply)
    BY <1>5 DEF Take, TakePrefetched, LoadSecret, AllowOutbound, RefuseOutbound, CommitRetrying,
       PostOutbound
<1>6. CASE PostRaises(w) \/ CommitRejected(w) \/ CommitOffset(w) \/ CommitOffsetRefused(w)
               \/ PublishDlq(w) \/ PublishSla(w)
    BY <1>6 DEF PostRaises, CommitRejected, CommitOffset, CommitOffsetRefused,
       Exit, Reset, PublishDlq, PublishSla
<1>. QED
    BY <1>1, <1>2, <1>3, <1>4, <1>5, <1>6 DEF WorkerStep

(* Only a worker's own step changes the partition it handles.              *)
LEMMA SourceFrame ==
    ASSUME TypeInv, [Next]_vars, NEW v \in Workers, Settling(v)'
    PROVE  /\ src'[v] = src[v]
           /\ Settling(v) \/ WorkerStep(v)
<1> USE DEF TypeInv, TypeOK
<1>1. src'[v] = src[v] \/ WorkerStep(v) \/ Crash(v)
    <2>1. ASSUME NEW w \in Workers, WorkerStep(w), w # v
          PROVE  src'[v] = src[v]
        BY <2>1 DEF WorkerStep, Take, TakePrefetched, FetchContext,
           LoadSecret, AllowOutbound, RefuseOutbound, PostOutbound, PostRaises, CommitDelivered, CommitRetrying,
           CommitFailed, CommitRejected, PublishRetry, PublishDlq, PublishSla, CommitOffset,
           CommitOffsetRefused, Exit, Reset, session
    <2>2. ASSUME NEW w \in Workers, Crash(w), w # v
          PROVE  src'[v] = src[v]
        BY <2>2 DEF Crash, Exit, Reset
    <2>3. CASE (\E d \in Deliveries : PersistDelivery(d) \/ RotateSecret(d)) \/ RelayStep \/ RelayCrash
        BY <2>3 DEF PersistDelivery, RotateSecret, RelayStep, RelaySend, RelayCommit, RelayCrash, session
    <2>4. CASE \E t \in Topics, w \in Workers : Rebalance(t, w)
        BY <2>4 DEF Rebalance
    <2>5. CASE (\E r \in Replayers : ReplayCommit(r)) \/ UNCHANGED vars
        BY <2>5 DEF ReplayCommit, vars, session
    <2>6. CASE \E r \in Replayers, d \in Deliveries, reset \in BOOLEAN : ReplayRead(r, d, reset)
        BY <2>6 DEF ReplayRead, session
    <2> HIDE DEF TypeInv, TypeOK
    <2>. QED
        BY <2>1, <2>2, <2>3, <2>4, <2>5, <2>6 DEF Next
<1>2. CASE Crash(v)
    BY <1>2 DEF Crash, Exit, Reset, Settling
<1>3. CASE WorkerStep(v)
    <2>1. CASE Settling(v)
        <3>1. pc[v] \in {"pub_dlq", "pub_sla", "ack"} /\ pc'[v] # "poll"
            BY <2>1 DEF Settling
        <3>2. PublishDlq(v) \/ PublishSla(v)
            BY <1>3, <3>1 DEF WorkerStep, Take, TakePrefetched, FetchContext,
               LoadSecret, AllowOutbound, RefuseOutbound, PostOutbound, PostRaises, CommitDelivered,
               CommitRetrying, CommitFailed, CommitRejected, PublishRetry, CommitOffset,
               CommitOffsetRefused, Exit, Reset
        <3>. QED
            BY <2>1, <3>2 DEF PublishDlq, PublishSla, session
    <2>2. CASE ~Settling(v)
        BY <1>3, <2>2, SettlingStarts
    <2>. QED
        BY <2>1, <2>2
<1>4. CASE ~WorkerStep(v) /\ ~Crash(v)
    BY <1>1, <1>4, WorkerFrame DEF Slot, Settling
<1>. QED
    BY <1>2, <1>3, <1>4

-----------------------------------------------------------------------------
(* One step keeps every unsettled delivery covered.                        *)
LEMMA CoverStep ==
    ASSUME CoverageInv, [Next]_vars, spent["rebalance"] = 0, fenced = {},
           NEW d \in Deliveries, status'[d] \in Sources
    PROVE  Covered(d)'
<1>1. TypeInv
    BY DEF CoverageInv
<1>2. /\ queue \in [Topics -> Seq(Deliveries)]
      /\ sent[d] \in Nat /\ unpublished[d] \in Nat /\ sent[d] <= unpublished[d]
      /\ status \in [Deliveries -> Statuses]
      /\ sent \in [Deliveries -> Nat] /\ unpublished \in [Deliveries -> Nat]
    BY <1>1 DEF TypeInv, TypeOK, SentUnpublished
<1>3. status[d] \in Sources => Covered(d)
    BY DEF CoverageInv, NoLostDelivery
(* Every busy worker handles the head of a partition that is its own.      *)
<1>4. ASSUME NEW v \in Workers, pc[v] # "poll"
      PROVE  /\ src[v] \in Topics /\ owner[src[v]] = v /\ job[v] \in Deliveries
             /\ queue[src[v]] # <<>> /\ 1 \in DOMAIN queue[src[v]]
             /\ queue[src[v]][1] = job[v]
    <2>1. src[v] \in Topics /\ owner[src[v]] = v /\ queue[src[v]] # <<>> /\ Head(queue[src[v]]) = job[v]
        BY <1>1, <1>4 DEF TypeInv, AcksOwnMessage
    <2>2. job[v] \in Deliveries
        BY <1>1, <1>4 DEF TypeInv, JobKnown
    <2>3. queue[src[v]] \in Seq(Deliveries)
        BY <1>2, <2>1
    <2>. QED
        BY <2>1, <2>2, <2>3, HeadFacts
(* A worker that starts settling does not settle d, unless by a retry.     *)
<1>5. ASSUME NEW v \in Workers, Settling(v)', ~Settling(v), ~(\E t \in RetryTopics : PublishRetry(v, t))
      PROVE  src'[v] = src[v] /\ queue[src[v]][1] # d
    <2>1. WorkerStep(v)
        BY <1>1, <1>5, SourceFrame
    <2>2. /\ src'[v] = src[v] /\ pc[v] # "poll"
          /\ status'[job[v]] \notin Sources
        BY <1>1, <1>5, <2>1, SettlingStarts
    <2>. QED
        BY <1>4, <2>2
<1>6. ASSUME sent[d] < unpublished[d] => sent'[d] < unpublished'[d],
             \A t \in Topics : \A i \in DOMAIN queue[t] :
                 i \in DOMAIN queue'[t] /\ queue'[t][i] = queue[t][i],
             status[d] \in Sources,
             \A v \in Workers, t \in RetryTopics : ~PublishRetry(v, t)
      PROVE  Covered(d)'
    <2>1. \A v \in Workers : Settling(v)' =>
              /\ src'[v] = src[v]
              /\ Settling(v) \/ (src[v] \in Topics => queue[src[v]][1] # d)
        BY <1>1, <1>5, <1>6, SourceFrame
    <2>. QED
        BY <1>1, <1>3, <1>6, <2>1, CoveredKept
<1>7. ASSUME sent'[d] < unpublished'[d]
      PROVE  Covered(d)'
    BY <1>7 DEF Covered
(* Accepting and replaying leave an outbox row to send.                    *)
<1>8. ASSUME UNCHANGED queue, UNCHANGED sent, pc' = pc, NEW e \in Deliveries,
             unpublished' = [unpublished EXCEPT ![e] = @ + 1],
             d # e => status'[d] = status[d]
      PROVE  Covered(d)'
    <2>1. CASE d = e
        BY <1>2, <1>7, <1>8, <2>1
    <2>2. CASE d # e
        <3>1. \A v \in Workers, t \in RetryTopics : ~PublishRetry(v, t)
            BY <1>1, <1>8 DEF PublishRetry, Goto, TypeInv, TypeOK
        <3>. QED
            BY <1>2, <1>6, <1>8, <2>2, <3>1
    <2>. QED
        BY <2>1, <2>2
<1>9. ASSUME NEW e \in Deliveries, PersistDelivery(e)
      PROVE  Covered(d)'
    BY <1>2, <1>8, <1>9 DEF PersistDelivery, kafka
<1>10. ASSUME NEW r \in Replayers, ReplayCommit(r)
      PROVE  Covered(d)'
    <2>1. replay[r].delivery \in Deliveries
        BY <1>1, <1>10 DEF ReplayCommit, TypeInv, TypeOK, Replay
    <2>. QED
        BY <1>2, <1>8, <1>10, <2>1 DEF ReplayCommit, kafka
(* A message appended to a partition lies behind what is being settled.    *)
<1>11. ASSUME NEW t \in Topics, queue'[t] = Append(queue[t], d),
              \A v \in Workers : Settling(v)' /\ src'[v] = t => queue[t] # <<>>
       PROVE  Covered(d)'
    <2>1. Len(queue[t]) + 1 \in DOMAIN queue'[t] /\ queue'[t][Len(queue[t]) + 1] = d
        BY <1>2, <1>11, AppendFacts
    <2>2. queue[t] # <<>> => Len(queue[t]) + 1 # 1
        BY <1>2, AppendFacts
    <2>. QED
        BY <1>11, <2>1, <2>2 DEF Covered
<1>12. ASSUME NEW t \in Topics, NEW e \in Deliveries,
              queue' = [queue EXCEPT ![t] = Append(@, e)]
       PROVE  /\ queue'[t] = Append(queue[t], e)
              /\ \A u \in Topics : \A i \in DOMAIN queue[u] :
                    i \in DOMAIN queue'[u] /\ queue'[u][i] = queue[u][i]
    <2>1. queue'[t] = Append(queue[t], e) /\ \A u \in Topics \ {t} : queue'[u] = queue[u]
        BY <1>2, <1>12
    <2>2. queue[t] \in Seq(Deliveries)
        BY <1>2
    <2>3. \A i \in DOMAIN queue[t] : i \in DOMAIN queue'[t] /\ queue'[t][i] = queue[t][i]
        BY <2>1, <2>2, AppendFacts
    <2>. QED
        BY <2>1, <2>3
<1>13. ASSUME NEW e \in Deliveries, RelaySend(e)
       PROVE  Covered(d)'
    <2>1. /\ queue' = [queue EXCEPT !["pending"] = Append(@, e)] /\ "pending" \in Topics
          /\ pc' = pc /\ src' = src /\ status' = status /\ unpublished' = unpublished
          /\ sent' = [sent EXCEPT ![e] = @ + 1]
        BY <1>13 DEF RelaySend, rows, columns, session, Topics
    <2>2. CASE d = e
        <3>1. \A v \in Workers : Settling(v)' /\ src'[v] = "pending" => queue["pending"] # <<>>
            BY <1>4, <2>1 DEF Settling
        <3>. QED
            BY <1>11, <1>12, <2>1, <2>2, <3>1
    <2>3. CASE d # e
        <3>1. sent'[d] = sent[d] /\ unpublished'[d] = unpublished[d]
            BY <1>2, <2>1, <2>3
        <3>2. \A v \in Workers, t \in RetryTopics : ~PublishRetry(v, t)
            BY <1>1, <2>1 DEF PublishRetry, Goto, TypeInv, TypeOK
        <3>3. status[d] \in Sources
            BY <2>1
        <3>. QED
            BY <1>6, <1>12, <2>1, <3>1, <3>2, <3>3
    <2>. QED
        BY <2>2, <2>3
<1>14. ASSUME NEW w \in Workers, NEW t \in RetryTopics, PublishRetry(w, t)
       PROVE  Covered(d)'
    <2>1. /\ queue' = [queue EXCEPT ![t] = Append(@, job[w])] /\ t \in Topics
          /\ src' = src /\ status' = status /\ UNCHANGED outbox
          /\ pc' = [pc EXCEPT ![w] = "ack"] /\ pc[w] = "pub_retry"
        BY <1>14 DEF PublishRetry, Goto, rows, columns, session, Topics
    <2>2. \A v \in Workers : Settling(v)' => pc[v] # "poll" /\ (Settling(v) \/ v = w)
        BY <1>1, <2>1 DEF Settling, TypeInv, TypeOK
    <2>3. job[w] \in Deliveries
        BY <1>4, <2>1
    <2>4. CASE d = job[w]
        <3>1. \A v \in Workers : Settling(v)' /\ src'[v] = t => queue[t] # <<>>
            BY <1>4, <2>1, <2>2
        <3>. QED
            BY <1>11, <1>12, <2>1, <2>3, <2>4, <3>1
    <2>5. CASE d # job[w]
        <3>1. \A v \in Workers : Settling(v)' =>
                  /\ src'[v] = src[v]
                  /\ Settling(v) \/ (src[v] \in Topics => queue[src[v]][1] # d)
            BY <1>4, <2>1, <2>2, <2>5
        <3>2. Covered(d) /\ sent'[d] = sent[d] /\ unpublished'[d] = unpublished[d]
            BY <1>3, <2>1 DEF outbox
        <3>. QED
            BY <1>1, <1>12, <2>1, <2>3, <3>1, <3>2, CoveredKept
    <2>. QED
        BY <2>4, <2>5
(* The message a worker has just marked RETRYING is still its own head.    *)
<1>15. ASSUME NEW w \in Workers, CommitRetrying(w)
       PROVE  Covered(d)'
    <2>1. /\ UNCHANGED <<queue, sent, unpublished, src, job>> /\ pc[w] = "commit"
          /\ status' = [status EXCEPT ![job[w]] = "retrying"]
          /\ pc' = [pc EXCEPT ![w] = "pub_retry"]
        BY <1>15 DEF CommitRetrying, Goto, outbox, kafka, session
    <2>2. CASE d = job[w]
        <3>1. \A v \in Workers : Settling(v)' => v # w /\ pc[v] # "poll"
            BY <1>1, <2>1 DEF Settling, TypeInv, TypeOK
        <3>2. /\ src[w] \in Topics /\ 1 \in DOMAIN queue'[src[w]] /\ queue'[src[w]][1] = d
              /\ owner[src[w]] = w
            BY <1>4, <2>1, <2>2
        <3>3. \A v \in Workers : Settling(v)' => src'[v] # src[w]
            BY <1>4, <2>1, <3>1, <3>2
        <3>. QED
            BY <3>2, <3>3 DEF Covered
    <2>3. CASE d # job[w]
        <3>1. \A v \in Workers, t \in RetryTopics : ~PublishRetry(v, t)
            BY <1>1, <2>1 DEF PublishRetry, Goto, TypeInv, TypeOK
        <3>2. status[d] \in Sources
            BY <1>2, <2>1, <2>3
        <3>. QED
            BY <1>6, <2>1, <3>1, <3>2
    <2>. QED
        BY <2>2, <2>3
(* What lies behind an acknowledged head moves up, and nobody settles it.  *)
<1>16. ASSUME NEW w \in Workers, CommitOffset(w)
       PROVE  Covered(d)'
    <2>1. /\ queue' = [queue EXCEPT ![src[w]] = Tail(@)]
          /\ status' = status /\ UNCHANGED outbox
          /\ pc' = [pc EXCEPT ![w] = "poll"] /\ pc[w] = "ack"
          /\ src' = [src EXCEPT ![w] = None]
        BY <1>16 DEF CommitOffset, Reset, rows, columns
    <2>2. \A v \in Workers : Settling(v)' => Settling(v) /\ src'[v] = src[v] /\ src[v] # src[w]
        <3>1. \A v \in Workers : Settling(v)' => v # w /\ Settling(v) /\ src'[v] = src[v]
            BY <1>1, <2>1 DEF Settling, TypeInv, TypeOK
        <3>2. \A v \in Workers : v # w /\ Settling(v) => src[v] # src[w]
            BY <1>4, <2>1 DEF Settling
        <3>. QED
            BY <3>1, <3>2
    <2>3. CASE sent[d] < unpublished[d]
        BY <1>7, <2>1, <2>3 DEF outbox
    <2>4. ASSUME NEW t \in Topics, NEW i \in DOMAIN queue[t], queue[t][i] = d,
                 \A v \in Workers : Settling(v) /\ src[v] = t => i # 1
          PROVE  Covered(d)'
        <3>1. CASE t # src[w]
            <4>1. queue'[t] = queue[t]
                BY <1>2, <2>1, <3>1
            <4>. QED
                BY <2>2, <2>4, <4>1 DEF Covered
        <3>2. CASE t = src[w]
            <4>1. i # 1
                BY <2>1, <2>4, <3>2 DEF Settling
            <4>2. queue'[t] = Tail(queue[t]) /\ queue[t] \in Seq(Deliveries)
                BY <1>2, <2>1, <3>2
            <4>3. i - 1 \in DOMAIN queue'[t] /\ queue'[t][i - 1] = d
                BY <2>4, <4>1, <4>2, TailFacts
            <4>4. \A v \in Workers : Settling(v)' => src'[v] # t
                BY <2>2, <3>2
            <4>. QED
                BY <4>3, <4>4 DEF Covered
        <3>. QED
            BY <3>1, <3>2
    <2>5. Covered(d)
        BY <1>3, <2>1
    <2>. QED
        BY <2>3, <2>4, <2>5 DEF Covered
<1>17. ASSUME UNCHANGED queue, sent[d] < unpublished[d] => sent'[d] < unpublished'[d],
              status'[d] = status[d],
              \A v \in Workers, t \in RetryTopics : ~PublishRetry(v, t)
       PROVE  Covered(d)'
    BY <1>6, <1>17
<1>18. \A v \in Workers, t \in RetryTopics : PublishRetry(v, t) => queue' # queue
    <2> SUFFICES ASSUME NEW v \in Workers, NEW t \in RetryTopics, PublishRetry(v, t), queue' = queue
                 PROVE  FALSE
        OBVIOUS
    <2>1. t \in Topics /\ job[v] \in Deliveries /\ queue' = [queue EXCEPT ![t] = Append(@, job[v])]
        BY <1>1 DEF PublishRetry, Topics, TypeInv, JobKnown
    <2>2. queue[t] = Append(queue[t], job[v]) /\ queue[t] \in Seq(Deliveries)
        BY <1>2, <2>1
    <2>3. Len(queue[t]) \in Nat /\ Len(Append(queue[t], job[v])) = Len(queue[t]) + 1
        BY <2>1, <2>2
    <2>. QED
        BY <2>2, <2>3
<1>19. ASSUME UNCHANGED <<queue, status, outbox>>
       PROVE  Covered(d)'
    BY <1>17, <1>18, <1>19 DEF outbox
<1>20. CASE RelayCommit \/ RelayCrash
    <2>1. /\ UNCHANGED <<queue, status>>
          /\ sent[d] < unpublished[d] => sent'[d] < unpublished'[d]
        BY <1>2, <1>20 DEF RelayCommit, RelayCrash, rows, columns, kafka
    <2>. QED
        BY <1>17, <1>18, <2>1
<1>21. ASSUME NEW w \in Workers, (\E late \in BOOLEAN : CommitDelivered(w, late)) \/ CommitFailed(w)
       PROVE  Covered(d)'
    <2>1. job[w] \in Deliveries
        BY <1>1, <1>21 DEF CommitDelivered, CommitFailed, TypeInv, JobKnown
    <2>2. UNCHANGED <<queue, sent, unpublished>> /\ status'[d] = status[d]
        BY <1>2, <1>21, <2>1 DEF CommitDelivered, CommitFailed, outbox, kafka, Sources
    <2>. QED
        BY <1>17, <1>18, <2>2
<1>22. ASSUME NEW w \in Workers, WorkerStep(w)
       PROVE  Covered(d)'
    <2>1. \/ UNCHANGED <<queue, status, outbox>>
          \/ (\E late \in BOOLEAN : CommitDelivered(w, late)) \/ CommitFailed(w)
          \/ CommitRetrying(w) \/ CommitOffset(w)
          \/ \E t \in RetryTopics : PublishRetry(w, t)
        BY <1>22 DEF WorkerStep, Take, TakePrefetched, FetchContext, LoadSecret, AllowOutbound,
           RefuseOutbound, PostOutbound, PostRaises, CommitRejected, PublishDlq, PublishSla,
           CommitOffsetRefused, rows, columns, kafka
    <2>. QED
        BY <1>14, <1>15, <1>16, <1>19, <1>21, <2>1
<1>23. ASSUME NEW w \in Workers, Crash(w)
       PROVE  UNCHANGED <<queue, status, outbox>>
    BY <1>23 DEF Crash, rows, columns
<1>24. ASSUME NEW t \in Topics, NEW w \in Workers, Rebalance(t, w)
       PROVE  UNCHANGED <<queue, status, outbox>>
    BY <1>24 DEF Rebalance, rows, columns
<1>25. ASSUME NEW e \in Deliveries, RotateSecret(e)
       PROVE  UNCHANGED <<queue, status, outbox>>
    BY <1>25 DEF RotateSecret, rows, columns, kafka
<1>26. ASSUME NEW r \in Replayers, NEW e \in Deliveries, NEW reset \in BOOLEAN, ReplayRead(r, e, reset)
       PROVE  UNCHANGED <<queue, status, outbox>>
    BY <1>26 DEF ReplayRead, rows, columns, kafka
<1>27. CASE UNCHANGED vars
    BY <1>19, <1>27 DEF vars, rows, columns, kafka
<1>. QED
    BY <1>9, <1>10, <1>13, <1>19, <1>20, <1>22, <1>23, <1>24, <1>25, <1>26, <1>27 DEF Next, RelayStep

(* Through crashes of workers and relay, duplicates, retries, deferrals    *)
(* and replays, no unsettled delivery is without a message, until a        *)
(* partition is moved.                                                     *)
THEOREM NothingLost == Spec => []NoLostDelivery
<1>1. Init => CoverageInv
    <2>1. Init => TypeInv
        BY TypeInit
    <2>2. Init => NoneFenced /\ NoLostDelivery
        BY DEF Init, NoneFenced, NoLostDelivery, Sources
    <2>. QED
        BY <2>1, <2>2 DEF CoverageInv
<1>2. CoverageInv /\ [Next]_vars => CoverageInv'
    <2> SUFFICES ASSUME CoverageInv, [Next]_vars
                 PROVE  CoverageInv'
        OBVIOUS
    <2>1. TypeInv /\ NoneFenced
        BY DEF CoverageInv
    <2>2. TypeInv'
        BY <2>1, TypeStep, AcksStep DEF TypeInv
    <2>3. NoneFenced'
        BY <2>1, FenceStep DEF NoneFenced
    <2>4. ASSUME spent'["rebalance"] = 0
          PROVE  spent["rebalance"] = 0 /\ fenced = {}
        BY <2>1, <2>4, FenceStep DEF NoneFenced
    <2>5. NoLostDelivery'
        BY <2>4, CoverStep DEF NoLostDelivery
    <2>. QED
        BY <2>2, <2>3, <2>5 DEF CoverageInv
<1>3. CoverageInv => NoLostDelivery
    BY DEF CoverageInv
<1>. QED
    BY <1>1, <1>2, <1>3, PTL DEF Spec
=============================================================================
