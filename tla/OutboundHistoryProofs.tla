------------------------ MODULE OutboundHistoryProofs ------------------------
(***************************************************************************)
(* The delivery history of OutboundDelivery: what is recorded agrees with  *)
(* what is claimed, and the history is an AttemptLedger.                   *)
(*                                                                         *)
(* A worker numbers its attempt from a counter it read without a lock.     *)
(* The heart of the argument is FreshAttempt: as every counter in use      *)
(* stands for a recorded retryable attempt and the numbers are gapless, a  *)
(* number the UNIQUE constraint accepts is the next one, and everything    *)
(* before it was retryable, however stale the counter was.                 *)
(***************************************************************************)
EXTENDS OutboundDeliveryProofs

USE DEF PublishOutboundRetry, PublishOutboundDlq, PublishSlaBreached

-----------------------------------------------------------------------------
(* The only steps that change the rows of deliveries or the event topics.  *)
LEMMA RowFrame ==
    ASSUME [Next]_vars
    PROVE  \/ UNCHANGED <<rows, events>>
           \/ \E d \in Deliveries : PersistDelivery(d)
           \/ \E w \in Workers, late \in BOOLEAN : CommitDelivered(w, late)
           \/ \E w \in Workers : CommitRetrying(w) \/ CommitFailed(w)
           \/ \E w \in Workers : PublishDlq(w) \/ PublishSla(w)
           \/ \E r \in Replayers : ReplayCommit(r)
<1>1. CASE RelayStep \/ RelayCrash
    BY <1>1 DEF RelayStep, RelaySend, RelayCommit, RelayCrash
<1>2. ASSUME NEW w \in Workers, WorkerStep(w)
      PROVE  \/ UNCHANGED <<rows, events>>
             \/ \E late \in BOOLEAN : CommitDelivered(w, late)
             \/ CommitRetrying(w) \/ CommitFailed(w) \/ PublishDlq(w) \/ PublishSla(w)
    BY <1>2 DEF WorkerStep, Take, TakePrefetched, FetchContext, LoadSecret, AllowOutbound,
       RefuseOutbound, PostOutbound, PostRaises, CommitRejected, PublishRetry, CommitOffset, CommitOffsetRefused
<1>3. ASSUME NEW w \in Workers, Crash(w)
      PROVE  UNCHANGED <<rows, events>>
    BY <1>3 DEF Crash
<1>4. ASSUME NEW t \in Topics, NEW w \in Workers, Rebalance(t, w)
      PROVE  UNCHANGED <<rows, events>>
    BY <1>4 DEF Rebalance
<1>5. ASSUME NEW d \in Deliveries, RotateSecret(d)
      PROVE  UNCHANGED <<rows, events>>
    BY <1>5 DEF RotateSecret
<1>6. ASSUME NEW r \in Replayers, NEW d \in Deliveries, NEW reset \in BOOLEAN, ReplayRead(r, d, reset)
      PROVE  UNCHANGED <<rows, events>>
    BY <1>6 DEF ReplayRead
<1>7. CASE UNCHANGED vars
    BY <1>7 DEF vars
<1>. QED
    BY <1>1, <1>2, <1>3, <1>4, <1>5, <1>6, <1>7 DEF Next

(* The number a worker may record comes right after the recorded ones, and *)
(* all of those were answered with a retryable failure.                    *)
LEMMA FreshAttempt ==
    ASSUME HistoryInv, NEW w \in Workers, pc[w] = "commit",
           WritesAttempt(w), ~DuplicateAttempt(w)
    PROVE  /\ job[w] \in Deliveries
           /\ AttemptNumber(w) \in Nat \ {0}
           /\ AttemptNumber(w) <= MaxAttempts + 1
           /\ \A a \in attempts[job[w]] : a.number < AttemptNumber(w) /\ a.outcome = "retryable"
           /\ \A m \in 1 .. (AttemptNumber(w) - 1) : Retried(job[w], m)
<1> DEFINE d == job[w]
           c == seen[w].attempt_count
           n == AttemptNumber(w)
<1>1. d \in Deliveries /\ c \in Nat /\ n = c + 1 /\ MaxAttempts \in Nat
    BY MaxAttemptsAssumption DEF HistoryInv, TypeInv, TypeOK, JobKnown, Seen, AttemptNumber
<1>2. attempts[d] \subseteq Attempt
    BY <1>1 DEF HistoryInv, TypeInv, TypeOK
<1>3. CountBacked(d, c)
    BY DEF HistoryInv, CountsBacked, Handling
<1>4. ASSUME NEW a \in attempts[d]
      PROVE  /\ \A b \in attempts[d] : a.number = b.number => a = b
             /\ \A m \in 1 .. (a.number - 1) : Retried(d, m)
    BY <1>1, <1>4 DEF HistoryInv, HistoryGapless
<1>5. \A a \in attempts[d] : a.number \in Nat \ {0} /\ a.number # n
    BY <1>2 DEF Attempt, DuplicateAttempt
<1>6. ~Retried(d, n)
    BY <1>5 DEF Retried
<1> HIDE DEF d, c, n
<1>7. \A a \in attempts[d] : a.number < n
    <2> SUFFICES ASSUME NEW a \in attempts[d], n < a.number
                 PROVE  FALSE
        BY <1>1, <1>5
    <2>1. n \in 1 .. (a.number - 1)
        BY <1>1, <1>5
    <2>. QED
        BY <1>4, <1>6, <2>1
<1>8. \A m \in 1 .. (n - 1) : Retried(d, m)
    <2> SUFFICES ASSUME NEW m \in 1 .. (n - 1)
                 PROVE  Retried(d, m)
        OBVIOUS
    <2> DEFINE last == [number |-> c, outcome |-> "retryable"]
    <2>1. m = c \/ m \in 1 .. (c - 1)
        BY <1>1
    <2>2. last \in attempts[d] /\ last.number = c
        BY <1>1, <1>3 DEF CountBacked, Retried
    <2> HIDE DEF last
    <2>3. \A k \in 1 .. (c - 1) : Retried(d, k)
        BY <1>4, <2>2
    <2>4. Retried(d, c)
        BY <2>2 DEF Retried, last
    <2>. QED
        BY <2>1, <2>3, <2>4
<1>9. ASSUME NEW a \in attempts[d]
      PROVE  a.outcome = "retryable"
    <2> DEFINE other == [number |-> a.number, outcome |-> "retryable"]
    <2>1. a.number \in 1 .. (n - 1)
        BY <1>1, <1>5, <1>7, <1>9
    <2>2. other \in attempts[d] /\ other.number = a.number /\ other.outcome = "retryable"
        BY <1>8, <2>1 DEF Retried
    <2> HIDE DEF other
    <2>3. a = other
        BY <1>4, <1>9, <2>2
    <2>. QED
        BY <2>2, <2>3
<1>10. n <= MaxAttempts + 1
    BY <1>1, <1>3 DEF CountBacked
<1>. QED
    BY <1>1, <1>7, <1>8, <1>9, <1>10 DEF d, n

(* What a worker goes on with is what it had, or what the row holds now.   *)
LEMMA SeenFrame ==
    ASSUME TypeInv, [Next]_vars, NEW v \in Workers, Handling(v)'
    PROVE  /\ job'[v] = job[v]
           /\ job[v] \in Deliveries
           /\ \/ Handling(v) /\ seen'[v] = seen[v]
              \/ /\ seen'[v].attempt_count = attempt_count[job[v]]
                 /\ seen'[v].first_success = first_success[job[v]]
                 /\ status[job[v]] \in Sources
                 /\ UNCHANGED rows
<1> DEFINE Kept == Handling(v) /\ seen'[v] = seen[v] /\ job'[v] = job[v]
<1>1. CASE Slot(v)' = Slot(v)
    <2>1. Kept
        BY <1>1 DEF Slot, Handling
    <2>. QED
        BY <2>1 DEF Handling, TypeInv, JobKnown
<1>2. CASE FetchContext(v)
    BY <1>2 DEF FetchContext, Goto, Handling, TypeInv, TypeOK, JobKnown
<1>3. CASE WorkerStep(v) /\ ~FetchContext(v)
    <2>1. Kept
        BY <1>3 DEF TypeInv, TypeOK, Handling, WorkerStep, Take, TakePrefetched,
           LoadSecret, AllowOutbound, RefuseOutbound, PostOutbound, PostRaises, CommitDelivered, CommitRetrying,
           CommitFailed, CommitRejected, PublishRetry, PublishDlq, PublishSla, CommitOffset,
           CommitOffsetRefused, Exit, Reset, Goto, session
    <2>. QED
        BY <2>1 DEF Handling, TypeInv, JobKnown
<1>4. CASE Crash(v)
    BY <1>4 DEF TypeInv, TypeOK, Handling, Crash, Exit, Reset
<1>. QED
    BY <1>1, <1>2, <1>3, <1>4, WorkerFrame DEF TypeInv

-----------------------------------------------------------------------------
(* The recorded attempts                                                   *)

(* Worker w may record an attempt, and this step records it.               *)
Records(w) ==
    /\ pc[w] = "commit"
    /\ WritesAttempt(w)
    /\ ~DuplicateAttempt(w)
    /\ attempts' = AttemptRows(w)

(* A step records one attempt of one worker, or none.                      *)
LEMMA LedgerStep ==
    ASSUME [Next]_vars
    PROVE  attempts' = attempts \/ \E w \in Workers : Records(w)
<1>1. ASSUME NEW w \in Workers, pc[w] = "commit", ~ViolatesUnique(w), attempts' = AttemptRows(w)
      PROVE  attempts' = attempts \/ Records(w)
    BY <1>1 DEF Records, ViolatesUnique, AttemptRows
<1>2. ASSUME NEW d \in Deliveries, PersistDelivery(d)
      PROVE  attempts' = attempts
    BY <1>2 DEF PersistDelivery
<1>3. ASSUME NEW w \in Workers, PublishDlq(w) \/ PublishSla(w)
      PROVE  attempts' = attempts
    BY <1>3 DEF PublishDlq, PublishSla, rows
<1>4. ASSUME NEW r \in Replayers, ReplayCommit(r)
      PROVE  attempts' = attempts
    BY <1>4 DEF ReplayCommit
<1>5. ASSUME NEW w \in Workers, NEW late \in BOOLEAN, CommitDelivered(w, late)
      PROVE  attempts' = attempts \/ Records(w)
    BY <1>1, <1>5 DEF CommitDelivered
<1>6. ASSUME NEW w \in Workers, CommitRetrying(w) \/ CommitFailed(w)
      PROVE  attempts' = attempts \/ Records(w)
    BY <1>1, <1>6 DEF CommitRetrying, CommitFailed
<1>7. CASE UNCHANGED <<rows, events>>
    BY <1>7 DEF rows
<1>. QED
    BY <1>2, <1>3, <1>4, <1>5, <1>6, <1>7, RowFrame

(* How the rows of the delivery change when w records its attempt.         *)
LEMMA RecordFrame ==
    ASSUME TypeInv, NEW w \in Workers, Records(w)
    PROVE  /\ attempts'[job[w]] =
                 attempts[job[w]] \cup {[number |-> AttemptNumber(w), outcome |-> verdict[w]]}
           /\ \A d \in Deliveries \ {job[w]} : attempts'[d] = attempts[d]
BY DEF TypeInv, TypeOK, JobKnown, Records, AttemptRows

(* Rows are only ever added.                                               *)
LEMMA RowsGrow ==
    ASSUME TypeInv, [Next]_vars
    PROVE  /\ \A d \in Deliveries : attempts[d] \subseteq attempts'[d]
           /\ deadLetters \subseteq deadLetters'
           /\ sla_breached \subseteq sla_breached'
<1>1. \A d \in Deliveries : attempts[d] \subseteq attempts'[d]
    <2>1. ASSUME NEW w \in Workers, Records(w)
          PROVE  \A d \in Deliveries : attempts[d] \subseteq attempts'[d]
        BY <2>1, RecordFrame
    <2>. QED
        BY <2>1, LedgerStep
<1>2. deadLetters \subseteq deadLetters' /\ sla_breached \subseteq sla_breached'
    BY RowFrame DEF rows, columns, PersistDelivery, CommitDelivered, CommitRetrying, CommitFailed,
       PublishDlq, PublishSla, ReplayCommit
<1>. QED
    BY <1>1, <1>2

(* Recording keeps the numbers unique, gapless and bounded.                *)
LEMMA GaplessStep ==
    ASSUME HistoryInv, [Next]_vars
    PROVE  HistoryGapless' /\ NumbersBounded'
<1>1. TypeInv
    BY DEF HistoryInv
<1>2. CASE attempts' = attempts
    BY <1>2 DEF HistoryInv, HistoryGapless, NumbersBounded, Retried
<1>3. ASSUME NEW w \in Workers, Records(w)
      PROVE  HistoryGapless' /\ NumbersBounded'
    <2> DEFINE n == AttemptNumber(w)
               new == [number |-> n, outcome |-> verdict[w]]
    <2>1. /\ n \in Nat \ {0} /\ n <= MaxAttempts + 1
          /\ job[w] \in Deliveries
          /\ \A a \in attempts[job[w]] : a.number < n
          /\ \A m \in 1 .. (n - 1) : Retried(job[w], m)
        BY <1>3, FreshAttempt DEF Records
    <2>2. new.number = n
        OBVIOUS
    <2>3. /\ attempts'[job[w]] = attempts[job[w]] \cup {new}
          /\ \A d \in Deliveries \ {job[w]} : attempts'[d] = attempts[d]
        BY <1>1, <1>3, RecordFrame
    <2>4. \A d \in Deliveries : \A a \in attempts[d] : a.number \in Nat
        BY <1>1 DEF TypeInv, TypeOK, Attempt
    <2> HIDE DEF n, new
    <2>5. \A d \in Deliveries : \A m : Retried(d, m) => Retried(d, m)'
        BY <2>3 DEF Retried
    <2>6. ASSUME NEW d \in Deliveries, NEW a \in attempts'[d]
          PROVE  /\ \A b \in attempts'[d] : a.number = b.number => a = b
                 /\ \A m \in 1 .. (a.number - 1) : Retried(d, m)'
                 /\ a.number <= MaxAttempts + 1
        <3>1. CASE a \in attempts[d]
            <4>1. \A b \in attempts[d] : a.number = b.number => a = b
                BY <3>1 DEF HistoryInv, HistoryGapless
            <4>2. \A m \in 1 .. (a.number - 1) : Retried(d, m)
                BY <3>1 DEF HistoryInv, HistoryGapless
            <4>3. a.number <= MaxAttempts + 1
                BY <3>1 DEF HistoryInv, NumbersBounded
            <4>4. d = job[w] => a.number # new.number
                BY <2>1, <2>2, <2>4, <3>1
            <4>. QED
                BY <2>3, <2>5, <4>1, <4>2, <4>3, <4>4
        <3>2. CASE d = job[w] /\ a = new
            <4>1. \A b \in attempts[d] : b.number # n
                BY <2>1, <2>4, <3>2
            <4>. QED
                BY <2>1, <2>2, <2>3, <2>5, <3>2, <4>1
        <3>. QED
            BY <2>3, <2>6, <3>1, <3>2
    <2>. QED
        BY <2>6 DEF HistoryGapless, NumbersBounded
<1>. QED
    BY <1>2, <1>3, LedgerStep

-----------------------------------------------------------------------------
(* Counters, first success, settled statuses and events                    *)

(* The counters of rows and workers stay backed.  A counter reaches        *)
(* MaxAttempts only with a dead letter, which the second UNIQUE constraint *)
(* lets be written once, so no worker can count past it.                   *)
LEMMA CountStep ==
    ASSUME HistoryInv, [Next]_vars
    PROVE  CountsBacked'
<1> DEFINE BackedNext(d, n) ==
               /\ n # 0 => [number |-> n, outcome |-> "retryable"] \in attempts'[d]
               /\ n <= MaxAttempts
               /\ n = MaxAttempts => d \in deadLetters'
           RowsBacked == \A d \in Deliveries : BackedNext(d, attempt_count'[d])
<1>1. TypeInv /\ MaxAttempts \in Nat \ {0}
    BY MaxAttemptsAssumption DEF HistoryInv
<1>2. ASSUME NEW d \in Deliveries, NEW n, CountBacked(d, n)
      PROVE  BackedNext(d, n)
    BY <1>1, <1>2, RowsGrow DEF CountBacked, Retried
<1>3. ASSUME NEW d \in Deliveries
      PROVE  CountBacked(d, 0)
    BY <1>1 DEF CountBacked
<1>4. \A d \in Deliveries : CountBacked(d, attempt_count[d])
    BY DEF HistoryInv, CountsBacked
<1>5. ASSUME NEW w \in Workers, CommitRetrying(w) \/ CommitFailed(w)
      PROVE  RowsBacked
    <2>1. job[w] \in Deliveries /\ pc[w] = "commit"
        BY <1>1, <1>5 DEF CommitRetrying, CommitFailed, TypeInv, JobKnown
    <2>2. \A d \in Deliveries :
              attempt_count'[d] = IF d = job[w] THEN CountedAttempts(w) ELSE attempt_count[d]
        BY <1>1, <1>5 DEF CommitRetrying, CommitFailed, TypeInv, TypeOK
    <2>3. CASE verdict[w] = "retryable"
        <3>1. Records(w) /\ WritesAttempt(w)
            BY <1>5, <2>3 DEF Answers, CommitRetrying, CommitFailed, Records, WritesAttempt, ViolatesUnique
        <3>2. [number |-> AttemptNumber(w), outcome |-> "retryable"] \in attempts'[job[w]]
            BY <1>1, <2>3, <3>1, RecordFrame
        <3>3. AttemptNumber(w) \in Nat
            BY <2>1, <3>1, FreshAttempt DEF Records
        <3>4. AttemptNumber(w) <= MaxAttempts
            <4>1. CASE CommitRetrying(w)
                BY <1>1, <2>3, <3>3, <4>1 DEF CommitRetrying, AttemptsLeft
            <4>2. CASE CommitFailed(w)
                <5>1. job[w] \notin deadLetters
                    BY <4>2 DEF CommitFailed, ViolatesUnique, DuplicateDeadLetter
                <5>2. CountBacked(job[w], seen[w].attempt_count) /\ seen[w].attempt_count \in Nat
                    BY <1>1, <2>1 DEF HistoryInv, CountsBacked, Handling, TypeInv, TypeOK, Seen
                <5>. QED
                    BY <1>1, <5>1, <5>2 DEF CountBacked, AttemptNumber
            <4>. QED
                BY <1>5, <4>1, <4>2
        <3>5. AttemptNumber(w) = MaxAttempts => job[w] \in deadLetters'
            BY <1>1, <1>5, <2>3, <3>3 DEF CommitRetrying, CommitFailed, AttemptsLeft
        <3>. QED
            BY <1>2, <1>4, <2>2, <2>3, <3>2, <3>4, <3>5 DEF CountedAttempts
    <2>4. CASE verdict[w] # "retryable"
        <3>1. attempt_count' = attempt_count
            BY <1>1, <2>1, <2>4, <1>5
            DEF CountedAttempts, CommitRetrying, CommitFailed, TypeInv, TypeOK
        <3>. QED
            BY <1>2, <1>4, <3>1
    <2>. QED
        BY <2>3, <2>4
<1>6. ASSUME NEW r \in Replayers, ReplayCommit(r)
      PROVE  RowsBacked
    <2>1. \A d \in Deliveries : attempt_count'[d] \in {0, attempt_count[d]}
        BY <1>1, <1>6 DEF ReplayCommit, TypeInv, TypeOK
    <2>. QED
        BY <1>2, <1>3, <1>4, <2>1
<1>7. ASSUME UNCHANGED attempt_count
      PROVE  RowsBacked
    BY <1>2, <1>4, <1>7
<1>8. RowsBacked
    BY <1>5, <1>6, <1>7, RowFrame
    DEF rows, columns, PersistDelivery, CommitDelivered, PublishDlq, PublishSla
<1>9. ASSUME NEW v \in Workers, Handling(v)'
      PROVE  BackedNext(job'[v], seen'[v].attempt_count)
    <2>1. CASE Handling(v) /\ seen'[v] = seen[v]
        <3>1. CountBacked(job[v], seen[v].attempt_count)
            BY <2>1 DEF HistoryInv, CountsBacked
        <3>. QED
            BY <1>1, <1>2, <1>9, <2>1, <3>1, SeenFrame
    <2>2. CASE seen'[v].attempt_count = attempt_count[job[v]]
        BY <1>1, <1>2, <1>4, <1>9, <2>2, SeenFrame
    <2>. QED
        BY <1>1, <1>9, <2>1, <2>2, SeenFrame
<1>. QED
    BY <1>8, <1>9 DEF CountsBacked, CountBacked, Retried

(* first_success stays the number of the one successful attempt: a worker  *)
(* that commits DELIVERED has seen none, as the attempts before its own    *)
(* are all retryable.                                                      *)
LEMMA FirstStep ==
    ASSUME HistoryInv, [Next]_vars
    PROVE  FirstsBacked'
<1> DEFINE BackedNext(d, n) == n # 0 => [number |-> n, outcome |-> "success"] \in attempts'[d]
           OnlyNext(d) == \A a \in attempts'[d] :
                              a.outcome = "success" => first_success'[d] = a.number
           RowsBacked == \A d \in Deliveries : BackedNext(d, first_success'[d]) /\ OnlyNext(d)
<1>1. TypeInv
    BY DEF HistoryInv
<1>2. ASSUME NEW d \in Deliveries, NEW n, FirstBacked(d, n)
      PROVE  BackedNext(d, n)
    BY <1>1, <1>2, RowsGrow DEF FirstBacked
<1>3. \A d \in Deliveries :
          /\ FirstBacked(d, first_success[d])
          /\ \A a \in attempts[d] : a.outcome = "success" => first_success[d] = a.number
    BY DEF HistoryInv, FirstsBacked
<1>4. ASSUME NEW w \in Workers, NEW late \in BOOLEAN, CommitDelivered(w, late)
      PROVE  RowsBacked
    <2> DEFINE new == [number |-> AttemptNumber(w), outcome |-> "success"]
    <2>1. pc[w] = "commit" /\ verdict[w] = "success" /\ Records(w)
        BY <1>4 DEF CommitDelivered, Records, WritesAttempt, ViolatesUnique, Answers
    <2>2. /\ job[w] \in Deliveries
          /\ \A a \in attempts[job[w]] : a.outcome = "retryable"
        BY <2>1, FreshAttempt DEF Records
    <2>3. /\ attempts'[job[w]] = attempts[job[w]] \cup {new}
          /\ \A d \in Deliveries \ {job[w]} : attempts'[d] = attempts[d]
        BY <1>1, <2>1, RecordFrame
    <2>4. seen[w].first_success = 0
        <3>1. FirstBacked(job[w], seen[w].first_success)
            BY <2>1 DEF HistoryInv, FirstsBacked, Handling
        <3>2. [number |-> seen[w].first_success, outcome |-> "success"].outcome # "retryable"
            OBVIOUS
        <3>. QED
            BY <2>2, <3>1, <3>2 DEF FirstBacked
    <2>5. \A d \in Deliveries :
              first_success'[d] = IF d = job[w] THEN AttemptNumber(w) ELSE first_success[d]
        BY <1>1, <1>4, <2>4 DEF CommitDelivered, FirstSuccess, TypeInv, TypeOK
    <2>6. \A d \in Deliveries \ {job[w]} : BackedNext(d, first_success'[d]) /\ OnlyNext(d)
        BY <1>2, <1>3, <2>3, <2>5
    <2>7. new.number = AttemptNumber(w) /\ new.outcome = "success"
        OBVIOUS
    <2>8. BackedNext(job[w], first_success'[job[w]])
        BY <2>2, <2>3, <2>5
    <2> HIDE DEF new
    <2>9. OnlyNext(job[w])
        BY <2>2, <2>3, <2>5, <2>7
    <2>. QED
        BY <2>6, <2>8, <2>9
<1>5. ASSUME UNCHANGED <<first_success, attempts>>
      PROVE  RowsBacked
    BY <1>3, <1>5 DEF FirstBacked
<1>6. ASSUME NEW w \in Workers, CommitRetrying(w) \/ CommitFailed(w)
      PROVE  RowsBacked
    <2>1. first_success' = first_success /\ verdict[w] # "success" /\ attempts' = AttemptRows(w)
        BY <1>6 DEF CommitRetrying, CommitFailed, WritesDeadLetter, Exhausted
    <2>2. ASSUME NEW d \in Deliveries, NEW a \in attempts'[d], a.outcome = "success"
          PROVE  a \in attempts[d]
        <3>1. [number |-> AttemptNumber(w), outcome |-> verdict[w]].outcome # "success"
            BY <2>1
        <3>. QED
            BY <1>1, <2>1, <2>2, <3>1 DEF AttemptRows, TypeInv, TypeOK
    <2>. QED
        BY <1>2, <1>3, <2>1, <2>2
<1>7. RowsBacked
    BY <1>4, <1>5, <1>6, RowFrame
    DEF rows, columns, PersistDelivery, PublishDlq, PublishSla, ReplayCommit
<1>8. ASSUME NEW v \in Workers, Handling(v)'
      PROVE  BackedNext(job'[v], seen'[v].first_success)
    <2>1. CASE Handling(v) /\ seen'[v] = seen[v]
        <3>1. FirstBacked(job[v], seen[v].first_success)
            BY <2>1 DEF HistoryInv, FirstsBacked
        <3>. QED
            BY <1>1, <1>2, <1>8, <2>1, <3>1, SeenFrame
    <2>2. CASE seen'[v].first_success = first_success[job[v]]
        BY <1>1, <1>2, <1>3, <1>8, <2>2, SeenFrame
    <2>. QED
        BY <1>1, <1>8, <2>1, <2>2, SeenFrame
<1>. QED
    BY <1>7, <1>8 DEF FirstsBacked, FirstBacked

(* A settled status keeps its record.                                      *)
LEMMA SettledStep ==
    ASSUME HistoryInv, [Next]_vars
    PROVE  SettledIsRecorded'
<1>1. TypeInv
    BY DEF HistoryInv
<1>2. ASSUME NEW d \in Deliveries, status'[d] = status[d], first_success'[d] = first_success[d]
      PROVE  /\ status'[d] = "delivered" =>
                    [number |-> first_success'[d], outcome |-> "success"] \in attempts'[d]
             /\ status'[d] = "failed" => d \in deadLetters'
    BY <1>1, <1>2, RowsGrow DEF HistoryInv, SettledIsRecorded
<1>3. ASSUME NEW w \in Workers, NEW late \in BOOLEAN, CommitDelivered(w, late)
      PROVE  SettledIsRecorded'
    <2>1. Records(w) /\ verdict[w] = "success" /\ job[w] \in Deliveries
        BY <1>1, <1>3
        DEF CommitDelivered, Records, WritesAttempt, ViolatesUnique, Answers, TypeInv, JobKnown
    <2>2. [number |-> AttemptNumber(w), outcome |-> "success"] \in attempts'[job[w]]
        BY <1>1, <2>1, RecordFrame
    <2>3. \A a \in attempts'[job[w]] : a.outcome = "success" => first_success'[job[w]] = a.number
        BY <2>1, FirstStep DEF FirstsBacked
    <2>4. first_success'[job[w]] = AttemptNumber(w)
        <3>1. [number |-> AttemptNumber(w), outcome |-> "success"].number = AttemptNumber(w)
            OBVIOUS
        <3>2. [number |-> AttemptNumber(w), outcome |-> "success"].outcome = "success"
            OBVIOUS
        <3>. QED
            BY <2>2, <2>3, <3>1, <3>2
    <2>5. /\ status'[job[w]] = "delivered"
          /\ \A d \in Deliveries \ {job[w]} :
                status'[d] = status[d] /\ first_success'[d] = first_success[d]
        BY <1>1, <1>3, <2>1 DEF CommitDelivered, TypeInv, TypeOK
    <2>. QED
        BY <1>2, <2>2, <2>4, <2>5 DEF SettledIsRecorded
<1>4. ASSUME NEW d \in Deliveries, NEW to \in {"pending", "retrying", "replaying", "failed"},
             status' = [status EXCEPT ![d] = to], UNCHANGED first_success,
             to = "failed" => d \in deadLetters'
      PROVE  SettledIsRecorded'
    <2>1. /\ status'[d] = to
          /\ \A e \in Deliveries \ {d} : status'[e] = status[e] /\ first_success'[e] = first_success[e]
        BY <1>1, <1>4 DEF TypeInv, TypeOK
    <2>. QED
        BY <1>2, <1>4, <2>1 DEF SettledIsRecorded
<1>5. ASSUME NEW w \in Workers, CommitRetrying(w) \/ CommitFailed(w)
      PROVE  SettledIsRecorded'
    <2>1. job[w] \in Deliveries
        BY <1>1, <1>5 DEF CommitRetrying, CommitFailed, TypeInv, JobKnown
    <2>. QED
        BY <1>4, <1>5, <2>1 DEF CommitRetrying, CommitFailed
<1>6. ASSUME NEW d \in Deliveries, PersistDelivery(d)
      PROVE  SettledIsRecorded'
    BY <1>4, <1>6 DEF PersistDelivery
<1>7. ASSUME NEW r \in Replayers, ReplayCommit(r)
      PROVE  SettledIsRecorded'
    <2>1. replay[r].delivery \in Deliveries
        BY <1>1, <1>7 DEF ReplayCommit, TypeInv, TypeOK, Replay
    <2>. QED
        BY <1>4, <1>7, <2>1 DEF ReplayCommit
<1>8. ASSUME UNCHANGED columns
      PROVE  SettledIsRecorded'
    BY <1>2, <1>8 DEF columns, SettledIsRecorded
<1>. QED
    BY <1>3, <1>5, <1>6, <1>7, <1>8, RowFrame DEF rows, PublishDlq, PublishSla

(* What is announced, or about to be, is committed.                        *)
LEMMA EventStep ==
    ASSUME HistoryInv, [Next]_vars
    PROVE  AnnouncesCommitted' /\ EventsFollowCommits'
<1>1. TypeInv /\ AnnouncesCommitted /\ EventsFollowCommits
    BY DEF HistoryInv
<1>2. deadLetters \subseteq deadLetters' /\ sla_breached \subseteq sla_breached'
    BY <1>1, RowsGrow
<1>3. ASSUME NEW v \in Workers
      PROVE  /\ pc'[v] = "pub_dlq" => job'[v] \in deadLetters'
             /\ pc'[v] = "pub_sla" => job'[v] \in sla_breached'
    <2>1. CASE Slot(v)' = Slot(v)
        BY <1>1, <1>2, <2>1 DEF Slot, AnnouncesCommitted
    <2>2. CASE WorkerStep(v)
        <3>1. pc'[v] = "pub_dlq" => CommitFailed(v)
            BY <1>1, <2>2 DEF TypeInv, TypeOK, WorkerStep, Take, TakePrefetched, FetchContext,
               LoadSecret, AllowOutbound, RefuseOutbound, PostOutbound, PostRaises, CommitDelivered,
               CommitRetrying, CommitRejected, PublishRetry, PublishDlq, PublishSla,
               CommitOffset, CommitOffsetRefused, Exit, Reset, Goto
        <3>2. pc'[v] = "pub_sla" => \E late \in BOOLEAN : CommitDelivered(v, late) /\ BreachFlips(v, late)
            BY <1>1, <2>2 DEF TypeInv, TypeOK, WorkerStep, Take, TakePrefetched, FetchContext,
               LoadSecret, AllowOutbound, RefuseOutbound, PostOutbound, PostRaises, CommitDelivered,
               CommitRetrying, CommitFailed, CommitRejected, PublishRetry, PublishDlq, PublishSla,
               CommitOffset, CommitOffsetRefused, Exit, Reset, Goto
        <3>3. CommitFailed(v) => job'[v] \in deadLetters'
            BY DEF CommitFailed, session
        <3>4. \A late \in BOOLEAN :
                  CommitDelivered(v, late) /\ BreachFlips(v, late) => job'[v] \in sla_breached'
            BY DEF CommitDelivered, session
        <3>. QED
            BY <3>1, <3>2, <3>3, <3>4
    <2>3. CASE Crash(v)
        BY <1>1, <2>3 DEF TypeInv, TypeOK, Crash, Exit, Reset
    <2>. QED
        BY <1>1, <2>1, <2>2, <2>3, WorkerFrame DEF TypeInv
<1>4. EventsFollowCommits'
    <2>1. ASSUME UNCHANGED events
          PROVE  EventsFollowCommits'
        BY <1>1, <1>2, <2>1 DEF events, EventsFollowCommits
    <2>2. ASSUME NEW w \in Workers, PublishDlq(w) \/ PublishSla(w)
          PROVE  EventsFollowCommits'
        BY <1>1, <1>2, <2>2 DEF PublishDlq, PublishSla, EventsFollowCommits, AnnouncesCommitted
    <2>. QED
        BY <2>1, <2>2, RowFrame
        DEF PersistDelivery, CommitDelivered, CommitRetrying, CommitFailed, ReplayCommit
<1>. QED
    BY <1>3, <1>4 DEF AnnouncesCommitted

-----------------------------------------------------------------------------
(* The theorems                                                            *)

LEMMA HistoryInit == Init => HistoryInv
<1> SUFFICES ASSUME Init
             PROVE  HistoryInv
    OBVIOUS
<1>1. TypeInv
    BY TypeInit
<1>2. HistoryGapless /\ NumbersBounded /\ SettledIsRecorded
    BY DEF Init, HistoryGapless, NumbersBounded, SettledIsRecorded
<1>3. CountsBacked /\ FirstsBacked
    BY MaxAttemptsAssumption
    DEF Init, CountsBacked, CountBacked, FirstsBacked, FirstBacked, Handling
<1>4. AnnouncesCommitted /\ EventsFollowCommits
    BY DEF Init, AnnouncesCommitted, EventsFollowCommits
<1>. QED
    BY <1>1, <1>2, <1>3, <1>4 DEF HistoryInv

(* The inductive invariant: gapless numbers, backed counters and first     *)
(* successes, and announced events that are committed.                     *)
THEOREM HistoryCorrect == Spec => []HistoryInv
<1>1. TypeInv /\ [Next]_vars => TypeInv'
    BY TypeStep, AcksStep DEF TypeInv
<1>2. HistoryInv /\ [Next]_vars => HistoryInv'
    BY <1>1, GaplessStep, CountStep, FirstStep, SettledStep, EventStep DEF HistoryInv
<1>. QED
    BY HistoryInit, <1>2, PTL DEF Spec

(* DELIVERED is backed by an accepted attempt that first_success_at dates, *)
(* FAILED by a dead letter, whatever replays, crashes and stale workers do.*)
THEOREM SettledRecorded == Spec => []SettledIsRecorded
<1>1. HistoryInv => SettledIsRecorded
    BY DEF HistoryInv
<1>. QED
    BY HistoryCorrect, <1>1, PTL

(* Replays and counter resets never get a delivery beyond MaxAttempts + 1  *)
(* attempts, and the counter counts recorded retryable attempts.           *)
THEOREM BudgetKept == Spec => []AttemptBudget
<1>1. HistoryInv => AttemptBudget
    <2> SUFFICES ASSUME HistoryInv
                 PROVE  AttemptBudget
        OBVIOUS
    <2>1. \A d \in Deliveries : attempt_count[d] \in Nat
        BY DEF HistoryInv, TypeInv, TypeOK
    <2>2. \A d \in Deliveries : CountBacked(d, attempt_count[d])
        BY DEF HistoryInv, CountsBacked
    <2>3. NumbersBounded
        BY DEF HistoryInv
    <2>4. ASSUME NEW d \in Deliveries
          PROVE  /\ attempt_count[d] > 0 =>
                        [number |-> attempt_count[d], outcome |-> "retryable"] \in attempts[d]
                 /\ attempt_count[d] <= MaxAttempts
        BY <2>1, <2>2 DEF CountBacked, Retried
    <2>. QED
        BY <2>3, <2>4 DEF NumbersBounded, AttemptBudget
<1>. QED
    BY HistoryCorrect, <1>1, PTL

(* No DLQ or SLA event without the dead letter or the breach it announces. *)
THEOREM EventsCommitted == Spec => []EventsFollowCommits
<1>1. HistoryInv => EventsFollowCommits
    BY DEF HistoryInv
<1>. QED
    BY HistoryCorrect, <1>1, PTL

(* A delivery becomes FAILED with a dead letter that was not there before, *)
(* and dead letters stay: it becomes FAILED at most once.                  *)
THEOREM FailsOnlyOnce == Spec => FailsOnce
<1>1. ASSUME TypeInv, [Next]_vars, NEW d \in Deliveries, d \in deadLetters, status[d] # "failed"
      PROVE  status'[d] # "failed"
    <2>1. ASSUME NEW w \in Workers, CommitFailed(w)
          PROVE  status'[d] = status[d]
        <3>1. job[w] # d
            BY <1>1, <2>1 DEF CommitFailed, ViolatesUnique, DuplicateDeadLetter
        <3>. QED
            BY <1>1, <2>1, <3>1 DEF CommitFailed, TypeInv, TypeOK
    <2>2. ASSUME NEW e, NEW to, to # "failed", status' = [status EXCEPT ![e] = to]
          PROVE  status'[d] # "failed"
        BY <1>1, <2>2 DEF TypeInv, TypeOK
    <2>3. ASSUME NEW e \in Deliveries, PersistDelivery(e)
          PROVE  status'[d] # "failed"
        BY <2>2, <2>3 DEF PersistDelivery
    <2>4. ASSUME NEW w \in Workers, (\E late \in BOOLEAN : CommitDelivered(w, late)) \/ CommitRetrying(w)
          PROVE  status'[d] # "failed"
        BY <2>2, <2>4 DEF CommitDelivered, CommitRetrying
    <2>5. ASSUME NEW r \in Replayers, ReplayCommit(r)
          PROVE  status'[d] # "failed"
        BY <2>2, <2>5 DEF ReplayCommit
    <2>6. ASSUME UNCHANGED rows
          PROVE  status'[d] # "failed"
        BY <1>1, <2>6 DEF rows, columns
    <2>. QED
        BY <1>1, <2>1, <2>3, <2>4, <2>5, <2>6, RowFrame DEF PublishDlq, PublishSla
<1>2. TypeInv /\ [Next]_vars =>
        [\A d \in Deliveries :
            d \in deadLetters /\ status[d] # "failed" => status'[d] # "failed"]_vars
    BY <1>1
<1>. QED
    BY <1>2, TypeCorrect, PTL DEF Spec, FailsOnce

-----------------------------------------------------------------------------
(* Refinement of AttemptLedger                                             *)

(* Unlocked reads and UNIQUE constraints together implement the ledger:    *)
(* every step records the one attempt that may follow, or none.            *)
THEOREM LedgerRefinement == Spec => LedgerSpec
<1>1. Init => Ledger!Init
    BY DEF Init, Ledger!Init
<1>2. ASSUME HistoryInv, [Next]_vars
      PROVE  [Ledger!Next]_(Ledger!vars)
    <2>1. TypeInv
        BY <1>2 DEF HistoryInv
    <2>2. ASSUME NEW w \in Workers, Records(w),
                 first_success' = [first_success EXCEPT ![job[w]] =
                     IF verdict[w] = "success" THEN AttemptNumber(w) ELSE @]
          PROVE  Ledger!Next
        <3> DEFINE n == AttemptNumber(w)
                   d == job[w]
        <3>1. /\ d \in Deliveries /\ n \in Nat \ {0}
              /\ \A a \in attempts[d] : a.number < n /\ a.outcome = "retryable"
              /\ \A m \in 1 .. (n - 1) : Retried(d, m)
            BY <1>2, <2>2, FreshAttempt DEF Records
        <3>2. verdict[w] \in {"success", "poison", "retryable"}
            BY <2>2 DEF Records, WritesAttempt, Answers
        <3>3. attempts' = [attempts EXCEPT ![d] = @ \cup {[number |-> n, outcome |-> verdict[w]]}]
            BY <2>2 DEF Records, AttemptRows
        <3>4. first_success' = [first_success EXCEPT ![d] = IF verdict[w] = "success" THEN n ELSE @]
            BY <2>2
        <3> HIDE DEF n, d
        <3>5. n \in {1} \cup {a.number + 1 : a \in attempts[d]}
            <4>1. CASE n = 1
                BY <4>1
            <4>2. CASE n # 1
                <5> DEFINE last == [number |-> n - 1, outcome |-> "retryable"]
                <5>1. n - 1 \in 1 .. (n - 1)
                    BY <3>1, <4>2
                <5>2. last \in attempts[d]
                    BY <3>1, <5>1 DEF Retried
                <5>3. last.number + 1 = n
                    BY <3>1
                <5> HIDE DEF last
                <5>. QED
                    BY <5>2, <5>3
            <4>. QED
                BY <4>1, <4>2
        <3>6. Ledger!Record(d, n, verdict[w])
            BY <3>1, <3>3, <3>4, <3>5 DEF Ledger!Record, Ledger!Open, Ledger!Follows
        <3>. QED
            BY <3>1, <3>2, <3>5, <3>6 DEF Ledger!Next
    <2>3. ASSUME UNCHANGED <<attempts, first_success>>
          PROVE  UNCHANGED Ledger!vars
        BY <2>3 DEF Ledger!vars
    <2>4. ASSUME NEW w \in Workers, NEW late \in BOOLEAN, CommitDelivered(w, late)
          PROVE  Ledger!Next
        <3>1. Records(w) /\ verdict[w] = "success" /\ pc[w] = "commit"
            BY <2>4 DEF CommitDelivered, Records, WritesAttempt, ViolatesUnique, Answers
        <3>2. \A a \in attempts[job[w]] : a.outcome = "retryable"
            BY <1>2, <3>1, FreshAttempt DEF Records
        <3>3. seen[w].first_success = 0
            <4>1. FirstBacked(job[w], seen[w].first_success)
                BY <1>2, <3>1 DEF HistoryInv, FirstsBacked, Handling
            <4>2. [number |-> seen[w].first_success, outcome |-> "success"].outcome # "retryable"
                OBVIOUS
            <4>. QED
                BY <3>2, <4>1, <4>2 DEF FirstBacked
        <3>. QED
            BY <2>2, <2>4, <3>1, <3>3 DEF CommitDelivered, FirstSuccess
    <2>5. ASSUME NEW w \in Workers, CommitRetrying(w) \/ CommitFailed(w)
          PROVE  Ledger!Next \/ UNCHANGED Ledger!vars
        <3>1. /\ first_success' = first_success
              /\ verdict[w] # "success"
              /\ Records(w) \/ attempts' = attempts
            BY <2>5 DEF CommitRetrying, CommitFailed, WritesDeadLetter, Exhausted, Records,
               ViolatesUnique, AttemptRows
        <3>2. first_success' = [first_success EXCEPT ![job[w]] =
                  IF verdict[w] = "success" THEN AttemptNumber(w) ELSE @]
            BY <2>1, <3>1 DEF TypeInv, TypeOK
        <3>. QED
            BY <2>2, <2>3, <3>1, <3>2
    <2>. QED
        BY <1>2, <2>3, <2>4, <2>5, RowFrame
        DEF rows, columns, PersistDelivery, PublishDlq, PublishSla, ReplayCommit
<1>. QED
    BY <1>1, <1>2, HistoryCorrect, PTL DEF Spec, LedgerSpec, Ledger!Spec
-----------------------------------------------------------------------------
(* The transition table of DeliveryLifecycle                               *)

(* How a step changes the committed statuses.                              *)
LEMMA StatusFrame ==
    ASSUME TypeInv, [Next]_vars
    PROVE  \/ status' = status
           \/ \E d \in Deliveries : Lifecycle!Accept(d)
           \/ \E w \in Workers, to \in {"delivered", "retrying", "failed"} :
                 /\ Handling(w)
                 /\ pc'[w] \notin {"flush", "gate", "send", "commit"}
                 /\ status' = [status EXCEPT ![job[w]] = to]
                 /\ replay' = replay
           \/ \E r \in Replayers :
                 /\ replay[r].delivery # None
                 /\ status' = [status EXCEPT ![replay[r].delivery] = "replaying"]
                 /\ replay' = [replay EXCEPT ![r] = NoReplay]
<1>1. ASSUME NEW d \in Deliveries, PersistDelivery(d)
      PROVE  Lifecycle!Accept(d)
    BY <1>1 DEF PersistDelivery, Lifecycle!Accept
<1>2. ASSUME NEW w \in Workers, NEW late \in BOOLEAN, CommitDelivered(w, late)
      PROVE  /\ Handling(w)
             /\ pc'[w] \notin {"flush", "gate", "send", "commit"}
             /\ status' = [status EXCEPT ![job[w]] = "delivered"]
             /\ replay' = replay
    BY <1>2 DEF CommitDelivered, Handling, Goto, TypeInv, TypeOK
<1>3. ASSUME NEW w \in Workers, CommitRetrying(w) \/ CommitFailed(w)
      PROVE  /\ Handling(w)
             /\ pc'[w] \notin {"flush", "gate", "send", "commit"}
             /\ \E to \in {"delivered", "retrying", "failed"} :
                   status' = [status EXCEPT ![job[w]] = to]
             /\ replay' = replay
    BY <1>3 DEF CommitRetrying, CommitFailed, Handling, Goto, TypeInv, TypeOK
<1>4. ASSUME NEW r \in Replayers, ReplayCommit(r)
      PROVE  /\ replay[r].delivery # None
             /\ status' = [status EXCEPT ![replay[r].delivery] = "replaying"]
             /\ replay' = [replay EXCEPT ![r] = NoReplay]
    BY <1>4 DEF ReplayCommit
<1>5. ASSUME NEW w \in Workers, PublishDlq(w) \/ PublishSla(w)
      PROVE  status' = status
    BY <1>5 DEF PublishDlq, PublishSla, rows, columns
<1>6. CASE UNCHANGED <<rows, events>>
    BY <1>6 DEF rows, columns
<1>. QED
    BY <1>1, <1>2, <1>3, <1>4, <1>5, <1>6, RowFrame

(* As long as what the sessions have read still holds, a step moves the    *)
(* committed status along the table, however many workers and replayers.   *)
LEMMA FreshStepIsValid ==
    ASSUME TypeInv, ReadsHold, [Next]_vars
    PROVE  [Lifecycle!Next]_status
<1>1. ASSUME NEW w \in Workers, NEW to \in {"delivered", "retrying", "failed"}, Handling(w),
             status' = [status EXCEPT ![job[w]] = to]
      PROVE  Lifecycle!Next
    <2>1. job[w] \in Deliveries /\ status[job[w]] \in Sources
        BY <1>1 DEF ReadsHold, TypeInv, JobKnown, Handling
    <2>2. Lifecycle!Move(job[w], to)
        BY <1>1, <2>1 DEF Sources, Lifecycle!Move, Lifecycle!CommittedStep, Lifecycle!ValidTransitions
    <2>. QED
        BY <2>1, <2>2 DEF Lifecycle!Next
<1>2. ASSUME NEW r \in Replayers, replay[r].delivery # None,
             status' = [status EXCEPT ![replay[r].delivery] = "replaying"]
      PROVE  Lifecycle!Next
    <2>1. replay[r].delivery \in Deliveries /\ status[replay[r].delivery] = "failed"
        BY <1>2 DEF ReadsHold, TypeInv, TypeOK, Replay
    <2>2. Lifecycle!Move(replay[r].delivery, "replaying")
        BY <1>2, <2>1 DEF Lifecycle!Move, Lifecycle!CommittedStep, Lifecycle!ValidTransitions
    <2>. QED
        BY <2>1, <2>2 DEF Lifecycle!Next
<1>. QED
    BY <1>1, <1>2, StatusFrame DEF Lifecycle!Next

(* Whatever the number of workers and replayers, the status leaves the     *)
(* table only in a state in which some session's unlocked read is stale:   *)
(* re-checking the status under the row lock would be enough.              *)
THEOREM OffTableNeedsStaleRead == Spec => [][ReadsHold => Lifecycle!Next]_status
<1>1. TypeInv /\ [Next]_vars => [ReadsHold => Lifecycle!Next]_status
    BY FreshStepIsValid
<1>. QED
    BY <1>1, TypeCorrect, PTL DEF Spec
=============================================================================
