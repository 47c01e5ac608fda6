------------------------- MODULE ReplayControlProofs -------------------------
(***************************************************************************)
(* Proofs about ReplayControl, for any number of deliveries, partners,     *)
(* approvals and sessions, any bulk lists and any batch limit.  What the   *)
(* properties need is what a session still holds from an earlier read: the *)
(* deliveries it read as FAILED and the approval it read as pending.       *)
(***************************************************************************)
EXTENDS ReplayControl, TLAPS, SequenceTheorems

(* Operations that work through a list, and that decide an approval.       *)
Listing  == {"replay", "approve", "bulk", "bulk_read", "scheduled"}
Deciding == {"approve", "approved", "reject"}

(* A session's list is not empty, a scheduled one has no row twice, and it *)
(* has an approval exactly when it decides one.                            *)
WellFormed(j) ==
    /\ j \in Job
    /\ j.op \in Listing => j.todo # <<>>
    /\ j.op = "scheduled" => \A m, n \in DOMAIN j.todo : m # n => j.todo[m] # j.todo[n]
    /\ j.approval # None <=> j.op \in Deciding

(* The deliveries a session with job j has read as FAILED (Holds).         *)
Held(j) ==
    CASE j.op \in {"replay", "approve"} -> {j.todo[1]}
      [] j.op = "bulk_read"             -> {j.todo[1]}
      [] j.op = "scheduled"             -> {j.todo[n] : n \in DOMAIN j.todo}
      [] OTHER                          -> {}

JobsWellFormed ==
    \A s \in Sessions :
        /\ WellFormed(job[s])
        /\ job[s].approval # None => approval[job[s].approval] # None

Typed == TypeOK /\ JobsWellFormed

(* A FAILED delivery has not been replayed.  One that no two sessions read *)
(* at once is held by one session at most, only before it is replayed, and *)
(* replayed at most once.                                                  *)
Exact ==
    /\ \A d \in Deliveries : status[d] = "failed" => replays[d] = 0
    /\ \A d \in Deliveries \ overlapped :
          /\ \A s, t \in Sessions : d \in Holds(s) /\ d \in Holds(t) => s = t
          /\ \A s \in Sessions : d \in Holds(s) => replays[d] = 0
          /\ replays[d] <= 1

(* A session that goes on to say "approved" has replayed.                  *)
ApprovingReplayed ==
    \A s \in Sessions : job[s].op = "approved" => job[s].approval \in cause

Replayed == ApprovingReplayed /\ ApprovedWasReplayed

(* A session approves the delivery of its approval, and the delivery of an *)
(* approval that has replayed has been replayed.                           *)
Caused ==
    /\ \A s \in Sessions :
          job[s].op = "approve" => job[s].todo[1] = approval[job[s].approval].delivery
    /\ \A a \in cause : approval[a] # None /\ replays[approval[a].delivery] > 0

(* An approval that one session at a time decides is pending while that    *)
(* session is at work and has no audit row before.  When it has replayed,  *)
(* it is approved, or its session still owes the verdict, or it ended      *)
(* half-way; then nobody is approving it and it is not approved.           *)
DecidedOnceOf(a) ==
    /\ \A s, t \in Sessions : job[s].approval = a /\ job[t].approval = a => s = t
    /\ \A s \in Sessions : job[s].approval = a => Pending(a)
    /\ \A x \in decided : x[1] = a => approval[a] # None /\ approval[a].status = x[2]
    /\ a \in cause =>
          \/ approval[a].status = "approved"
          \/ \E s \in Sessions : job[s].approval = a /\ job[s].op = "approved"
          \/ a \in halfway
    /\ a \in halfway =>
          /\ a \in cause
          /\ approval[a].status # "approved"
          /\ \A s \in Sessions : job[s].approval = a => job[s].op = "reject"

DecidedOnce == \A a \in Approvals \ contested : DecidedOnceOf(a)

ReplayInv ==
    /\ Typed
    /\ Exact
    /\ Replayed
    /\ Caused
    /\ DecidedOnce

-----------------------------------------------------------------------------
(* What a session takes up next                                            *)

(* A list that is not empty has a first element and, if it is longer, a    *)
(* rest that is not empty; the rest holds the later elements.              *)
LEMMA ListFacts ==
    ASSUME NEW q \in Seq(Deliveries), q # <<>>
    PROVE  /\ Len(q) \in Nat \ {0} /\ DOMAIN q = 1..Len(q)
           /\ Head(q) = q[1] /\ q[1] \in Deliveries
           /\ \A n \in DOMAIN q : q[n] \in Deliveries
           /\ Tail(q) \in Seq(Deliveries)
           /\ Len(q) # 1 => Tail(q) # <<>>
           /\ DOMAIN Tail(q) = 1..(Len(q) - 1)
           /\ \A n \in DOMAIN Tail(q) : Tail(q)[n] = q[n + 1]
<1>1. Len(q) \in Nat \ {0} /\ DOMAIN q = 1..Len(q)
    BY EmptySeq, LenProperties
<1>2. Tail(q) \in Seq(Deliveries) /\ Len(Tail(q)) = Len(q) - 1
    BY HeadTailProperties
<1>3. DOMAIN Tail(q) = 1..(Len(q) - 1)
    BY <1>2, LenProperties
<1>4. \A n \in 1..(Len(q) - 1) : Tail(q)[n] = q[n + 1]
    BY <1>2, HeadTailProperties
<1>5. Len(q) # 1 => Tail(q) # <<>>
    <2>1. Len(<<>>) = 0
        BY EmptySeq
    <2>2. Len(q) # 1 => Len(Tail(q)) # 0
        BY <1>1, <1>2
    <2>. QED
        BY <2>1, <2>2, Zenon
<1>6. \A n \in 1..Len(q) : q[n] \in Deliveries
    BY ElementOfSeq
<1>7. Head(q) = q[1]
    OBVIOUS
<1>. QED
    BY <1>1, <1>2, <1>3, <1>4, <1>5, <1>6, <1>7

(* A list of one delivery.                                                 *)
LEMMA Singleton ==
    ASSUME NEW d \in Deliveries
    PROVE  /\ <<d>> \in Seq(Deliveries) /\ <<d>> # <<>> /\ <<d>>[1] = d
OBVIOUS

(* A session that has ended is well formed and holds nothing.              *)
LEMMA IdleFacts == WellFormed(IdleJob) /\ Held(IdleJob) = {} /\ IdleJob.approval = None
<1>1. IdleJob \in Job
    BY EmptySeq DEF IdleJob, Job, Ops
<1>. QED
    BY <1>1 DEF IdleJob, WellFormed, Held, Listing, Deciding

(* What a session holds are deliveries.                                    *)
LEMMA HeldDeliveries ==
    ASSUME NEW j, WellFormed(j)
    PROVE  Held(j) \subseteq Deliveries
<1>1. j.todo \in Seq(Deliveries) /\ (j.op \in Listing => j.todo # <<>>)
    BY DEF WellFormed, Job
<1>. QED
    BY <1>1, ListFacts DEF Held, Listing

(* Bulk and scheduled replay go on with the rest of the list, and no       *)
(* longer hold the row they are done with (NextRow).                       *)
LEMMA NextRowFacts ==
    ASSUME Typed, NEW s \in Sessions, Batch(s), NextRow(s)
    PROVE  \E j : /\ WellFormed(j) /\ j.approval = None /\ j.op # "approved"
                  /\ job' = [job EXCEPT ![s] = j]
                  /\ Held(j) \subseteq Holds(s) \ {Head(job[s].todo)}
<1> DEFINE q == job[s].todo
<1>1. /\ q \in Seq(Deliveries) /\ q # <<>>
      /\ job[s].op = "scheduled" => \A m, n \in DOMAIN q : m # n => q[m] # q[n]
    BY DEF Typed, JobsWellFormed, WellFormed, Job, Batch, Listing
<1>2. CASE Len(q) = 1
    <2>1. job' = [job EXCEPT ![s] = IdleJob]
        BY <1>2 DEF NextRow, End
    <2>2. IdleJob.op # "approved"
        BY DEF IdleJob
    <2>. QED
        BY <2>1, <2>2, IdleFacts
<1>3. CASE Len(q) # 1 /\ job[s].op = "scheduled"
    <2> DEFINE j == [op |-> "scheduled", todo |-> Tail(q), approval |-> None]
    <2>1. job' = [job EXCEPT ![s] = j]
        BY <1>3 DEF NextRow, Begin
    <2>2. Tail(q) \in Seq(Deliveries) /\ Tail(q) # <<>>
        BY <1>1, <1>3, ListFacts
    <2>3. j \in Job
        BY <2>2 DEF Job, Ops
    <2>4. ASSUME NEW m \in DOMAIN Tail(q), NEW n \in DOMAIN Tail(q), m # n
          PROVE  Tail(q)[m] # Tail(q)[n]
        BY <1>1, <1>3, <2>4, ListFacts
    <2>5. WellFormed(j)
        BY <2>2, <2>3, <2>4 DEF WellFormed, Deciding
    <2>6. ASSUME NEW n \in DOMAIN Tail(q)
          PROVE  Tail(q)[n] \in Holds(s) /\ Tail(q)[n] # Head(q)
        <3>1. /\ n + 1 \in DOMAIN q /\ 1 \in DOMAIN q /\ n + 1 # 1
              /\ Tail(q)[n] = q[n + 1] /\ Head(q) = q[1]
            BY <1>1, ListFacts
        <3>2. Holds(s) = {q[m] : m \in DOMAIN q}
            BY <1>3 DEF Holds
        <3>. QED
            BY <1>1, <1>3, <3>1, <3>2
    <2>7. Held(j) = {Tail(q)[n] : n \in DOMAIN Tail(q)}
        BY DEF Held
    <2>8. j.approval = None /\ j.op # "approved"
        OBVIOUS
    <2>9. Held(j) \subseteq Holds(s) \ {Head(q)}
        BY <2>6, <2>7
    <2>. HIDE DEF j
    <2>. QED
        BY <2>1, <2>5, <2>8, <2>9
<1>4. CASE Len(q) # 1 /\ job[s].op # "scheduled"
    <2> DEFINE j == [op |-> "bulk", todo |-> Tail(q), approval |-> None]
    <2>1. job' = [job EXCEPT ![s] = j]
        BY <1>4 DEF NextRow, Begin
    <2>2. Tail(q) \in Seq(Deliveries) /\ Tail(q) # <<>>
        BY <1>1, <1>4, ListFacts
    <2>3. WellFormed(j)
        BY <2>2 DEF Job, Ops, WellFormed, Deciding
    <2>4. Held(j) = {} /\ j.approval = None /\ j.op # "approved"
        BY DEF Held
    <2>. HIDE DEF j
    <2>. QED
        BY <2>1, <2>3, <2>4
<1>. QED
    BY <1>2, <1>3, <1>4

(* A scheduled batch is a list of stale, failed deliveries, none twice.    *)
LEMMA BatchFacts ==
    ASSUME TypeOK, NEW batch \in StaleBatches
    PROVE  LET j == [op |-> "scheduled", todo |-> batch, approval |-> None]
           IN  /\ WellFormed(j)
               /\ Held(j) = {batch[n] : n \in DOMAIN batch}
               /\ \A d \in Held(j) : d \in Deliveries /\ status[d] = "failed"
<1> DEFINE j == [op |-> "scheduled", todo |-> batch, approval |-> None]
<1>1. PICK k \in 1..BatchLimit : batch \in [1..k -> StaleRows]
    BY DEF StaleBatches
<1>2. k \in Nat /\ k >= 1
    BY <1>1, BatchAssumption
<1>3. StaleRows \subseteq {d \in Deliveries : status[d] = "failed"}
    BY DEF TypeOK, StaleRows
<1>4. batch \in [1..k -> Deliveries] /\ DOMAIN batch = 1..k
    BY <1>1, <1>3
<1>5. batch \in Seq(Deliveries)
    BY <1>2, <1>4, SeqDef
<1>6. batch # <<>>
    BY <1>2, <1>4, <1>5, LenProperties, EmptySeq
<1>7. ASSUME NEW m \in DOMAIN batch, NEW n \in DOMAIN batch, m # n
      PROVE  batch[m] # batch[n]
    BY <1>2, <1>4, <1>7 DEF StaleBatches
<1>8. j \in Job
    BY <1>5 DEF Job, Ops
<1>9. WellFormed(j)
    BY <1>6, <1>7, <1>8 DEF WellFormed, Deciding
<1>10. Held(j) = {batch[n] : n \in DOMAIN batch}
    BY DEF Held
<1>11. \A n \in DOMAIN batch : batch[n] \in StaleRows
    BY <1>1
<1>. QED
    BY <1>3, <1>9, <1>10, <1>11

-----------------------------------------------------------------------------
(* Steps of a session                                                      *)

(* Session s goes over to job j.                                           *)
TakesUp(s, j) ==
    /\ WellFormed(j)
    /\ j.approval # None => approval[j.approval] # None
    /\ job' = [job EXCEPT ![s] = j]

(* What it holds then: nothing new; rows it reads as FAILED in this step;  *)
(* or no longer the row it has replayed in this step.                      *)
HoldsOn(s, j) == Held(j) \subseteq Holds(s) /\ UNCHANGED <<rows, overlapped>>
Reads(s, j) ==
    /\ \A d \in Held(j) : status[d] = "failed"
    /\ NoteRead(s, Held(j)) /\ UNCHANGED rows
Replays(s, j) ==
    /\ \E d \in Holds(s) : SetReplaying(d) /\ Held(j) \subseteq Holds(s) \ {d}
    /\ UNCHANGED overlapped

Moves(s) == \E j : TakesUp(s, j) /\ (HoldsOn(s, j) \/ Reads(s, j) \/ Replays(s, j))

(* A session that only ends.                                               *)
LEMMA EndMoves ==
    ASSUME NEW s \in Sessions, End(s), UNCHANGED <<rows, overlapped>>
    PROVE  Moves(s)
<1>1. TakesUp(s, IdleJob) /\ HoldsOn(s, IdleJob)
    BY IdleFacts DEF End, TakesUp, HoldsOn
<1>. QED
    BY <1>1 DEF Moves

(* A session with an approval: it was made, and the row is there.          *)
LEMMA DecidingFacts ==
    ASSUME Typed, NEW s \in Sessions, job[s].op \in Deciding
    PROVE  /\ job[s].approval \in Approvals
           /\ approval[job[s].approval] # None
           /\ approval[job[s].approval] \in Approval
BY DEF Typed, TypeOK, JobsWellFormed, WellFormed, Job

(* The steps of work that has begun.                                       *)
LEMMA WorkMoves ==
    ASSUME Typed, NEW s \in Sessions, Work(s)
    PROVE  Moves(s)
<1>1. /\ job[s].todo \in Seq(Deliveries)
      /\ job[s].op \in Listing => job[s].todo # <<>>
    BY DEF Typed, JobsWellFormed, WellFormed, Job
<1>2. CASE CommitReplay(s)
    <2>1. Holds(s) = {job[s].todo[1]}
        BY <1>2 DEF CommitReplay, Holds
    <2>2. TakesUp(s, IdleJob) /\ Replays(s, IdleJob)
        BY <1>2, <2>1, IdleFacts DEF CommitReplay, End, TakesUp, Replays, history
    <2>. QED
        BY <2>2 DEF Moves
<1>3. CASE ApproveReplay(s)
    <2> DEFINE j == [op |-> "approved", todo |-> <<>>, approval |-> job[s].approval]
    <2>1. Holds(s) = {job[s].todo[1]}
        BY <1>3 DEF ApproveReplay, Holds
    <2>2. job[s].approval \in Approvals /\ approval[job[s].approval] # None
        BY <1>3, DecidingFacts DEF ApproveReplay, Deciding
    <2>3. job[s].approval # None
        BY <2>2, NoneAssumption
    <2>4. j \in Job
        BY <2>2, EmptySeq DEF Job, Ops
    <2>5. WellFormed(j) /\ Held(j) = {}
        BY <2>3, <2>4 DEF WellFormed, Held, Listing, Deciding
    <2>6. TakesUp(s, j) /\ Replays(s, j)
        BY <1>3, <2>1, <2>2, <2>5 DEF ApproveReplay, Begin, TakesUp, Replays, history
    <2>. HIDE DEF j
    <2>. QED
        BY <2>6 DEF Moves
<1>4. CASE CommitApprove(s) \/ CommitReject(s)
    BY <1>4, EndMoves DEF CommitApprove, CommitReject, Decide, history
<1>5. CASE ReadBulk(s)
    <2> DEFINE d == Head(job[s].todo)
               j == [op |-> "bulk_read", todo |-> job[s].todo, approval |-> None]
               k == [op |-> "bulk", todo |-> Tail(job[s].todo), approval |-> None]
    <2>1. job[s].todo # <<>>
        BY <1>1, <1>5 DEF ReadBulk, Listing
    <2>2. CASE status[d] = "failed" /\ Begin(s, "bulk_read", job[s].todo, None) /\ NoteRead(s, {d})
        <3>1. j \in Job
            BY <1>1 DEF Job, Ops
        <3>2. WellFormed(j) /\ Held(j) = {d}
            BY <1>1, <2>1, <3>1, ListFacts DEF WellFormed, Held, Deciding
        <3>3. TakesUp(s, j) /\ Reads(s, j)
            BY <1>5, <2>2, <3>2 DEF ReadBulk, Begin, TakesUp, Reads
        <3>. HIDE DEF j
        <3>. QED
            BY <3>3 DEF Moves
    <2>3. CASE End(s) /\ UNCHANGED overlapped
        BY <1>5, <2>3, EndMoves DEF ReadBulk
    <2>4. CASE Len(job[s].todo) # 1 /\ Begin(s, "bulk", Tail(job[s].todo), None) /\ UNCHANGED overlapped
        <3>1. Tail(job[s].todo) \in Seq(Deliveries) /\ Tail(job[s].todo) # <<>>
            BY <1>1, <2>1, <2>4, ListFacts
        <3>2. k \in Job
            BY <3>1 DEF Job, Ops
        <3>3. WellFormed(k) /\ Held(k) = {}
            BY <3>1, <3>2 DEF WellFormed, Held, Deciding
        <3>4. TakesUp(s, k) /\ HoldsOn(s, k)
            BY <1>5, <2>4, <3>3 DEF ReadBulk, Begin, TakesUp, HoldsOn
        <3>. HIDE DEF k
        <3>. QED
            BY <3>4 DEF Moves
    <2>. QED
        BY <1>5, <2>2, <2>3, <2>4 DEF ReadBulk
<1>6. CASE SkipRow(s)
    <2>1. PICK j : /\ WellFormed(j) /\ j.approval = None
                   /\ job' = [job EXCEPT ![s] = j]
                   /\ Held(j) \subseteq Holds(s) \ {Head(job[s].todo)}
        BY <1>6, NextRowFacts DEF SkipRow
    <2>2. TakesUp(s, j) /\ HoldsOn(s, j)
        BY <1>6, <2>1 DEF SkipRow, TakesUp, HoldsOn, history
    <2>. QED
        BY <2>2 DEF Moves
<1>7. CASE ReplayRow(s)
    <2>1. PICK j : /\ WellFormed(j) /\ j.approval = None
                   /\ job' = [job EXCEPT ![s] = j]
                   /\ Held(j) \subseteq Holds(s) \ {Head(job[s].todo)}
        BY <1>7, NextRowFacts DEF ReplayRow
    <2>2. /\ job[s].op \in {"bulk_read", "scheduled"} /\ job[s].todo # <<>>
          /\ SetReplaying(Head(job[s].todo)) /\ UNCHANGED overlapped
        BY <1>1, <1>7 DEF ReplayRow, Batch, Listing, history
    <2>3. Head(job[s].todo) \in Holds(s)
        BY <1>1, <2>2, ListFacts DEF Holds
    <2>4. TakesUp(s, j) /\ Replays(s, j)
        BY <2>1, <2>2, <2>3 DEF TakesUp, Replays
    <2>. QED
        BY <2>4 DEF Moves
<1>. QED
    BY <1>2, <1>3, <1>4, <1>5, <1>6, <1>7 DEF Work

(* The steps that begin work.                                              *)
LEMMA AskMoves ==
    ASSUME Typed, NEW s \in Sessions, Idle(s),
           \/ s \in Requests /\ Ask(s)
           \/ s = Beat /\ BeginScheduled
    PROVE  Moves(s)
<1>1. CASE \E d \in Deliveries : ReadReplay(s, d)
    <2>1. PICK d \in Deliveries : ReadReplay(s, d)
        BY <1>1
    <2> DEFINE j == [op |-> "replay", todo |-> <<d>>, approval |-> None]
    <2>2. j \in Job
        BY Singleton DEF Job, Ops
    <2>3. WellFormed(j) /\ Held(j) = {d}
        BY <2>2, Singleton DEF WellFormed, Held, Deciding
    <2>4. TakesUp(s, j) /\ Reads(s, j)
        BY <2>1, <2>3 DEF ReadReplay, Begin, TakesUp, Reads
    <2>. HIDE DEF j
    <2>. QED
        BY <2>4 DEF Moves
<1>2. CASE \E a \in Approvals : ReadApprove(s, a)
    <2>1. PICK a \in Approvals : ReadApprove(s, a)
        BY <1>2
    <2> DEFINE d == approval[a].delivery
               j == [op |-> "approve", todo |-> <<d>>, approval |-> a]
    <2>2. a # None /\ approval[a] # None
        BY <2>1, NoneAssumption DEF ReadApprove, Pending
    <2>3. d \in Deliveries
        BY <2>2 DEF Typed, TypeOK, Approval
    <2>4. j \in Job
        BY <2>3, Singleton DEF Job, Ops
    <2>5. WellFormed(j) /\ Held(j) = {d}
        BY <2>2, <2>3, <2>4, Singleton DEF WellFormed, Held, Deciding
    <2>6. TakesUp(s, j) /\ Reads(s, j)
        BY <2>1, <2>2, <2>5 DEF ReadApprove, Begin, TakesUp, Reads
    <2>. HIDE DEF j
    <2>. QED
        BY <2>6 DEF Moves
<1>3. CASE \E a \in Approvals : ReadReject(s, a)
    <2>1. PICK a \in Approvals : ReadReject(s, a)
        BY <1>3
    <2> DEFINE j == [op |-> "reject", todo |-> <<>>, approval |-> a]
    <2>2. a # None /\ approval[a] # None
        BY <2>1, NoneAssumption DEF ReadReject, Pending
    <2>3. j \in Job
        BY EmptySeq DEF Job, Ops
    <2>4. WellFormed(j) /\ Held(j) = {}
        BY <2>2, <2>3 DEF WellFormed, Held, Listing, Deciding
    <2>5. TakesUp(s, j) /\ HoldsOn(s, j)
        BY <2>1, <2>2, <2>4 DEF ReadReject, Begin, TakesUp, HoldsOn
    <2>. HIDE DEF j
    <2>. QED
        BY <2>5 DEF Moves
<1>4. CASE s \in Requests /\ \E ids \in Bulk[s] : BeginBulk(s, ids)
    <2>1. PICK ids \in Bulk[s] : BeginBulk(s, ids)
        BY <1>4
    <2> DEFINE j == [op |-> "bulk", todo |-> ids, approval |-> None]
    <2>2. ids \in Seq(Deliveries) /\ ids # <<>>
        BY <1>4, BulkAssumption
    <2>3. j \in Job
        BY <2>2 DEF Job, Ops
    <2>4. WellFormed(j) /\ Held(j) = {}
        BY <2>2, <2>3 DEF WellFormed, Held, Deciding
    <2>5. TakesUp(s, j) /\ HoldsOn(s, j)
        BY <2>1, <2>4 DEF BeginBulk, Begin, TakesUp, HoldsOn, history
    <2>. HIDE DEF j
    <2>. QED
        BY <2>5 DEF Moves
<1>5. CASE s = Beat /\ BeginScheduled
    <2>1. PICK batch \in StaleBatches :
              /\ Begin(Beat, "scheduled", batch, None)
              /\ NoteRead(Beat, {batch[n] : n \in DOMAIN batch})
        BY <1>5 DEF BeginScheduled
    <2> DEFINE j == [op |-> "scheduled", todo |-> batch, approval |-> None]
    <2>2. /\ WellFormed(j)
          /\ Held(j) = {batch[n] : n \in DOMAIN batch}
          /\ \A d \in Held(j) : status[d] = "failed"
        BY BatchFacts DEF Typed
    <2>3. TakesUp(s, j) /\ Reads(s, j)
        BY <1>5, <2>1, <2>2 DEF BeginScheduled, Begin, TakesUp, Reads
    <2>. HIDE DEF j
    <2>. QED
        BY <2>3 DEF Moves
<1>. QED
    BY <1>1, <1>2, <1>3, <1>4, <1>5 DEF Ask

(* A session that ends half-way.                                           *)
LEMMA CrashMoves ==
    ASSUME NEW s \in Sessions, Crash(s)
    PROVE  Moves(s)
BY EndMoves DEF Crash, history

(* The steps of Next, by who takes them: a session that begins, goes on or *)
(* ends, or the system around it, which leaves the jobs alone.             *)
Begins(s) ==
    /\ Idle(s)
    /\ \/ s \in Requests /\ Ask(s)
       \/ s = Beat /\ BeginScheduled
Around ==
    \/ \E a \in Approvals, d \in Deliveries : RequestApproval(a, d)
    \/ \E d \in Deliveries : Worker(d)
    \/ \E p \in Partners : CircuitMoves(p)
    \/ Age

LEMMA NextCases ==
    ASSUME Next
    PROVE  (\E s \in Sessions : Work(s) \/ Crash(s) \/ Begins(s)) \/ Around
<1>1. Beat \in Sessions /\ Requests \subseteq Sessions
    BY DEF Sessions
<1>2. ASSUME NEW s \in Requests, Ask(s) PROVE Begins(s)
    <2>1. Idle(s)
        BY <1>2 DEF Ask, ReadReplay, ReadApprove, ReadReject, BeginBulk
    <2>. QED
        BY <1>2, <2>1 DEF Begins
<1>3. BeginScheduled => Begins(Beat)
    <2>1. BeginScheduled => Idle(Beat)
        BY DEF BeginScheduled
    <2>. QED
        BY <2>1 DEF Begins
<1>4. CASE \E s \in Requests : Ask(s)
    BY <1>1, <1>2, <1>4
<1>5. CASE BeginScheduled
    BY <1>1, <1>3, <1>5
<1>. QED
    BY <1>4, <1>5 DEF Next, Around

-----------------------------------------------------------------------------
(* Types                                                                   *)

(* A session's step keeps the types of the rows it may touch and of all    *)
(* jobs.                                                                   *)
LEMMA MovesTypes ==
    ASSUME Typed, NEW s \in Sessions, Moves(s),
           \A a \in Approvals : approval[a] # None => approval'[a] # None
    PROVE  /\ status' \in [Deliveries -> Statuses]
           /\ aged' \subseteq {d \in Deliveries : status'[d] = "failed"}
           /\ replays' \in [Deliveries -> Nat]
           /\ job' \in [Sessions -> Job]
           /\ overlapped' \subseteq Deliveries
           /\ JobsWellFormed'
<1>1. PICK j : TakesUp(s, j) /\ (HoldsOn(s, j) \/ Reads(s, j) \/ Replays(s, j))
    BY DEF Moves
<1>2. j \in Job /\ Held(j) \subseteq Deliveries /\ Holds(s) \subseteq Deliveries
    <2>1. Holds(s) = Held(job[s])
        BY DEF Holds, Held
    <2>. QED
        BY <1>1, <2>1, HeldDeliveries DEF TakesUp, WellFormed, Typed, JobsWellFormed
<1>3. job' \in [Sessions -> Job]
    BY <1>1, <1>2 DEF TakesUp, Typed, TypeOK
<1>4. JobsWellFormed'
    <2>1. SUFFICES ASSUME NEW t \in Sessions
                   PROVE  /\ WellFormed(job'[t])
                          /\ job'[t].approval # None => approval'[job'[t].approval] # None
        BY DEF JobsWellFormed, WellFormed
    <2>2. job'[t] = j \/ job'[t] = job[t]
        BY <1>1 DEF TakesUp, Typed, TypeOK
    <2>3. /\ WellFormed(job'[t])
          /\ job'[t].approval # None => approval[job'[t].approval] # None
        BY <1>1, <2>2 DEF TakesUp, Typed, JobsWellFormed
    <2>4. job'[t].approval \in Approvals \cup {None}
        BY <1>3 DEF Job
    <2>. QED
        BY <2>3, <2>4
<1>5. /\ status' \in [Deliveries -> Statuses]
      /\ aged' \subseteq {d \in Deliveries : status'[d] = "failed"}
      /\ replays' \in [Deliveries -> Nat]
    <2>1. CASE UNCHANGED rows
        BY <2>1 DEF rows, Typed, TypeOK
    <2>2. CASE \E d \in Deliveries : SetReplaying(d)
        BY <2>2 DEF SetReplaying, Typed, TypeOK, Statuses
    <2>. QED
        BY <1>1, <1>2, <2>1, <2>2 DEF HoldsOn, Reads, Replays
<1>6. overlapped' \subseteq Deliveries
    BY <1>1, <1>2 DEF HoldsOn, Reads, Replays, NoteRead, Typed, TypeOK
<1>. QED
    BY <1>3, <1>4, <1>5, <1>6

(* What a session's step does to approvals, gates and counters.            *)
LEMMA SessionTypes ==
    ASSUME Typed, NEW s \in Sessions, Work(s) \/ Crash(s) \/ Begins(s)
    PROVE  Typed'
<1>1. Moves(s)
    BY WorkMoves, CrashMoves, AskMoves DEF Begins
<1> DEFINE Decides == \E v \in {"approved", "rejected"} : job[s].op \in Deciding /\ Decide(s, v)
<1>2. /\ approval' \in [Approvals -> Approval \cup {None}]
      /\ decided' \subseteq AuditLog
      /\ \A a \in Approvals : approval[a] # None => approval'[a] # None
    <2>1. CASE Decides
        <3>1. PICK v \in {"approved", "rejected"} : job[s].op \in Deciding /\ Decide(s, v)
            BY <2>1
        <3> DEFINE a == job[s].approval
                   row == [approval[a] EXCEPT !.status = v]
        <3>2. a \in Approvals /\ approval[a] \in Approval
            BY <3>1, DecidingFacts
        <3>3. row \in Approval
            BY <3>2 DEF Approval, Verdicts
        <3>4. row # None
            BY <3>3, NoneAssumption
        <3>5. approval' = [approval EXCEPT ![a] = row]
            BY <3>1 DEF Decide
        <3>6. decided' = decided \cup {<<a, v>>}
            BY <3>1 DEF Decide
        <3>. HIDE DEF row
        <3>. QED
            BY <3>2, <3>3, <3>4, <3>5, <3>6 DEF Typed, TypeOK, AuditLog
    <2>2. CASE UNCHANGED <<approval, decided>>
        BY <2>2 DEF Typed, TypeOK
    <2>3. Decides \/ UNCHANGED <<approval, decided>>
        BY DEF Work, Crash, Begins, Ask, CommitReplay, ApproveReplay, CommitApprove, CommitReject,
               ReadBulk, SkipRow, ReplayRow, ReadReplay, ReadApprove, ReadReject, BeginBulk,
               BeginScheduled, Deciding, review
    <2>. QED
        BY <2>1, <2>2, <2>3
<1>3. circuit' \in [Partners -> Circuits]
    <2>1. UNCHANGED circuit
        BY DEF Work, Crash, Begins, Ask, CommitReplay, ApproveReplay, CommitApprove, CommitReject,
               ReadBulk, SkipRow, ReplayRow, ReadReplay, ReadApprove, ReadReject, BeginBulk,
               BeginScheduled, Decide
    <2>. QED
        BY <2>1 DEF Typed, TypeOK
<1>5. cause' \subseteq Approvals /\ halfway' \subseteq Approvals /\ contested' \subseteq Approvals
    <2>1. cause' \subseteq Approvals
        <3>1. UNCHANGED cause \/ ApproveReplay(s)
            BY DEF Work, Crash, Begins, Ask, CommitReplay, CommitApprove, CommitReject,
                   ReadBulk, SkipRow, ReplayRow, ReadReplay, ReadApprove, ReadReject, BeginBulk,
                   BeginScheduled, Decide, review
        <3>2. ApproveReplay(s) => job[s].approval \in Approvals
            BY DecidingFacts DEF ApproveReplay, Deciding
        <3>. QED
            BY <3>1, <3>2 DEF ApproveReplay, Typed, TypeOK
    <2>2. halfway' \subseteq Approvals
        <3>1. UNCHANGED halfway \/ Crash(s)
            BY DEF Work, Begins, Ask, CommitReplay, ApproveReplay, CommitApprove, CommitReject,
                   ReadBulk, SkipRow, ReplayRow, ReadReplay, ReadApprove, ReadReject, BeginBulk,
                   BeginScheduled, Decide, review
        <3>2. Crash(s) /\ job[s].op = "approved" => job[s].approval \in Approvals
            BY DecidingFacts DEF Deciding
        <3>. QED
            BY <3>1, <3>2 DEF Crash, Typed, TypeOK
    <2>3. UNCHANGED contested \/ \E a \in Approvals : NoteDecision(s, a)
        BY DEF Work, Crash, Begins, Ask, CommitReplay, ApproveReplay, CommitApprove, CommitReject,
               ReadBulk, SkipRow, ReplayRow, ReadReplay, ReadApprove, ReadReject, BeginBulk,
               BeginScheduled, Decide, history
    <2>. QED
        BY <2>1, <2>2, <2>3 DEF NoteDecision, Typed, TypeOK
<1>6. approval_required' \in BOOLEAN
    <2>1. UNCHANGED approval_required
        BY DEF Work, Crash, Begins, Ask, CommitReplay, ApproveReplay, CommitApprove, CommitReject,
               ReadBulk, SkipRow, ReplayRow, ReadReplay, ReadApprove, ReadReject, BeginBulk,
               BeginScheduled, Decide
    <2>. QED
        BY <2>1 DEF Typed, TypeOK
<1>7. /\ status' \in [Deliveries -> Statuses]
      /\ aged' \subseteq {d \in Deliveries : status'[d] = "failed"}
      /\ replays' \in [Deliveries -> Nat]
      /\ job' \in [Sessions -> Job]
      /\ overlapped' \subseteq Deliveries
      /\ JobsWellFormed'
    BY <1>1, <1>2, MovesTypes
<1>. QED
    BY <1>2, <1>3, <1>5, <1>6, <1>7 DEF Typed, TypeOK

(* The system around the sessions keeps the types.                         *)
LEMMA AroundTypes ==
    ASSUME Typed, Around
    PROVE  Typed' /\ UNCHANGED <<job, replays, overlapped, contested, cause, halfway, decided>>
<1>1. UNCHANGED <<job, replays, overlapped, contested, cause, halfway, decided, approval_required>>
    BY DEF Around, RequestApproval, Worker, CircuitMoves, Age, rows, review, history
<1>2. ASSUME UNCHANGED approval PROVE JobsWellFormed'
    BY <1>1, <1>2 DEF Typed, JobsWellFormed, WellFormed
<1>3. CASE \E a \in Approvals, d \in Deliveries : RequestApproval(a, d)
    <2>1. PICK a \in Approvals, d \in Deliveries : RequestApproval(a, d)
        BY <1>3
    <2> DEFINE row == [delivery |-> d, status |-> "pending"]
    <2>2. row \in Approval
        BY DEF Approval, Verdicts
    <2>3. row # None
        BY <2>2, NoneAssumption
    <2>4. approval' = [approval EXCEPT ![a] = row]
        BY <2>1 DEF RequestApproval
    <2>. HIDE DEF row
    <2>5. approval' \in [Approvals -> Approval \cup {None}]
        BY <2>2, <2>4 DEF Typed, TypeOK
    <2>6. \A b \in Approvals : approval[b] # None => approval'[b] # None
        BY <2>3, <2>4 DEF Typed, TypeOK
    <2>7. JobsWellFormed'
        BY <1>1, <2>6 DEF Typed, TypeOK, Job, JobsWellFormed, WellFormed
    <2>8. UNCHANGED <<status, aged, circuit>>
        BY <2>1 DEF RequestApproval, rows
    <2>. QED
        BY <1>1, <2>5, <2>7, <2>8 DEF Typed, TypeOK
<1>4. CASE \E d \in Deliveries : Worker(d)
    <2>1. PICK d \in Deliveries : Worker(d)
        BY <1>4
    <2>2. /\ UNCHANGED <<approval, circuit>>
          /\ status' \in [Deliveries -> Statuses]
          /\ aged' \subseteq {c \in Deliveries : status'[c] = "failed"}
        BY <2>1 DEF Worker, review, Typed, TypeOK, Statuses
    <2>. QED
        BY <1>1, <1>2, <2>2 DEF Typed, TypeOK
<1>5. CASE \E p \in Partners : CircuitMoves(p)
    <2>1. UNCHANGED <<rows, approval>> /\ circuit' \in [Partners -> Circuits]
        BY <1>5 DEF CircuitMoves, review, Typed, TypeOK
    <2>. QED
        BY <1>1, <1>2, <2>1 DEF Typed, TypeOK, rows
<1>6. CASE Age
    <2>1. /\ aged' \subseteq {d \in Deliveries : status[d] = "failed"}
          /\ UNCHANGED <<status, approval, circuit>>
        BY <1>6 DEF Age, review, Typed, TypeOK
    <2>. QED
        BY <1>1, <1>2, <2>1 DEF Typed, TypeOK
<1>. QED
    BY <1>1, <1>3, <1>4, <1>5, <1>6 DEF Around

-----------------------------------------------------------------------------
(* A delivery is replayed once while no two sessions read it at once       *)

(* What the sessions hold after one of them has gone over to job j.        *)
LEMMA HoldsAfter ==
    ASSUME Typed, NEW s \in Sessions, NEW j, TakesUp(s, j)
    PROVE  \A t \in Sessions : Holds(t)' = IF t = s THEN Held(j) ELSE Holds(t)
BY DEF TakesUp, Typed, TypeOK, Holds, Held

(* A session's step keeps it: what it reads is FAILED and held by no other *)
(* session, what it replays it held alone.                                 *)
LEMMA SessionExact ==
    ASSUME Typed, Exact, NEW s \in Sessions, Moves(s)
    PROVE  Exact'
<1>1. PICK j : TakesUp(s, j) /\ (HoldsOn(s, j) \/ Reads(s, j) \/ Replays(s, j))
    BY DEF Moves
<1> DEFINE holds(t) == IF t = s THEN Held(j) ELSE Holds(t)
<1>2. \A t \in Sessions : Holds(t)' = holds(t)
    BY <1>1, HoldsAfter
<1>3. \A d \in Deliveries : status'[d] = "failed" => replays'[d] = 0
    <2>1. CASE UNCHANGED rows
        BY <2>1 DEF rows, Exact
    <2>2. CASE \E c : SetReplaying(c)
        BY <2>2 DEF SetReplaying, Exact, Typed, TypeOK
    <2>. QED
        BY <1>1, <2>1, <2>2 DEF HoldsOn, Reads, Replays
<1>4. SUFFICES ASSUME NEW d \in Deliveries \ overlapped'
               PROVE  /\ \A t, u \in Sessions : d \in holds(t) /\ d \in holds(u) => t = u
                      /\ \A t \in Sessions : d \in holds(t) => replays'[d] = 0
                      /\ replays'[d] <= 1
    BY <1>2, <1>3 DEF Exact
<1>5. /\ d \notin overlapped
      /\ \A t, u \in Sessions : d \in Holds(t) /\ d \in Holds(u) => t = u
      /\ \A t \in Sessions : d \in Holds(t) => replays[d] = 0
      /\ replays[d] <= 1
    <2>1. d \notin overlapped
        BY <1>1 DEF HoldsOn, Reads, Replays, NoteRead
    <2>. QED
        BY <2>1 DEF Exact
<1>6. CASE HoldsOn(s, j)
    BY <1>5, <1>6 DEF HoldsOn, rows
<1>7. CASE Reads(s, j)
    <2>1. d \in Held(j) => replays[d] = 0 /\ \A t \in Sessions \ {s} : d \notin Holds(t)
        BY <1>4, <1>7 DEF Reads, NoteRead, Exact
    <2>. QED
        BY <1>5, <1>7, <2>1 DEF Reads, rows
<1>8. CASE Replays(s, j)
    <2>1. PICK c \in Holds(s) : SetReplaying(c) /\ Held(j) \subseteq Holds(s) \ {c}
        BY <1>8 DEF Replays
    <2>2. CASE c = d
        <3>1. replays'[d] = 1
            BY <1>5, <2>1, <2>2 DEF SetReplaying, Typed, TypeOK
        <3>2. \A t \in Sessions : d \notin holds(t)
            BY <1>5, <2>1, <2>2
        <3>. QED
            BY <3>1, <3>2
    <2>3. CASE c # d
        <3>1. replays'[d] = replays[d]
            BY <2>1, <2>3 DEF SetReplaying, Typed, TypeOK
        <3>. QED
            BY <1>5, <2>1, <3>1
    <2>. QED
        BY <2>2, <2>3
<1>. QED
    BY <1>1, <1>6, <1>7, <1>8

(* So do the surroundings: no worker makes a delivery FAILED.              *)
LEMMA AroundExact ==
    ASSUME Typed, Exact, Around
    PROVE  Exact'
<1>1. UNCHANGED <<job, replays, overlapped>>
    BY AroundTypes
<1>2. \A t \in Sessions : Holds(t)' = Holds(t)
    BY <1>1 DEF Holds
<1>3. \A d \in Deliveries : status'[d] = "failed" => status[d] = "failed"
    BY DEF Around, Worker, RequestApproval, CircuitMoves, Age, rows, Typed, TypeOK
<1>. QED
    BY <1>1, <1>2, <1>3 DEF Exact

-----------------------------------------------------------------------------
(* Approvals                                                               *)

(* A decision changes one row and adds one audit row.                      *)
LEMMA DecideFacts ==
    ASSUME Typed, NEW s \in Sessions, job[s].op \in Deciding,
           NEW v \in {"approved", "rejected"}, Decide(s, v)
    PROVE  /\ job[s].approval \in Approvals /\ approval[job[s].approval] # None
           /\ approval'[job[s].approval] # None
           /\ approval'[job[s].approval].status = v
           /\ approval'[job[s].approval].delivery = approval[job[s].approval].delivery
           /\ \A a \in Approvals : a # job[s].approval => approval'[a] = approval[a]
           /\ decided' = decided \cup {<<job[s].approval, v>>}
           /\ job' = [job EXCEPT ![s] = IdleJob]
           /\ UNCHANGED <<cause, halfway, contested, replays>>
<1> DEFINE a == job[s].approval
           row == [approval[a] EXCEPT !.status = v]
<1>1. a \in Approvals /\ approval[a] # None /\ approval[a] \in Approval
    BY DecidingFacts
<1>2. row \in Approval /\ row.status = v /\ row.delivery = approval[a].delivery
    BY <1>1 DEF Approval, Verdicts
<1>3. row # None
    BY <1>2, NoneAssumption
<1>4. approval' = [approval EXCEPT ![a] = row]
    BY DEF Decide
<1>. HIDE DEF row
<1>5. approval'[a] = row /\ \A b \in Approvals : b # a => approval'[b] = approval[b]
    BY <1>1, <1>4 DEF Typed, TypeOK
<1>. QED
    BY <1>1, <1>2, <1>3, <1>5 DEF Decide, End, history, rows

(* Steps that decide nothing: the approvals, the audit log and the replays *)
(* caused stay, a session that had no approval has none.                   *)
Apart(s) ==
    /\ job[s].op \notin Deciding
    /\ UNCHANGED <<approval, decided, cause, halfway, contested>>
    /\ \E j : j.approval = None /\ j.op # "approved" /\ job' = [job EXCEPT ![s] = j]

LEMMA ApartSteps ==
    ASSUME Typed, NEW s \in Sessions,
           \/ CommitReplay(s) \/ ReadBulk(s) \/ SkipRow(s) \/ ReplayRow(s)
           \/ s = Beat /\ BeginScheduled
           \/ \E d \in Deliveries : ReadReplay(s, d)
           \/ s \in Requests /\ \E ids \in Bulk[s] : BeginBulk(s, ids)
    PROVE  Apart(s)
<1>1. ASSUME NEW op \in {"replay", "bulk", "bulk_read", "scheduled"}, NEW todo, Begin(s, op, todo, None)
      PROVE  \E j : j.approval = None /\ j.op # "approved" /\ job' = [job EXCEPT ![s] = j]
    BY <1>1 DEF Begin
<1>2. End(s) => \E j : j.approval = None /\ j.op # "approved" /\ job' = [job EXCEPT ![s] = j]
    BY DEF End, IdleJob
<1>3. CASE CommitReplay(s)
    BY <1>2, <1>3 DEF CommitReplay, Apart, Deciding, history, review
<1>4. CASE ReadBulk(s)
    BY <1>1, <1>2, <1>4 DEF ReadBulk, Apart, Deciding, review
<1>5. CASE SkipRow(s) \/ ReplayRow(s)
    <2>1. \E j : j.approval = None /\ j.op # "approved" /\ job' = [job EXCEPT ![s] = j]
        BY <1>5, NextRowFacts DEF SkipRow, ReplayRow
    <2>. QED
        BY <1>5, <2>1 DEF SkipRow, ReplayRow, Batch, Apart, Deciding, history, review
<1>6. CASE s = Beat /\ BeginScheduled
    BY <1>1, <1>6 DEF BeginScheduled, Idle, Apart, Deciding, review
<1>7. CASE \E d \in Deliveries : ReadReplay(s, d)
    BY <1>1, <1>7 DEF ReadReplay, Idle, Apart, Deciding, review
<1>8. CASE s \in Requests /\ \E ids \in Bulk[s] : BeginBulk(s, ids)
    BY <1>1, <1>8 DEF BeginBulk, Idle, Apart, Deciding, history, review
<1>. QED
    BY <1>3, <1>4, <1>5, <1>6, <1>7, <1>8

(* The steps of a session as the approvals see them.                       *)
LEMMA ApprovalCases ==
    ASSUME Typed, NEW s \in Sessions, Work(s) \/ Crash(s) \/ Begins(s)
    PROVE  \/ Apart(s) \/ ApproveReplay(s) \/ CommitApprove(s) \/ CommitReject(s) \/ Crash(s)
           \/ \E a \in Approvals : ReadApprove(s, a) \/ ReadReject(s, a)
BY ApartSteps DEF Work, Begins, Ask

(* An approved approval has replayed: the replay is committed before.      *)
LEMMA SessionReplayed ==
    ASSUME Typed, Replayed, NEW s \in Sessions, Work(s) \/ Crash(s) \/ Begins(s)
    PROVE  Replayed'
<1>1. job \in [Sessions -> Job]
    BY DEF Typed, TypeOK
<1>2. ASSUME NEW j, job' = [job EXCEPT ![s] = j], j.op # "approved",
             UNCHANGED <<approval, decided, cause>>
      PROVE  Replayed'
    BY <1>1, <1>2 DEF Replayed, ApprovingReplayed, ApprovedWasReplayed
<1>3. CASE Apart(s)
    BY <1>2, <1>3 DEF Apart
<1>4. CASE Crash(s)
    <2>1. IdleJob.op # "approved"
        BY DEF IdleJob
    <2>. QED
        BY <1>2, <1>4, <2>1 DEF Crash, End
<1>5. CASE \E a \in Approvals : ReadApprove(s, a) \/ ReadReject(s, a)
    <2>1. ASSUME NEW op \in {"approve", "reject"}, NEW todo, NEW a, Begin(s, op, todo, a),
                 UNCHANGED <<approval, decided, cause>>
          PROVE  Replayed'
        <3> DEFINE j == [op |-> op, todo |-> todo, approval |-> a]
        <3>1. job' = [job EXCEPT ![s] = j] /\ j.op # "approved"
            BY <2>1 DEF Begin
        <3>. HIDE DEF j
        <3>. QED
            BY <1>2, <2>1, <3>1
    <2>. QED
        BY <1>5, <2>1 DEF ReadApprove, ReadReject, review
<1>6. CASE ApproveReplay(s)
    BY <1>1, <1>6 DEF ApproveReplay, Begin, Replayed, ApprovingReplayed, ApprovedWasReplayed
<1>7. ASSUME NEW v \in {"approved", "rejected"}, job[s].op \in Deciding, Decide(s, v),
             v = "approved" => job[s].op = "approved"
      PROVE  Replayed'
    <2>1. /\ \A a \in Approvals : a # job[s].approval => approval'[a] = approval[a]
          /\ approval'[job[s].approval].status = v
          /\ decided' = decided \cup {<<job[s].approval, v>>}
          /\ job' = [job EXCEPT ![s] = IdleJob] /\ cause' = cause
        BY <1>7, DecideFacts
    <2>2. ApprovingReplayed'
        BY <1>1, <2>1 DEF Replayed, ApprovingReplayed, IdleJob
    <2>3. ASSUME NEW a \in Approvals, approval'[a] # None, approval'[a].status = "approved"
          PROVE  a \in cause' /\ <<a, "approved">> \in decided'
        <3>1. CASE a = job[s].approval
            BY <1>7, <2>1, <2>3, <3>1 DEF Replayed, ApprovingReplayed
        <3>2. CASE a # job[s].approval
            BY <2>1, <2>3, <3>2 DEF Replayed, ApprovedWasReplayed
        <3>. QED
            BY <3>1, <3>2
    <2>. QED
        BY <2>2, <2>3 DEF Replayed, ApprovedWasReplayed
<1>8. CASE CommitApprove(s) \/ CommitReject(s)
    BY <1>7, <1>8 DEF CommitApprove, CommitReject, Deciding
<1>. QED
    BY <1>3, <1>4, <1>5, <1>6, <1>8, ApprovalCases

(* A new approval is pending and nothing else touches the rows.            *)
LEMMA AroundApprovals ==
    ASSUME Typed, Around
    PROVE  \A a \in Approvals :
              \/ approval'[a] = approval[a]
              \/ approval[a] = None /\ approval'[a] # None /\ approval'[a].status = "pending"
<1>1. CASE \E a \in Approvals, d \in Deliveries : RequestApproval(a, d)
    <2>1. PICK a \in Approvals, d \in Deliveries : RequestApproval(a, d)
        BY <1>1
    <2> DEFINE row == [delivery |-> d, status |-> "pending"]
    <2>2. row \in Approval /\ row.status = "pending"
        BY DEF Approval, Verdicts
    <2>3. row # None
        BY <2>2, NoneAssumption
    <2>4. approval' = [approval EXCEPT ![a] = row] /\ approval[a] = None
        BY <2>1 DEF RequestApproval
    <2>. HIDE DEF row
    <2>. QED
        BY <2>2, <2>3, <2>4 DEF Typed, TypeOK
<1>2. (\E a \in Approvals, d \in Deliveries : RequestApproval(a, d)) \/ UNCHANGED approval
    BY DEF Around, Worker, CircuitMoves, Age, review
<1>. QED
    BY <1>1, <1>2

LEMMA AroundReplayed ==
    ASSUME Typed, Replayed, Around
    PROVE  Replayed'
<1>1. UNCHANGED <<job, cause, decided>>
    BY AroundTypes
<1>. QED
    BY <1>1, AroundApprovals DEF Replayed, ApprovingReplayed, ApprovedWasReplayed

(* Replays are only added, and an approval keeps its delivery.             *)
LEMMA SessionMonotone ==
    ASSUME Typed, NEW s \in Sessions, Work(s) \/ Crash(s) \/ Begins(s)
    PROVE  /\ \A d \in Deliveries : replays'[d] >= replays[d]
           /\ \A a \in Approvals : approval[a] # None =>
                 approval'[a] # None /\ approval'[a].delivery = approval[a].delivery
<1>1. Moves(s)
    BY WorkMoves, CrashMoves, AskMoves DEF Begins
<1>2. \A d \in Deliveries : replays'[d] >= replays[d]
    BY <1>1 DEF Moves, HoldsOn, Reads, Replays, SetReplaying, rows, Typed, TypeOK
<1>3. CASE CommitApprove(s) \/ CommitReject(s)
    <2>1. PICK v \in {"approved", "rejected"} : job[s].op \in Deciding /\ Decide(s, v)
        BY <1>3 DEF CommitApprove, CommitReject, Deciding
    <2>. QED
        BY <1>2, <2>1, DecideFacts
<1>4. CASE UNCHANGED approval
    BY <1>2, <1>4
<1>5. UNCHANGED approval \/ CommitApprove(s) \/ CommitReject(s)
    BY ApprovalCases DEF Apart, ApproveReplay, Crash, ReadApprove, ReadReject, review
<1>. QED
    BY <1>3, <1>4, <1>5

(* A session reads the delivery of its approval and replays that one.      *)
LEMMA SessionCaused ==
    ASSUME Typed, Caused, NEW s \in Sessions, Work(s) \/ Crash(s) \/ Begins(s)
    PROVE  Caused'
<1>1. job \in [Sessions -> Job] /\ cause \subseteq Approvals
    BY DEF Typed, TypeOK
<1>2. /\ \A d \in Deliveries : replays'[d] >= replays[d]
      /\ \A a \in Approvals : approval[a] # None =>
            approval'[a] # None /\ approval'[a].delivery = approval[a].delivery
    BY SessionMonotone
<1>3. \A a \in Approvals : approval[a] # None => approval[a].delivery \in Deliveries
    BY DEF Typed, TypeOK, Approval
<1>4. \A t \in Sessions : job[t].op = "approve" =>
         job[t].approval \in Approvals /\ approval[job[t].approval] # None
    BY DecidingFacts DEF Deciding
<1>5. \A a \in cause : approval'[a] # None /\ replays'[approval'[a].delivery] > 0
    <2>1. SUFFICES ASSUME NEW a \in cause
                   PROVE  approval'[a] # None /\ replays'[approval'[a].delivery] > 0
        OBVIOUS
    <2> DEFINE d == approval[a].delivery
    <2>2. approval[a] # None /\ replays[d] > 0 /\ d \in Deliveries /\ approval'[a] # None
          /\ approval'[a].delivery = d
        BY <1>1, <1>2, <1>3 DEF Caused
    <2>3. replays'[d] >= replays[d] /\ replays[d] \in Nat
        BY <1>2, <2>2 DEF Typed, TypeOK
    <2>4. replays'[d] \in Nat
        BY <2>2, SessionTypes DEF Typed, TypeOK
    <2>. QED
        BY <2>2, <2>3, <2>4
<1>6. ASSUME NEW j, job' = [job EXCEPT ![s] = j],
             j.op = "approve" => j.todo[1] = approval'[j.approval].delivery,
             cause' = cause
      PROVE  Caused'
    <2>1. \A t \in Sessions : job'[t].op = "approve" =>
             job'[t].todo[1] = approval'[job'[t].approval].delivery
        BY <1>1, <1>2, <1>4, <1>6 DEF Caused
    <2>. QED
        BY <1>5, <1>6, <2>1 DEF Caused
<1>7. CASE Apart(s)
    <2>1. PICK j : /\ j.approval = None /\ j.op # "approved" /\ job' = [job EXCEPT ![s] = j]
                   /\ WellFormed(j)
        <3>1. PICK j : j.approval = None /\ j.op # "approved" /\ job' = [job EXCEPT ![s] = j]
            BY <1>7 DEF Apart
        <3>2. job'[s] = j /\ WellFormed(job'[s])
            BY <1>1, <3>1, SessionTypes DEF Typed, JobsWellFormed, WellFormed
        <3>. QED
            BY <3>1, <3>2
    <2>2. j.op # "approve"
        BY <2>1 DEF WellFormed, Deciding
    <2>. QED
        BY <1>6, <1>7, <2>1, <2>2 DEF Apart
<1>8. CASE Crash(s) \/ CommitApprove(s) \/ CommitReject(s)
    <2>1. job' = [job EXCEPT ![s] = IdleJob] /\ cause' = cause /\ IdleJob.op # "approve"
        BY <1>8 DEF Crash, CommitApprove, CommitReject, Decide, End, IdleJob
    <2>. QED
        BY <1>6, <2>1
<1>9. CASE \E a \in Approvals : ReadApprove(s, a)
    <2>1. PICK a \in Approvals : ReadApprove(s, a)
        BY <1>9
    <2> DEFINE j == [op |-> "approve", todo |-> <<approval[a].delivery>>, approval |-> a]
    <2>2. job' = [job EXCEPT ![s] = j] /\ UNCHANGED <<approval, cause>>
        BY <2>1 DEF ReadApprove, Begin, review
    <2>3. j.todo[1] = approval'[j.approval].delivery
        BY <2>2
    <2>. HIDE DEF j
    <2>. QED
        BY <1>6, <2>2, <2>3
<1>10. CASE \E a \in Approvals : ReadReject(s, a)
    <2>1. PICK a \in Approvals : ReadReject(s, a)
        BY <1>10
    <2> DEFINE j == [op |-> "reject", todo |-> <<>>, approval |-> a]
    <2>2. job' = [job EXCEPT ![s] = j] /\ j.op # "approve" /\ UNCHANGED cause
        BY <2>1 DEF ReadReject, Begin, review
    <2>. HIDE DEF j
    <2>. QED
        BY <1>6, <2>2
<1>11. CASE ApproveReplay(s)
    <2> DEFINE b == job[s].approval
               d == job[s].todo[1]
               j == [op |-> "approved", todo |-> <<>>, approval |-> b]
    <2>1. /\ job' = [job EXCEPT ![s] = j] /\ j.op = "approved"
          /\ cause' = cause \cup {b} /\ UNCHANGED approval
          /\ SetReplaying(d) /\ job[s].op = "approve"
        BY <1>11 DEF ApproveReplay, Begin
    <2>. HIDE DEF j
    <2>2. b \in Approvals /\ approval[b] # None /\ d = approval[b].delivery
        BY <1>4, <2>1 DEF Caused
    <2>3. replays'[d] > 0
        BY <1>3, <2>1, <2>2 DEF SetReplaying, Typed, TypeOK
    <2>4. \A t \in Sessions : job'[t].op = "approve" => job'[t] = job[t]
        BY <1>1, <2>1
    <2>5. \A t \in Sessions : job'[t].op = "approve" =>
             job'[t].todo[1] = approval'[job'[t].approval].delivery
        BY <2>1, <2>4 DEF Caused
    <2>6. \A a \in cause' : approval'[a] # None /\ replays'[approval'[a].delivery] > 0
        BY <1>5, <2>1, <2>2, <2>3
    <2>. QED
        BY <2>5, <2>6 DEF Caused
<1>. QED
    BY <1>7, <1>8, <1>9, <1>10, <1>11, ApprovalCases

LEMMA AroundCaused ==
    ASSUME Typed, Caused, Around
    PROVE  Caused'
<1>1. UNCHANGED <<job, replays, cause>>
    BY AroundTypes
<1>2. \A a \in Approvals : approval[a] # None => approval'[a] = approval[a]
    BY AroundApprovals
<1>3. \A t \in Sessions : job[t].op = "approve" =>
         job[t].approval \in Approvals /\ approval[job[t].approval] # None
    BY DecidingFacts DEF Deciding
<1>. QED
    BY <1>1, <1>2, <1>3 DEF Caused, Typed, TypeOK

(* A session's step keeps it, for an approval that it leaves uncontested.  *)
LEMMA SessionDecided ==
    ASSUME Typed, Exact, Replayed, Caused, DecidedOnce,
           NEW s \in Sessions, Work(s) \/ Crash(s) \/ Begins(s)
    PROVE  DecidedOnce'
<1>1. SUFFICES ASSUME NEW a \in Approvals, a \notin contested'
               PROVE  DecidedOnceOf(a)'
    BY DEF DecidedOnce, DecidedOnceOf, Pending
<1>2. contested \subseteq contested'
    BY DEF Work, Begins, Ask, CommitReplay, ApproveReplay, CommitApprove, CommitReject,
           ReadBulk, SkipRow, ReplayRow, ReadReplay, ReadApprove, ReadReject, BeginBulk,
           BeginScheduled, Decide, history, NoteDecision, Crash
<1>3. DecidedOnceOf(a)
    BY <1>1, <1>2 DEF DecidedOnce
<1>4. job \in [Sessions -> Job] /\ a # None
    BY NoneAssumption DEF Typed, TypeOK
<1>5. \A t \in Sessions : job[t].approval = a => job[t].op \in Deciding
    BY <1>4 DEF Typed, JobsWellFormed, WellFormed
<1>6. ASSUME NEW j, job' = [job EXCEPT ![s] = j], j.approval # a,
             ~(job[s].approval = a /\ job[s].op = "approved"),
             UNCHANGED <<approval, decided, cause>>, a \in halfway' <=> a \in halfway
      PROVE  DecidedOnceOf(a)'
    <2>1. \A t \in Sessions : job'[t].approval = a => t # s /\ job'[t] = job[t]
        BY <1>4, <1>6
    <2>2. \A t \in Sessions : t # s => job'[t] = job[t]
        BY <1>4, <1>6
    <2>3. UNCHANGED <<approval, decided, cause>> /\ (a \in halfway' <=> a \in halfway)
        BY <1>6
    <2>4. a \in cause => \/ approval[a].status = "approved"
                         \/ \E t \in Sessions : job'[t].approval = a /\ job'[t].op = "approved"
                         \/ a \in halfway
        BY <1>3, <1>6, <2>2 DEF DecidedOnceOf
    <2>5. a \in halfway => /\ a \in cause /\ approval[a].status # "approved"
                           /\ \A t \in Sessions : job'[t].approval = a => job'[t].op = "reject"
        BY <1>3, <2>1 DEF DecidedOnceOf
    <2>. QED
        BY <1>3, <2>1, <2>3, <2>4, <2>5 DEF DecidedOnceOf, Pending
<1>7. CASE Apart(s)
    <2>1. PICK j : j.approval = None /\ job' = [job EXCEPT ![s] = j]
        BY <1>7 DEF Apart
    <2>2. job[s].op # "approved" /\ UNCHANGED <<approval, decided, cause, halfway>>
        BY <1>7 DEF Apart, Deciding
    <2>. QED
        BY <1>4, <1>6, <2>1, <2>2
<1>8. CASE Crash(s)
    <2>1. /\ job' = [job EXCEPT ![s] = IdleJob] /\ IdleJob.approval = None
          /\ UNCHANGED <<approval, decided, cause>>
          /\ halfway' = IF job[s].op = "approved" THEN halfway \cup {job[s].approval} ELSE halfway
        BY <1>8, IdleFacts DEF Crash, End
    <2>2. CASE job[s].approval = a /\ job[s].op = "approved"
        <3>1. a \in halfway' /\ a \in cause /\ Pending(a)
            BY <1>3, <2>1, <2>2 DEF Replayed, ApprovingReplayed, DecidedOnceOf
        <3>2. \A t \in Sessions : job'[t].approval # a
            BY <1>3, <1>4, <2>1, <2>2 DEF DecidedOnceOf
        <3>. QED
            BY <1>3, <2>1, <3>1, <3>2 DEF DecidedOnceOf, Pending
    <2>3. CASE ~(job[s].approval = a /\ job[s].op = "approved")
        <3>1. a \in halfway' <=> a \in halfway
            BY <2>1, <2>3
        <3>. QED
            BY <1>4, <1>6, <2>1, <2>3, <3>1
    <2>. QED
        BY <2>2, <2>3
<1>9. ASSUME NEW b \in Approvals, NEW op \in {"approve", "reject"}, NEW todo,
             Idle(s), Pending(b), Begin(s, op, todo, b), NoteDecision(s, b),
             UNCHANGED <<approval, decided, cause, halfway>>,
             op = "approve" => status[approval[b].delivery] = "failed"
      PROVE  DecidedOnceOf(a)'
    <2> DEFINE j == [op |-> op, todo |-> todo, approval |-> b]
    <2>1. job' = [job EXCEPT ![s] = j] /\ j.approval = b /\ j.op = op
        BY <1>9 DEF Begin
    <2>. HIDE DEF j
    <2>2. job[s].op = "idle" /\ job[s].approval # a
        BY <1>5, <1>9 DEF Idle, Deciding
    <2>3. CASE a # b
        BY <1>6, <1>9, <2>1, <2>2, <2>3
    <2>4. CASE a = b
        <3>1. \A t \in Sessions \ {s} : job[t].approval # a
            BY <1>1, <1>9, <2>4 DEF NoteDecision
        <3>2. \A t \in Sessions : job'[t].approval = a => t = s
            BY <1>4, <2>1, <3>1
        <3>3. Pending(a) /\ (a \in cause => a \in halfway)
            BY <1>3, <1>9, <2>2, <2>4, <3>1 DEF DecidedOnceOf, Pending
        <3>4. a \in halfway => op = "reject"
            <4>1. a \in halfway => a \in cause
                BY <1>3 DEF DecidedOnceOf
            <4>2. a \in cause => replays[approval[a].delivery] > 0
                BY DEF Caused
            <4>3. approval[a].delivery \in Deliveries
                BY <3>3 DEF Pending, Typed, TypeOK, Approval
            <4>4. status[approval[a].delivery] = "failed" => replays[approval[a].delivery] = 0
                BY <4>3 DEF Exact
            <4>. QED
                BY <1>9, <2>4, <4>1, <4>2, <4>4
        <3>5. job'[s].op = op
            BY <1>4, <2>1
        <3>6. UNCHANGED <<approval, decided, cause, halfway>>
            BY <1>9
        <3>. QED
            BY <1>3, <3>2, <3>3, <3>4, <3>5, <3>6 DEF DecidedOnceOf, Pending
    <2>. QED
        BY <2>3, <2>4
<1>10. CASE \E b \in Approvals : ReadApprove(s, b) \/ ReadReject(s, b)
    BY <1>9, <1>10 DEF ReadApprove, ReadReject, review
<1>11. CASE ApproveReplay(s)
    <2> DEFINE b == job[s].approval
               j == [op |-> "approved", todo |-> <<>>, approval |-> b]
    <2>1. /\ job' = [job EXCEPT ![s] = j] /\ j.approval = b /\ j.op = "approved"
          /\ cause' = cause \cup {b} /\ UNCHANGED <<approval, decided, halfway>>
          /\ job[s].op = "approve"
        BY <1>11 DEF ApproveReplay, Begin
    <2>. HIDE DEF j
    <2>2. \A t \in Sessions : job'[t].approval = job[t].approval
        BY <1>4, <2>1
    <2>3. \A t \in Sessions : t # s => job'[t] = job[t]
        BY <1>4, <2>1
    <2>4. job'[s].op = "approved"
        BY <1>4, <2>1
    <2>5. a \in cause' => \/ approval[a].status = "approved"
                          \/ \E t \in Sessions : job'[t].approval = a /\ job'[t].op = "approved"
                          \/ a \in halfway
        <3>1. CASE a = b
            BY <2>2, <2>4, <3>1
        <3>2. CASE a # b
            BY <1>3, <2>1, <2>2, <2>3, <3>2 DEF DecidedOnceOf
        <3>. QED
            BY <3>1, <3>2
    <2>6. a \in halfway => /\ a \in cause' /\ approval[a].status # "approved"
                           /\ \A t \in Sessions : job'[t].approval = a => job'[t].op = "reject"
        <3>1. a \in halfway => a # b
            BY <1>3, <2>1 DEF DecidedOnceOf
        <3>. QED
            BY <1>3, <2>1, <2>2, <2>3, <3>1 DEF DecidedOnceOf
    <2>. QED
        BY <1>3, <2>1, <2>2, <2>5, <2>6 DEF DecidedOnceOf, Pending
<1>12. ASSUME NEW v \in {"approved", "rejected"}, job[s].op \in Deciding, Decide(s, v),
              v = "approved" <=> job[s].op = "approved", v = "rejected" => job[s].op = "reject"
       PROVE  DecidedOnceOf(a)'
    <2> DEFINE b == job[s].approval
    <2>1. /\ \A c \in Approvals : c # b => approval'[c] = approval[c]
          /\ approval'[b] # None /\ approval'[b].status = v
          /\ decided' = decided \cup {<<b, v>>}
          /\ job' = [job EXCEPT ![s] = IdleJob] /\ cause' = cause /\ halfway' = halfway
        BY <1>12, DecideFacts
    <2>2. \A t \in Sessions : job'[t].approval = a => t # s /\ job'[t] = job[t]
        BY <1>4, <2>1, IdleFacts
    <2>3. \A t \in Sessions : t # s => job'[t] = job[t]
        BY <1>4, <2>1
    <2>4. CASE a # b
        <3>1. approval'[a] = approval[a]
            BY <2>1, <2>4
        <3>2. \A x \in decided' : x[1] = a => x \in decided
            BY <2>1, <2>4
        <3>3. a \in cause => \/ approval[a].status = "approved"
                             \/ \E t \in Sessions : job'[t].approval = a /\ job'[t].op = "approved"
                             \/ a \in halfway
            BY <1>3, <2>3, <2>4 DEF DecidedOnceOf
        <3>4. a \in halfway => /\ a \in cause /\ approval[a].status # "approved"
                               /\ \A t \in Sessions : job'[t].approval = a => job'[t].op = "reject"
            BY <1>3, <2>2 DEF DecidedOnceOf
        <3>. QED
            BY <1>3, <2>1, <2>2, <3>1, <3>2, <3>3, <3>4 DEF DecidedOnceOf, Pending
    <2>5. CASE a = b
        <3>1. Pending(a) /\ \A t \in Sessions : job[t].approval = a => t = s
            BY <1>3, <2>5 DEF DecidedOnceOf
        <3>2. \A t \in Sessions : job'[t].approval # a
            BY <2>2, <3>1
        <3>3. \A x \in decided : x[1] # a
            <4>1. ASSUME NEW x \in decided, x[1] = a PROVE FALSE
                <5>1. approval[a].status = x[2] /\ approval[a].status = "pending"
                    BY <1>3, <3>1, <4>1 DEF DecidedOnceOf, Pending
                <5>2. x[2] \in {"approved", "rejected"}
                    BY <4>1 DEF Typed, TypeOK, AuditLog
                <5>. QED
                    BY <5>1, <5>2
            <4>. QED
                BY <4>1
        <3>4. \A x \in decided' : x[1] = a => x[2] = v
            BY <2>1, <3>3
        <3>5. a \in cause => v = "approved" \/ a \in halfway
            BY <1>3, <1>12, <3>1 DEF DecidedOnceOf, Pending
        <3>6. a \in halfway => a \in cause /\ v # "approved"
            BY <1>3, <1>12, <2>5 DEF DecidedOnceOf
        <3>. QED
            BY <2>1, <2>5, <3>2, <3>4, <3>5, <3>6 DEF DecidedOnceOf, Pending
    <2>. QED
        BY <2>4, <2>5
<1>13. CASE CommitApprove(s) \/ CommitReject(s)
    BY <1>12, <1>13 DEF CommitApprove, CommitReject, Deciding
<1>. QED
    BY <1>7, <1>8, <1>10, <1>11, <1>13, ApprovalCases

(* A new approval row has no history.                                      *)
LEMMA AroundDecided ==
    ASSUME Typed, Caused, DecidedOnce, Around
    PROVE  DecidedOnce'
<1>1. UNCHANGED <<job, contested, cause, halfway, decided>>
    BY AroundTypes
<1>2. SUFFICES ASSUME NEW a \in Approvals \ contested
               PROVE  DecidedOnceOf(a)'
    BY <1>1 DEF DecidedOnce, DecidedOnceOf, Pending
<1>3. DecidedOnceOf(a)
    BY DEF DecidedOnce
<1>4. CASE approval'[a] = approval[a]
    BY <1>1, <1>3, <1>4 DEF DecidedOnceOf, Pending
<1>5. CASE approval[a] = None
    <2>1. a \notin cause
        BY <1>5 DEF Caused
    <2>. QED
        BY <1>1, <1>3, <1>5, <2>1 DEF DecidedOnceOf, Pending
<1>. QED
    BY <1>4, <1>5, AroundApprovals

-----------------------------------------------------------------------------
(* The invariant and its theorems                                          *)

LEMMA ReplayInit ==
    ASSUME Init
    PROVE  ReplayInv
<1>1. job = [s \in Sessions |-> IdleJob] /\ IdleJob \in Job
    BY IdleFacts DEF Init, WellFormed
<1>2. TypeOK
    <2>1. approval_required \in BOOLEAN
        BY DEF Init
    <2>. QED
        BY <1>1, <2>1 DEF Init, TypeOK, Statuses, Circuits
<1>3. \A s \in Sessions : job[s] = IdleJob
    BY <1>1
<1>4. Typed
    BY <1>2, <1>3, IdleFacts DEF Typed, JobsWellFormed
<1>5. \A s \in Sessions : Holds(s) = {}
    BY <1>3 DEF Holds, IdleJob
<1>6. Exact
    BY <1>5 DEF Exact, Init
<1>7. Replayed /\ Caused
    BY <1>3 DEF Replayed, ApprovingReplayed, ApprovedWasReplayed, Caused, Init, IdleJob
<1>8. DecidedOnce
    BY <1>3, IdleFacts, NoneAssumption DEF DecidedOnce, DecidedOnceOf, Init
<1>. QED
    BY <1>4, <1>6, <1>7, <1>8 DEF ReplayInv

LEMMA ReplayStep ==
    ASSUME ReplayInv, [Next]_vars
    PROVE  ReplayInv'
<1> USE DEF ReplayInv
<1>1. ASSUME NEW s \in Sessions, Work(s) \/ Crash(s) \/ Begins(s)
      PROVE  ReplayInv'
    <2>1. Moves(s)
        BY <1>1, WorkMoves, CrashMoves, AskMoves DEF Begins
    <2>. QED
        BY <1>1, <2>1, SessionTypes, SessionExact, SessionReplayed, SessionCaused, SessionDecided
<1>2. CASE Around
    BY <1>2, AroundTypes, AroundExact, AroundReplayed, AroundCaused, AroundDecided
<1>3. CASE UNCHANGED vars
    <2>1. Typed'
        BY <1>3 DEF vars, rows, review, history, Typed, TypeOK, JobsWellFormed, WellFormed
    <2>2. Exact'
        BY <1>3 DEF vars, rows, history, Exact, Holds
    <2>3. Replayed' /\ Caused'
        BY <1>3 DEF vars, rows, review, Replayed, ApprovingReplayed, ApprovedWasReplayed, Caused
    <2>4. DecidedOnce'
        BY <1>3 DEF vars, review, history, DecidedOnce, DecidedOnceOf, Pending
    <2>. QED
        BY <2>1, <2>2, <2>3, <2>4
<1>. QED
    BY <1>1, <1>2, <1>3, NextCases

(* Of every behaviour of the specification, with or without fairness.      *)
THEOREM ReplayInvariant == Spec => []ReplayInv
<1>1. Init => ReplayInv
    BY ReplayInit
<1>2. ReplayInv /\ [Next]_vars => ReplayInv'
    BY ReplayStep
<1>. QED
    BY <1>1, <1>2, PTL DEF Spec

(* Types of the rows, the jobs and the circuits; only FAILED rows are      *)
(* stale (_fetch_stale_failed_deliveries).                                 *)
THEOREM TypesKept == Spec => []TypeOK
<1>1. ReplayInv => TypeOK
    BY DEF ReplayInv, Typed
<1>. QED
    BY <1>1, ReplayInvariant, PTL

(* However operators, approvals, bulk lists and scheduled ticks mix, and   *)
(* whatever workers commit meanwhile, a failed delivery is replayed a      *)
(* second time only when two sessions had read it as FAILED at once        *)
(* (replay_delivery).                                                      *)
THEOREM ReplaysOnce == Spec => []ReplayedOnce
<1>1. ReplayInv => ReplayedOnce
    BY DEF ReplayInv, Exact, ReplayedOnce, Typed, TypeOK
<1>. QED
    BY <1>1, ReplayInvariant, PTL

(* An approved approval has replayed its delivery and is in the audit log, *)
(* wherever a session stopped between the two commits of                   *)
(* approve_replay_approval.                                                *)
THEOREM ApprovalsReplay == Spec => []ApprovedWasReplayed
<1>1. ReplayInv => ApprovedWasReplayed
    BY DEF ReplayInv, Replayed
<1>. QED
    BY <1>1, ReplayInvariant, PTL

(* An approval that no two sessions were deciding at once has the verdict  *)
(* of its row and no other in the audit log; a rejected one has replayed   *)
(* only when its approving session ended between its two commits, and such *)
(* an approval is never approved (replay_approval_service.py).             *)
THEOREM ApprovalsDecidedOnce == Spec => []OneVerdict
<1>1. ReplayInv => OneVerdict
    <2>1. SUFFICES ASSUME ReplayInv, NEW a \in Approvals \ contested
                   PROVE  /\ \A x \in decided : x[1] = a => approval[a].status = x[2]
                          /\ approval[a] # None /\ approval[a].status = "rejected" /\ a \in cause =>
                                a \in halfway
                          /\ a \in halfway => approval[a].status # "approved"
        BY DEF OneVerdict
    <2>2. /\ \A x \in decided : x[1] = a => approval[a].status = x[2]
          /\ \A s \in Sessions : job[s].approval = a => approval[a].status = "pending"
          /\ a \in cause => \/ approval[a].status = "approved"
                            \/ \E s \in Sessions : job[s].approval = a
                            \/ a \in halfway
          /\ a \in halfway => approval[a].status # "approved"
        BY <2>1 DEF ReplayInv, DecidedOnce, DecidedOnceOf, Pending
    <2>. QED
        BY <2>2
<1>. QED
    BY <1>1, ReplayInvariant, PTL
=============================================================================
