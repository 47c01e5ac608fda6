---------------------------- MODULE ReplayControl ----------------------------
(***************************************************************************)
(* The ways a failed delivery is sent again: the operator's replay, with   *)
(* or without approval (replay_approval_service.py), the admin's bulk      *)
(* replay (replay_service.py) and the scheduled replay of stale failures   *)
(* (celery_app/tasks/replay.py).                                           *)
(*                                                                         *)
(* A session reads FAILED once and later commits REPLAYING whatever the    *)
(* row then says: SQLAlchemy's identity map keeps the first read and the   *)
(* UPDATE has no condition on the status.  Workers, circuits and rate      *)
(* limits are the surroundings here (OutboundDelivery, CircuitBreaker and  *)
(* PartnerGate have their rules): a worker may commit RETRYING or          *)
(* DELIVERED at any moment, a circuit may change and a bucket be empty at  *)
(* any moment.  A delivery that has failed has its dead letter, and no     *)
(* second one can be inserted, so no worker commits FAILED again           *)
(* (FailsOnce of OutboundDelivery).                                        *)
(*                                                                         *)
(* A definition headed "Slip:" is a plausible mistake in the definition    *)
(* that follows it; it shows that the named property notices it.           *)
(***************************************************************************)
EXTENDS Integers, Sequences

CONSTANTS Deliveries, Partners,
          Partner,          \* Partner[d]: the partner of delivery d
          AutoReplay,       \* partners with auto_replay_enabled
          Approvals,        \* replay_approvals rows that may be made
          Requests,         \* admin API requests at work at once
          Beat,             \* the scheduled celery task
          Bulk,             \* Bulk[s]: lists of ids request s may send to bulk-replay
          FailedAt,         \* FailedAt[d]: updated_at of d while it is FAILED
          None,
          BatchLimit        \* MAX_PER_TICK

Verdicts == {"pending", "approved", "rejected"}
Approval == [delivery: Deliveries, status: Verdicts]

ASSUME NoneAssumption == None \notin Approvals \cup Approval
ASSUME BeatAssumption == Beat \notin Requests
ASSUME PartnerAssumption == Partner \in [Deliveries -> Partners] /\ AutoReplay \subseteq Partners
ASSUME BulkAssumption == \A s \in Requests : Bulk[s] \subseteq Seq(Deliveries) \ {<<>>}
ASSUME FailedAtAssumption == FailedAt \in [Deliveries -> Int]
ASSUME BatchAssumption == BatchLimit \in Nat \ {0}

VARIABLES
    approval_required,  \* HUB_REPLAY_APPROVAL_REQUIRED
    status,     \* status[d]
    aged,       \* the FAILED deliveries older than STALE_AGE
    replays,    \* replays[d]: rows delivery.replay in the audit log, one outbox row each
    approval,   \* approval[a]: the row
    decided,    \* audit rows replay.approve and replay.reject
    job,        \* job[s]: what session s is doing
    circuit,    \* circuit[p]: the partner's circuit
    cause,      \* history: approvals whose approval replayed a delivery
    halfway,    \* history: approvals whose session ended between its two commits
    overlapped, \* history: deliveries read as FAILED by two sessions at once
    contested   \* history: approvals two sessions were deciding at once

Sessions == Requests \cup {Beat}

rows    == <<status, aged, replays>>
review  == <<approval, decided, cause, halfway>>
history == <<overlapped, contested>>
vars    == <<approval_required, rows, review, job, circuit, history>>

Statuses  == {"failed", "replaying", "taken"}  \* taken: RETRYING or DELIVERED
Circuits  == {"closed", "open", "half_open"}
AuditLog  == Approvals \X {"approved", "rejected"}
Ops       == {"idle", "replay", "bulk", "bulk_read", "scheduled", "approve", "approved", "reject"}
Job       == [op: Ops, todo: Seq(Deliveries), approval: Approvals \cup {None}]
IdleJob   == [op |-> "idle", todo |-> <<>>, approval |-> None]

TypeOK ==
    /\ approval_required \in BOOLEAN
    /\ status \in [Deliveries -> Statuses]
    /\ aged \subseteq {d \in Deliveries : status[d] = "failed"}
    /\ replays \in [Deliveries -> Nat]
    /\ approval \in [Approvals -> Approval \cup {None}]
    /\ decided \subseteq AuditLog
    /\ job \in [Sessions -> Job]
    /\ circuit \in [Partners -> Circuits]
    /\ cause \subseteq Approvals
    /\ halfway \subseteq Approvals
    /\ overlapped \subseteq Deliveries
    /\ contested \subseteq Approvals

(* Every delivery has failed. *)
Init ==
    /\ approval_required \in BOOLEAN
    /\ status = [d \in Deliveries |-> "failed"]
    /\ aged = {}
    /\ replays = [d \in Deliveries |-> 0]
    /\ approval = [a \in Approvals |-> None]
    /\ decided = {}
    /\ job = [s \in Sessions |-> IdleJob]
    /\ circuit = [p \in Partners |-> "closed"]
    /\ cause = {}
    /\ halfway = {}
    /\ overlapped = {}
    /\ contested = {}

Idle(s) == job[s].op = "idle"
Begin(s, op, todo, a) == job' = [job EXCEPT ![s] = [op |-> op, todo |-> todo, approval |-> a]]
End(s) == job' = [job EXCEPT ![s] = IdleJob]

(* The deliveries session s has read as FAILED and may still replay. *)
Holds(s) ==
    CASE job[s].op \in {"replay", "approve"} -> {job[s].todo[1]}
      [] job[s].op = "bulk_read"             -> {job[s].todo[1]}
      [] job[s].op = "scheduled"             -> {job[s].todo[n] : n \in DOMAIN job[s].todo}
      [] OTHER                               -> {}

(* Bookkeeping: session s reads the deliveries ds as FAILED. *)
NoteRead(s, ds) ==
    overlapped' = overlapped \cup (ds \cap UNION {Holds(t) : t \in Sessions \ {s}})

NoteDecision(s, a) ==
    contested' = IF \E t \in Sessions \ {s} : job[t].approval = a
                 THEN contested \cup {a} ELSE contested

-----------------------------------------------------------------------------
(* Replay of one delivery                                                  *)

(* Slip: the status is not looked at (ReplayedOnce)           .            *)
ReadReplayAny(s, d) ==
    /\ Idle(s) /\ ~approval_required
    /\ Begin(s, "replay", <<d>>, None)
    /\ NoteRead(s, {d})
    /\ UNCHANGED <<approval_required, rows, review, circuit, contested>>

(* replay_delivery up to its commit.  A delivery that is not FAILED gives  *)
(* 409 and changes nothing.                                                *)
ReadReplay(s, d) ==
    /\ Idle(s) /\ ~approval_required
    /\ status[d] = "failed"
    /\ Begin(s, "replay", <<d>>, None)
    /\ NoteRead(s, {d})
    /\ UNCHANGED <<approval_required, rows, review, circuit, contested>>

(* Slip: updated_at keeps its old value (TypeOK).                          *)
SetReplayingAged(d) ==
    /\ status' = [status EXCEPT ![d] = "replaying"]
    /\ replays' = [replays EXCEPT ![d] = @ + 1]
    /\ UNCHANGED aged

(* The commit: REPLAYING, the audit row and the outbox row together. *)
SetReplaying(d) ==
    /\ status' = [status EXCEPT ![d] = "replaying"]
    /\ aged' = aged \ {d}
    /\ replays' = [replays EXCEPT ![d] = @ + 1]

CommitReplay(s) ==
    /\ job[s].op = "replay"
    /\ SetReplaying(job[s].todo[1])
    /\ End(s)
    /\ UNCHANGED <<approval_required, review, circuit, history>>

-----------------------------------------------------------------------------
(* Approvals                                                               *)

(* create_replay_approval. *)
RequestApproval(a, d) ==
    /\ approval_required
    /\ approval[a] = None
    /\ status[d] = "failed"
    /\ approval' = [approval EXCEPT ![a] = [delivery |-> d, status |-> "pending"]]
    /\ UNCHANGED <<approval_required, rows, decided, cause, halfway, job, circuit, history>>

Pending(a) == approval[a] # None /\ approval[a].status = "pending"

(* approve_replay_approval reads the approval and the delivery once; it    *)
(* ends with 409 when the approval is decided or the delivery not FAILED.  *)
ReadApprove(s, a) ==
    /\ Idle(s)
    /\ Pending(a)
    /\ LET d == approval[a].delivery
       IN  /\ status[d] = "failed"
           /\ Begin(s, "approve", <<d>>, a)
           /\ NoteRead(s, {d})
    /\ NoteDecision(s, a)
    /\ UNCHANGED <<approval_required, rows, review, circuit>>

(* Slip: the approval is committed before the replay                       *)
(* (ApprovedWasReplayed).                                                  *)
ApproveFirst(s) ==
    /\ job[s].op = "approve"
    /\ approval' = [approval EXCEPT ![job[s].approval].status = "approved"]
    /\ decided' = decided \cup {<<job[s].approval, "approved">>}
    /\ Begin(s, "approved", <<>>, job[s].approval)
    /\ UNCHANGED <<approval_required, rows, cause, halfway, circuit, history>>

(* The replay inside it commits on its own. *)
ApproveReplay(s) ==
    /\ job[s].op = "approve"
    /\ SetReplaying(job[s].todo[1])
    /\ cause' = cause \cup {job[s].approval}
    /\ Begin(s, "approved", <<>>, job[s].approval)
    /\ UNCHANGED <<approval_required, approval, decided, halfway, circuit, history>>

Decide(s, verdict) ==
    /\ approval' = [approval EXCEPT ![job[s].approval].status = verdict]
    /\ decided' = decided \cup {<<job[s].approval, verdict>>}
    /\ End(s)
    /\ UNCHANGED <<approval_required, rows, cause, halfway, circuit, history>>

CommitApprove(s) == job[s].op = "approved" /\ Decide(s, "approved")

(* Slip: a decided approval can be rejected (OneVerdict).                  *)
ReadRejectAny(s, a) ==
    /\ Idle(s)
    /\ approval[a] # None
    /\ Begin(s, "reject", <<>>, a)
    /\ NoteDecision(s, a)
    /\ UNCHANGED <<approval_required, rows, review, circuit, overlapped>>

(* reject_replay_approval. *)
ReadReject(s, a) ==
    /\ Idle(s)
    /\ Pending(a)
    /\ Begin(s, "reject", <<>>, a)
    /\ NoteDecision(s, a)
    /\ UNCHANGED <<approval_required, rows, review, circuit, overlapped>>

CommitReject(s) == job[s].op = "reject" /\ Decide(s, "rejected")

-----------------------------------------------------------------------------
(* Bulk and scheduled replay                                               *)

(* bulk_replay_deliveries over a list of ids. *)
BeginBulk(s, ids) ==
    /\ Idle(s)
    /\ Begin(s, "bulk", ids, None)
    /\ UNCHANGED <<approval_required, rows, review, circuit, history>>

(* The next id is read; one that is not FAILED is skipped. *)
ReadBulk(s) ==
    /\ job[s].op = "bulk"
    /\ LET d == Head(job[s].todo)
       IN  \/ /\ status[d] = "failed"
              /\ Begin(s, "bulk_read", job[s].todo, None)
              /\ NoteRead(s, {d})
           \/ /\ status[d] # "failed"
              /\ IF Len(job[s].todo) = 1 THEN End(s)
                 ELSE Begin(s, "bulk", Tail(job[s].todo), None)
              /\ UNCHANGED overlapped
    /\ UNCHANGED <<approval_required, rows, review, circuit, contested>>

(* Slip: `>=` for `<=` in the comparison with the cutoff (BacklogReplayed).  *)
StaleRowsYoung ==
    {d \in Deliveries \ aged : status[d] = "failed" /\ Partner[d] \in AutoReplay}

(* The WHERE of _fetch_stale_failed_deliveries: a row in aged is FAILED. *)
StaleRows == {d \in aged : Partner[d] \in AutoReplay}

(* Its ORDER BY updated_at and LIMIT: the oldest BatchLimit rows; rows of  *)
(* the same moment come in any order.                                      *)
StaleBatches ==
    {batch \in UNION {[1..n -> StaleRows] : n \in 1..BatchLimit} :
        LET chosen == {batch[n] : n \in DOMAIN batch}
        IN  /\ \A m, n \in DOMAIN batch : m < n =>
                  batch[m] # batch[n] /\ FailedAt[batch[m]] <= FailedAt[batch[n]]
            /\ \A d \in StaleRows \ chosen : \A n \in DOMAIN batch :
                  BatchLimit \in DOMAIN batch /\ FailedAt[batch[n]] <= FailedAt[d]}

BeginScheduled ==
    /\ Idle(Beat)
    /\ \E batch \in StaleBatches :
          /\ Begin(Beat, "scheduled", batch, None)
          /\ NoteRead(Beat, {batch[n] : n \in DOMAIN batch})
    /\ UNCHANGED <<approval_required, rows, review, circuit, contested>>

Batch(s) == job[s].op \in {"bulk_read", "scheduled"}

(* The scheduled replay wants a CLOSED circuit, the bulk replay one that   *)
(* is not OPEN.                                                            *)
CircuitLets(s, p) ==
    IF job[s].op = "scheduled" THEN circuit[p] = "closed" ELSE circuit[p] # "open"

NextRow(s) ==
    IF Len(job[s].todo) = 1 THEN End(s)
    ELSE Begin(s, IF job[s].op = "scheduled" THEN "scheduled" ELSE "bulk",
               Tail(job[s].todo), None)

(* A circuit that does not let the row through, or a bucket without a      *)
(* token (allow_request may refuse at any moment).                         *)
SkipRow(s) ==
    /\ Batch(s)
    /\ NextRow(s)
    /\ UNCHANGED <<approval_required, rows, review, circuit, history>>

(* allow_request lets the row through, replay_delivery commits. *)
ReplayRow(s) ==
    /\ Batch(s)
    /\ LET d == Head(job[s].todo)
       IN  CircuitLets(s, Partner[d]) /\ SetReplaying(d)
    /\ NextRow(s)
    /\ UNCHANGED <<approval_required, review, circuit, history>>

-----------------------------------------------------------------------------
(* The surroundings                                                        *)

(* Any commit of a worker, one that read the delivery long ago included:   *)
(* RETRYING or DELIVERED, which no session tells apart.                    *)
Worker(d) ==
    /\ status' = [status EXCEPT ![d] = "taken"]
    /\ aged' = aged \ {d}
    /\ UNCHANGED <<approval_required, replays, review, job, circuit, history>>

(* An hour passes for the oldest row that is not stale yet. *)
Age ==
    /\ LET young == {d \in Deliveries \ aged : status[d] = "failed"}
       IN  \E d \in young :
              /\ \A c \in young : FailedAt[d] <= FailedAt[c]
              /\ aged' = aged \cup {d}
    /\ UNCHANGED <<approval_required, status, replays, review, job, circuit, history>>

(* Failures open a partner's circuit, time half-opens it, a success closes *)
(* it: the last two need other traffic of that partner.                    *)
CircuitMoves(p) ==
    /\ \E c \in Circuits :
          /\ circuit[p] = "closed" => c = "open"
          /\ circuit' = [circuit EXCEPT ![p] = c]
    /\ UNCHANGED <<approval_required, rows, review, job, history>>

(* A session ends half-way: what it has committed stays. *)
Crash(s) ==
    /\ ~Idle(s)
    /\ End(s)
    /\ halfway' = IF job[s].op = "approved" THEN halfway \cup {job[s].approval} ELSE halfway
    /\ UNCHANGED <<approval_required, rows, approval, decided, cause, circuit, history>>

-----------------------------------------------------------------------------
(* Steps of work that has begun. *)
Work(s) ==
    \/ CommitReplay(s) \/ ApproveReplay(s) \/ CommitApprove(s) \/ CommitReject(s)
    \/ ReadBulk(s) \/ SkipRow(s) \/ ReplayRow(s)

Ask(s) ==
    \/ \E d \in Deliveries : ReadReplay(s, d)
    \/ \E a \in Approvals : ReadApprove(s, a) \/ ReadReject(s, a)
    \/ \E ids \in Bulk[s] : BeginBulk(s, ids)

Schedule == BeginScheduled \/ Work(Beat)

Next ==
    \/ \E s \in Sessions : Work(s) \/ Crash(s)
    \/ \E s \in Requests : Ask(s)
    \/ BeginScheduled
    \/ \E a \in Approvals, d \in Deliveries : RequestApproval(a, d)
    \/ \E d \in Deliveries : Worker(d)
    \/ \E p \in Partners : CircuitMoves(p)
    \/ Age

Spec == Init /\ [][Next]_vars

(* Celery beat starts the task again and again, and time passes.           *)
(* Operators, workers, circuits and buckets owe nothing.                   *)
FairSpec == Spec /\ WF_vars(Schedule) /\ WF_vars(Age)

-----------------------------------------------------------------------------
(* Properties                                                              *)

(* A failed delivery is replayed once (one audit row, one outbox row),     *)
(* whatever mix of operators, approvals, bulk lists and scheduled ticks    *)
(* asks for it and whatever workers commit meanwhile.  A second replay     *)
(* needs two sessions that had both read FAILED before either committed.   *)
ReplayedOnce == \A d \in Deliveries : replays[d] > 1 => d \in overlapped

(* An approval that says "approved" has replayed its delivery and both     *)
(* audit rows exist, although replay and approval are two commits and the  *)
(* session may end between them.                                           *)
ApprovedWasReplayed ==
    \A a \in Approvals : approval[a] # None /\ approval[a].status = "approved" =>
        /\ a \in cause /\ <<a, "approved">> \in decided

(* Of an approval that no two sessions were deciding at once: the audit    *)
(* log has no verdict but the one in the row, and the only rejected one    *)
(* that has replayed its delivery is one whose approving session ended     *)
(* between the two commits of approve_replay_approval.  Such an approval   *)
(* is never approved afterwards: its delivery is not FAILED any more.      *)
OneVerdict ==
    \A a \in Approvals \ contested :
        /\ \A x \in decided : x[1] = a => approval[a].status = x[2]
        /\ approval[a] # None /\ approval[a].status = "rejected" /\ a \in cause => a \in halfway
        /\ a \in halfway => approval[a].status # "approved"

(* What the scheduled task contributes to spec J6, "DLQ backlog shrinks    *)
(* without manual work when the partner recovers": a failed delivery of a  *)
(* partner with auto replay is sent again in the end, with a batch limit,  *)
(* ticks that end half-way and operators at work meanwhile.  It takes that *)
(* the circuits of ALL partners with auto replay close for good, since     *)
(* rows of one that stays open fill the batches, and that the rate limit   *)
(* does not refuse the task for ever.                                      *)
BacklogReplayed ==
    (\A p \in AutoReplay : <>[](circuit[p] = "closed")) /\ SF_vars(ReplayRow(Beat)) =>
        \A d \in Deliveries :
            Partner[d] \in AutoReplay => (status[d] = "failed") ~> (status[d] # "failed")
=============================================================================
