--------------------------- MODULE CircuitBreaker ---------------------------
(***************************************************************************)
(* The circuit breaker of one partner (app/domain/services/                *)
(* circuit_breaker.py): four Redis keys and the workers that read and      *)
(* write them around a POST.  Every Redis command is a step of its own,    *)
(* because the code uses neither MULTI nor a script.                       *)
(*                                                                         *)
(* Times are ages: opened_at is how long ago the circuit opened, a key     *)
(* with a TTL is how long it still lives.  They saturate at OpenSeconds    *)
(* and 0, which is all the code tells apart; failures saturates above      *)
(* Threshold for the same reason.                                          *)
(*                                                                         *)
(* A definition headed "Slip:" is a plausible mistake in the definition    *)
(* that follows it, which the named property notices.                      *)
(***************************************************************************)
EXTENDS Naturals

CONSTANTS Workers,       \* outbound workers that serve the partner
          None,          \* "no such key"
          Threshold,     \* hub_circuit_failure_threshold; 0 acts as 1
          OpenSeconds,   \* hub_circuit_open_seconds
          WindowSeconds, \* hub_circuit_window_seconds
          MaxFaults      \* bound: crashes and Redis errors

ASSUME CircuitAssumption ==
    /\ Threshold \in Nat \ {0}
    /\ OpenSeconds \in Nat \ {0}
    /\ WindowSeconds \in Nat \ {0}
    /\ MaxFaults \in Nat
    /\ None \notin Nat /\ None \notin {"closed", "open", "half_open"}

VARIABLES state,      \* cb:<partner>:state, None if absent (read as closed)
          opened_at,  \* cb:<partner>:opened_at, as an age
          probe,      \* cb:<partner>:probe, as seconds to live; 0: absent
          failures,   \* cb:<partner>:failures
          window,     \* its seconds to live; None: it has no TTL
          pc,         \* pc[w]: the next Redis command or HTTP call of worker w
          faults      \* how many faults have happened

keys == <<state, opened_at, probe, failures, window>>
vars == <<keys, pc, faults>>

States == {"closed", "open", "half_open"}

(* The commands of allow_outbound, record_failure and record_success.      *)
AllowStages   == {"a_state", "a_opened", "a_stored", "a_half", "a_probe"}
FailureStages == {"f_state", "f_opened", "f_reopen", "f_restamp", "f_unprobe",
                  "f_incr", "f_expire", "f_open", "f_stamp"}
SuccessStages == {"s_delete", "s_close"}
Stages        == {"idle", "send"} \cup AllowStages \cup FailureStages \cup SuccessStages

TypeOK ==
    /\ state \in States \cup {None}
    /\ opened_at \in 0 .. OpenSeconds \cup {None}
    /\ probe \in 0 .. OpenSeconds
    /\ failures \in 0 .. Threshold + 1
    /\ window \in 1 .. WindowSeconds \cup {None}
    /\ pc \in [Workers -> Stages]
    /\ faults \in 0 .. MaxFaults

Init ==
    /\ state = None
    /\ opened_at = None
    /\ probe = 0
    /\ failures = 0
    /\ window = None
    /\ pc = [w \in Workers |-> "idle"]
    /\ faults = 0

Goto(w, stage) == pc' = [pc EXCEPT ![w] = stage]

(* Slip: the probe key is set without EX and never expires                 *)
(* (PauseEndsWithTimer).                                                   *)
TickProbeStays ==
    /\ opened_at' = IF opened_at \in 0 .. OpenSeconds - 1 THEN opened_at + 1 ELSE opened_at
    /\ \/ /\ window = None
          /\ UNCHANGED <<failures, window>>
       \/ /\ window = 1
          /\ failures' = 0
          /\ window' = None
       \/ /\ window \notin {None, 1}
          /\ window' = window - 1
          /\ UNCHANGED failures
    /\ UNCHANGED <<state, probe, pc, faults>>

(* One second passes; keys whose TTL is over are gone.                     *)
Tick ==
    /\ opened_at' = IF opened_at \in 0 .. OpenSeconds - 1 THEN opened_at + 1 ELSE opened_at
    /\ probe' = IF probe > 0 THEN probe - 1 ELSE 0
    /\ \/ /\ window = None
          /\ UNCHANGED <<failures, window>>
       \/ /\ window = 1
          /\ failures' = 0
          /\ window' = None
       \/ /\ window \notin {None, 1}
          /\ window' = window - 1
          /\ UNCHANGED failures
    /\ UNCHANGED <<state, pc, faults>>

-----------------------------------------------------------------------------
(* get_circuit_state: GET state and, if it is open, GET opened_at.         *)

ReadState(w, here, opened, half, closed) ==
    /\ pc[w] = here
    /\ Goto(w, CASE state = "open"      -> opened
                 [] state = "half_open" -> half
                 [] OTHER               -> closed)
    /\ UNCHANGED <<keys, faults>>

ReadOpenedAt(w, here, half, stillOpen) ==
    /\ pc[w] = here
    /\ Goto(w, IF opened_at # None /\ opened_at >= OpenSeconds THEN half ELSE stillOpen)
    /\ UNCHANGED <<keys, faults>>

-----------------------------------------------------------------------------
(* allow_outbound                                                          *)

(* A worker has a delivery for the partner. *)
Begin(w) ==
    /\ pc[w] = "idle"
    /\ Goto(w, "a_state")
    /\ UNCHANGED <<keys, faults>>

AllowReadState(w)    == ReadState(w, "a_state", "a_opened", "a_stored", "send")
AllowReadOpenedAt(w) == ReadOpenedAt(w, "a_opened", "a_stored", "idle")

(* The stored state is read again, and moved on if it still says open. *)
AllowReadStored(w) == ReadState(w, "a_stored", "a_half", "a_probe", "a_probe")

SetHalfOpen(w) ==
    /\ pc[w] = "a_half"
    /\ state' = "half_open"
    /\ Goto(w, "a_probe")
    /\ UNCHANGED <<opened_at, probe, failures, window, faults>>

(* Slip: EX counts the failure window on top of the pause (TypeOK).        *)
AcquireProbeLong(w) ==
    /\ pc[w] = "a_probe"
    /\ probe = 0
    /\ probe' = OpenSeconds + WindowSeconds
    /\ Goto(w, "send")
    /\ UNCHANGED <<state, opened_at, failures, window, faults>>

(* SET probe NX EX: who sets it may send, the others are refused. *)
AcquireProbe(w) ==
    /\ pc[w] = "a_probe"
    /\ \/ /\ probe = 0
          /\ probe' = OpenSeconds
          /\ Goto(w, "send")
       \/ /\ probe > 0
          /\ UNCHANGED probe
          /\ Goto(w, "idle")
    /\ UNCHANGED <<state, opened_at, failures, window, faults>>

-----------------------------------------------------------------------------
(* After the POST: a poison answer records nothing.                        *)
Answer(w, next) ==
    /\ pc[w] = "send"
    /\ Goto(w, next)
    /\ UNCHANGED <<keys, faults>>

(* record_success *)
DeleteKeys(w) ==
    /\ pc[w] = "s_delete"
    /\ failures' = 0
    /\ window' = None
    /\ probe' = 0
    /\ opened_at' = None
    /\ Goto(w, "s_close")
    /\ UNCHANGED <<state, faults>>

SetClosed(w) ==
    /\ pc[w] = "s_close"
    /\ state' = "closed"
    /\ Goto(w, "idle")
    /\ UNCHANGED <<opened_at, probe, failures, window, faults>>

(* record_failure *)
FailureReadState(w)    == ReadState(w, "f_state", "f_opened", "f_reopen", "f_incr")
FailureReadOpenedAt(w) == ReadOpenedAt(w, "f_opened", "f_reopen", "f_incr")

(* SET state OPEN: after a failed probe, or at the threshold. *)
SetOpen(w) ==
    /\ \/ pc[w] = "f_reopen" /\ Goto(w, "f_restamp")
       \/ pc[w] = "f_open" /\ Goto(w, "f_stamp")
    /\ state' = "open"
    /\ UNCHANGED <<opened_at, probe, failures, window, faults>>

(* Slip: the time of opening is not stored at the threshold (OpenHasTimer).*)
SetOpenedAtProbeOnly(w) ==
    /\ \/ pc[w] = "f_restamp" /\ opened_at' = 0 /\ Goto(w, "f_unprobe")
       \/ pc[w] = "f_stamp" /\ UNCHANGED opened_at /\ Goto(w, "idle")
    /\ UNCHANGED <<state, probe, failures, window, faults>>

SetOpenedAt(w) ==
    /\ \/ pc[w] = "f_restamp" /\ Goto(w, "f_unprobe")
       \/ pc[w] = "f_stamp" /\ Goto(w, "idle")
    /\ opened_at' = 0
    /\ UNCHANGED <<state, probe, failures, window, faults>>

DeleteProbe(w) ==
    /\ pc[w] = "f_unprobe"
    /\ probe' = 0
    /\ Goto(w, "idle")
    /\ UNCHANGED <<state, opened_at, failures, window, faults>>

(* Slip: EXPIRE only when the threshold is reached (WindowHasEnd).         *)
IncrementNoExpire(w) ==
    /\ pc[w] = "f_incr"
    /\ failures' = IF failures <= Threshold THEN failures + 1 ELSE failures
    /\ Goto(w, IF failures' < Threshold THEN "idle" ELSE "f_open")
    /\ UNCHANGED <<state, opened_at, probe, window, faults>>

(* INCR.  The count it returns decides: 1 sets the window, and one that    *)
(* reaches Threshold opens.                                                *)
Increment(w) ==
    /\ pc[w] = "f_incr"
    /\ failures' = IF failures <= Threshold THEN failures + 1 ELSE failures
    /\ Goto(w, IF failures' = 1 THEN "f_expire"
               ELSE IF failures' >= Threshold THEN "f_open" ELSE "idle")
    /\ UNCHANGED <<state, opened_at, probe, window, faults>>

(* EXPIRE does nothing when the key has been deleted meanwhile.  The count *)
(* was 1, which reaches a Threshold of 1.                                  *)
Expire(w) ==
    /\ pc[w] = "f_expire"
    /\ window' = IF failures > 0 THEN WindowSeconds ELSE window
    /\ Goto(w, IF Threshold = 1 THEN "f_open" ELSE "idle")
    /\ UNCHANGED <<state, opened_at, probe, failures, faults>>

-----------------------------------------------------------------------------
(* Faults                                                                  *)

(* A command raises RedisError.  allow_outbound fails open; in             *)
(* record_failure an unreadable state counts as closed; everywhere else    *)
(* the rest of the function is skipped.                                    *)
RedisFails(w) ==
    /\ pc[w] \notin {"idle", "send"}
    /\ faults < MaxFaults
    /\ faults' = faults + 1
    /\ Goto(w, CASE pc[w] \in AllowStages            -> "send"
                 [] pc[w] \in {"f_state", "f_opened"} -> "f_incr"
                 [] OTHER                            -> "idle")
    /\ UNCHANGED keys

(* The worker process ends. *)
Crash(w) ==
    /\ pc[w] # "idle"
    /\ faults < MaxFaults
    /\ faults' = faults + 1
    /\ Goto(w, "idle")
    /\ UNCHANGED keys

-----------------------------------------------------------------------------
WorkerStep(w) ==
    \/ Begin(w)
    \/ AllowReadState(w)
    \/ AllowReadOpenedAt(w)
    \/ AllowReadStored(w)
    \/ SetHalfOpen(w)
    \/ AcquireProbe(w)
    \/ \E next \in {"s_delete", "f_state", "idle"} : Answer(w, next)
    \/ DeleteKeys(w)
    \/ SetClosed(w)
    \/ FailureReadState(w)
    \/ FailureReadOpenedAt(w)
    \/ SetOpen(w)
    \/ SetOpenedAt(w)
    \/ DeleteProbe(w)
    \/ Increment(w)
    \/ Expire(w)

Next ==
    \/ Tick
    \/ \E w \in Workers : WorkerStep(w)
    \/ \E w \in Workers : RedisFails(w)
    \/ \E w \in Workers : Crash(w)

Spec == Init /\ [][Next]_vars

(* Time passes, and as long as the partner has deliveries the workers keep *)
(* asking: a refused delivery comes back through a retry topic.            *)
FairSpec ==
    /\ Spec
    /\ WF_vars(Tick)
    /\ \A w \in Workers : WF_vars(WorkerStep(w))

-----------------------------------------------------------------------------
(* Properties                                                              *)

(* An open circuit knows when it opened, or a worker is about to say so or *)
(* to close it: interleaved successes and failures never leave it open     *)
(* without a way out.  Only a fault between two commands can.              *)
OpenHasTimer ==
    faults = 0 /\ state = "open" /\ opened_at = None =>
        \E w \in Workers : pc[w] \in {"f_stamp", "f_restamp", "s_close"}

(* The failure count has a TTL or is about to get one, so that failures    *)
(* older than the window are forgotten, whoever deletes the key meanwhile. *)
WindowHasEnd ==
    faults = 0 /\ failures > 0 /\ window = None =>
        \E w \in Workers : pc[w] = "f_expire"

Paused == state \in {"open", "half_open"}

(* ADR-005: an open circuit pauses for open_duration, then a probe is sent.*)
PauseEnds ==
    Paused ~> ~Paused \/ \E w \in Workers : pc[w] = "send"

(* A circuit that is open without a timer and with nobody to set it. *)
TimerLost ==
    /\ state = "open" /\ opened_at = None
    /\ \A w \in Workers : pc[w] \notin {"f_stamp", "f_restamp", "s_close"}

(* That is the only way a pause goes on: a probe whose worker dies, or     *)
(* gets a poison answer and records nothing, does not keep the probe key,  *)
(* which has no owner, and no other fault stops the workers from asking.   *)
PauseEndsWithTimer ==
    Paused ~> ~Paused \/ (\E w \in Workers : pc[w] = "send") \/ TimerLost
=============================================================================
