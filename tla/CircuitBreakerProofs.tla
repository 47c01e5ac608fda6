------------------------ MODULE CircuitBreakerProofs ------------------------
(***************************************************************************)
(* Proofs about CircuitBreaker, for any number of workers and any          *)
(* threshold, window and pause.  The two invariants are inductive with     *)
(* the types: whoever leaves a key unfinished stands at the command that   *)
(* finishes it, and no other worker's command undoes that.                 *)
(***************************************************************************)
EXTENDS CircuitBreaker, TLAPS

(* Types are kept.                                                         *)
LEMMA TypeStep == TypeOK /\ [Next]_vars => TypeOK'
<1> SUFFICES ASSUME TypeOK, [Next]_vars
             PROVE  TypeOK'
    OBVIOUS
<1> USE CircuitAssumption DEF TypeOK, States, Stages, AllowStages, FailureStages, SuccessStages, keys
<1>1. CASE Tick
    <2>1. opened_at' \in 0 .. OpenSeconds \cup {None}
        BY <1>1 DEF Tick
    <2>2. probe' \in 0 .. OpenSeconds
        BY <1>1 DEF Tick
    <2>3. failures' \in 0 .. Threshold + 1 /\ window' \in 1 .. WindowSeconds \cup {None}
        BY <1>1 DEF Tick
    <2>. QED
        BY <1>1, <2>1, <2>2, <2>3 DEF Tick
<1>2. ASSUME NEW w \in Workers, Begin(w)
      PROVE  TypeOK'
    BY <1>2 DEF Begin, Goto
<1>3. ASSUME NEW w \in Workers, AllowReadState(w) \/ AllowReadStored(w) \/ FailureReadState(w)
      PROVE  TypeOK'
    BY <1>3 DEF AllowReadState, AllowReadStored, FailureReadState, ReadState, Goto
<1>4. ASSUME NEW w \in Workers, AllowReadOpenedAt(w) \/ FailureReadOpenedAt(w)
      PROVE  TypeOK'
    BY <1>4 DEF AllowReadOpenedAt, FailureReadOpenedAt, ReadOpenedAt, Goto
<1>5. ASSUME NEW w \in Workers, SetHalfOpen(w)
      PROVE  TypeOK'
    BY <1>5 DEF SetHalfOpen, Goto
<1>6. ASSUME NEW w \in Workers, AcquireProbe(w)
      PROVE  TypeOK'
    BY <1>6 DEF AcquireProbe, Goto
<1>7. ASSUME NEW w \in Workers, NEW next \in {"s_delete", "f_state", "idle"}, Answer(w, next)
      PROVE  TypeOK'
    BY <1>7 DEF Answer, Goto
<1>8. ASSUME NEW w \in Workers, DeleteKeys(w) \/ SetClosed(w)
      PROVE  TypeOK'
    BY <1>8 DEF DeleteKeys, SetClosed, Goto
<1>9. ASSUME NEW w \in Workers, SetOpen(w) \/ SetOpenedAt(w) \/ DeleteProbe(w)
      PROVE  TypeOK'
    BY <1>9 DEF SetOpen, SetOpenedAt, DeleteProbe, Goto
<1>10. ASSUME NEW w \in Workers, Increment(w)
      PROVE  TypeOK'
    <2>1. failures' \in 0 .. Threshold + 1
        BY <1>10 DEF Increment
    <2>2. pc' \in [Workers -> Stages]
        BY <1>10 DEF Increment, Goto
    <2>. QED
        BY <1>10, <2>1, <2>2 DEF Increment
<1>11. ASSUME NEW w \in Workers, Expire(w)
      PROVE  TypeOK'
    BY <1>11 DEF Expire, Goto
<1>12. ASSUME NEW w \in Workers, RedisFails(w) \/ Crash(w)
      PROVE  TypeOK'
    BY <1>12 DEF RedisFails, Crash, Goto
<1>13. CASE UNCHANGED vars
    BY <1>13 DEF vars
<1> HIDE DEF TypeOK
<1>. QED
    BY <1>1, <1>2, <1>3, <1>4, <1>5, <1>6, <1>7, <1>8, <1>9, <1>10, <1>11, <1>12, <1>13
    DEF Next, WorkerStep

-----------------------------------------------------------------------------
(* The steps that neither finish nor start a group of commands.            *)
Reads(w) ==
    \/ Begin(w) \/ AllowReadState(w) \/ AllowReadOpenedAt(w) \/ AllowReadStored(w)
    \/ FailureReadState(w) \/ FailureReadOpenedAt(w)
    \/ \E next \in {"s_delete", "f_state", "idle"} : Answer(w, next)

(* A read changes no key, and its worker was not finishing anything.       *)
LEMMA ReadFacts ==
    ASSUME TypeOK, NEW w \in Workers, Reads(w)
    PROVE  /\ UNCHANGED <<keys, faults>>
           /\ pc[w] \notin {"f_stamp", "f_restamp", "s_close", "f_expire"}
           /\ \A v \in Workers \ {w} : pc'[v] = pc[v]
BY DEF TypeOK, Reads, Begin, AllowReadState, AllowReadOpenedAt, AllowReadStored, FailureReadState,
   FailureReadOpenedAt, Answer, ReadState, ReadOpenedAt, Goto

(* Every step is one of the two fault steps, a tick, a read or a write.    *)
LEMMA StepKinds ==
    ASSUME [Next]_vars
    PROVE  \/ Tick \/ UNCHANGED vars
           \/ \E w \in Workers : RedisFails(w) \/ Crash(w)
           \/ \E w \in Workers : Reads(w)
           \/ \E w \in Workers : SetHalfOpen(w) \/ AcquireProbe(w) \/ DeleteProbe(w)
           \/ \E w \in Workers : DeleteKeys(w) \/ SetClosed(w)
           \/ \E w \in Workers : SetOpen(w) \/ SetOpenedAt(w)
           \/ \E w \in Workers : Increment(w) \/ Expire(w)
BY DEF Next, WorkerStep, Reads

(* An open circuit keeps its timer or the worker that will set it.         *)
LEMMA TimerStep == TypeOK /\ OpenHasTimer /\ [Next]_vars => OpenHasTimer'
<1> SUFFICES ASSUME TypeOK, OpenHasTimer, [Next]_vars,
                    faults' = 0, state' = "open", opened_at' = None
             PROVE  \E w \in Workers : pc'[w] \in {"f_stamp", "f_restamp", "s_close"}
    BY DEF OpenHasTimer
<1> DEFINE Closing(v) == pc[v] \in {"f_stamp", "f_restamp", "s_close"}
<1>1. CASE Tick
    BY <1>1, CircuitAssumption DEF Tick, OpenHasTimer, TypeOK
<1>2. ASSUME NEW w \in Workers, RedisFails(w) \/ Crash(w)
      PROVE  FALSE
    BY <1>2, CircuitAssumption DEF RedisFails, Crash, TypeOK
<1>3. ASSUME NEW w \in Workers, ~Closing(w), \A v \in Workers \ {w} : pc'[v] = pc[v],
             UNCHANGED <<state, opened_at, faults>>
      PROVE  \E v \in Workers : Closing(v)'
    BY <1>3 DEF OpenHasTimer
<1>4. ASSUME NEW w \in Workers, Reads(w)
      PROVE  \E v \in Workers : Closing(v)'
    BY <1>3, <1>4, ReadFacts DEF keys
<1>5. ASSUME NEW w \in Workers, AcquireProbe(w) \/ DeleteProbe(w) \/ Increment(w) \/ Expire(w)
      PROVE  \E v \in Workers : Closing(v)'
    BY <1>3, <1>5 DEF AcquireProbe, DeleteProbe, Increment, Expire, Goto, TypeOK
<1>6. ASSUME NEW w \in Workers, DeleteKeys(w) \/ SetOpen(w)
      PROVE  Closing(w)'
    BY <1>6 DEF DeleteKeys, SetOpen, Goto, TypeOK
<1>7. ASSUME NEW w \in Workers, SetHalfOpen(w) \/ SetClosed(w) \/ SetOpenedAt(w)
      PROVE  FALSE
    BY <1>7, CircuitAssumption DEF SetHalfOpen, SetClosed, SetOpenedAt
<1>8. CASE UNCHANGED vars
    BY <1>8 DEF vars, keys, OpenHasTimer
<1>. QED
    BY <1>1, <1>2, <1>4, <1>5, <1>6, <1>7, <1>8, StepKinds

(* The failure count keeps its TTL or the worker that will set it.         *)
LEMMA WindowStep == TypeOK /\ WindowHasEnd /\ [Next]_vars => WindowHasEnd'
<1> SUFFICES ASSUME TypeOK, WindowHasEnd, [Next]_vars,
                    faults' = 0, failures' > 0, window' = None
             PROVE  \E w \in Workers : pc'[w] = "f_expire"
    BY DEF WindowHasEnd
<1>1. CASE Tick
    BY <1>1, CircuitAssumption DEF Tick, WindowHasEnd, TypeOK
<1>2. ASSUME NEW w \in Workers, RedisFails(w) \/ Crash(w)
      PROVE  FALSE
    BY <1>2, CircuitAssumption DEF RedisFails, Crash, TypeOK
<1>3. ASSUME NEW w \in Workers, pc[w] # "f_expire", \A v \in Workers \ {w} : pc'[v] = pc[v],
             UNCHANGED <<failures, window, faults>>
      PROVE  \E v \in Workers : pc'[v] = "f_expire"
    BY <1>3 DEF WindowHasEnd
<1>4. ASSUME NEW w \in Workers, Reads(w)
      PROVE  \E v \in Workers : pc'[v] = "f_expire"
    BY <1>3, <1>4, ReadFacts DEF keys
<1>5. ASSUME NEW w \in Workers,
             SetHalfOpen(w) \/ AcquireProbe(w) \/ DeleteProbe(w) \/ SetClosed(w)
                 \/ SetOpen(w) \/ SetOpenedAt(w)
      PROVE  \E v \in Workers : pc'[v] = "f_expire"
    BY <1>3, <1>5 DEF SetHalfOpen, AcquireProbe, DeleteProbe, SetClosed, SetOpen, SetOpenedAt, Goto, TypeOK
<1>6. ASSUME NEW w \in Workers, DeleteKeys(w)
      PROVE  FALSE
    BY <1>6 DEF DeleteKeys
<1>7. ASSUME NEW w \in Workers, Increment(w)
      PROVE  \E v \in Workers : pc'[v] = "f_expire"
    <2>1. failures \in Nat /\ window = None /\ faults = 0 /\ pc[w] = "f_incr"
        BY <1>7 DEF Increment, TypeOK
    <2>2. CASE failures = 0
        <3>1. failures' = IF failures <= Threshold THEN failures + 1 ELSE failures
            BY <1>7 DEF Increment
        <3>2. failures' = 1
            BY <2>2, <3>1, CircuitAssumption
        <3>3. pc' = [pc EXCEPT ![w] = "f_expire"]
            BY <1>7, <3>2 DEF Increment, Goto
        <3>. QED
            BY <3>3 DEF TypeOK
    <2>3. CASE failures > 0
        <3>1. PICK v \in Workers : pc[v] = "f_expire"
            BY <2>1, <2>3 DEF WindowHasEnd
        <3>2. pc'[v] = pc[v]
            BY <1>7, <2>1, <3>1 DEF Increment, Goto, TypeOK
        <3>. QED
            BY <3>1, <3>2
    <2>. QED
        BY <2>1, <2>2, <2>3
<1>8. ASSUME NEW w \in Workers, Expire(w)
      PROVE  FALSE
    BY <1>8, CircuitAssumption DEF Expire, TypeOK
<1>9. CASE UNCHANGED vars
    BY <1>9 DEF vars, keys, WindowHasEnd
<1>. QED
    BY <1>1, <1>2, <1>4, <1>5, <1>6, <1>7, <1>8, <1>9, StepKinds

-----------------------------------------------------------------------------
(* The keys start empty and every worker idle.                             *)
LEMMA CircuitInit == Init => TypeOK /\ OpenHasTimer /\ WindowHasEnd
<1> SUFFICES ASSUME Init
             PROVE  TypeOK /\ OpenHasTimer /\ WindowHasEnd
    OBVIOUS
<1>1. TypeOK
    BY CircuitAssumption DEF Init, TypeOK, Stages
<1>2. OpenHasTimer
    BY CircuitAssumption DEF Init, OpenHasTimer
<1>3. WindowHasEnd
    BY DEF Init, WindowHasEnd
<1>. QED
    BY <1>1, <1>2, <1>3

(* The keys of a circuit and the workers' stages keep their types; the     *)
(* timers never run past their ends.                                       *)
THEOREM TypesKept == Spec => []TypeOK
BY CircuitInit, TypeStep, PTL DEF Spec

(* Without faults no interleaving of successes and failures leaves the     *)
(* circuit open without a timer.                                           *)
THEOREM TimerKept == Spec => []OpenHasTimer
BY CircuitInit, TypeStep, TimerStep, PTL DEF Spec

(* Without faults no interleaving leaves a failure count that never        *)
(* expires.                                                                *)
THEOREM WindowKept == Spec => []WindowHasEnd
BY CircuitInit, TypeStep, WindowStep, PTL DEF Spec
=============================================================================
