-------------------------- MODULE IdempotentIngest --------------------------
(***************************************************************************)
(* What the inbound API promises a partner that may send the same event    *)
(* several times: an Idempotency-Key names at most one event, whoever is   *)
(* told an event id for the key is told that event's id, and only recorded *)
(* events reach Kafka.                                                     *)
(***************************************************************************)
CONSTANTS Requests, None,
          Key     \* Key[r]: the Idempotency-Key of request r

VARIABLES log,    \* the events recorded, [id, key]; an id is the request's
          told,   \* told[r]: the event id r was answered with, or None
          topic   \* ids of the events sent to Kafka

ivars == <<log, told, topic>>

Init ==
    /\ log = {}
    /\ told = [r \in Requests |-> None]
    /\ topic = {}

(* The first request of a key to get through records the event. *)
Record(r) ==
    /\ \A e \in log : e.key # Key[r]
    /\ log' = log \cup {[id |-> r, key |-> Key[r]]}
    /\ UNCHANGED <<told, topic>>

(* A caller learns an id once, and only the recorded one. *)
Tell(r) ==
    /\ told[r] = None
    /\ \E e \in log : e.key = Key[r] /\ told' = [told EXCEPT ![r] = e.id]
    /\ UNCHANGED <<log, topic>>

Publish ==
    /\ \E e \in log : topic' = topic \cup {e.id}
    /\ UNCHANGED <<log, told>>

Next == (\E r \in Requests : Record(r) \/ Tell(r)) \/ Publish

Spec == Init /\ [][Next]_ivars
=============================================================================
