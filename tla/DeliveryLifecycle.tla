-------------------------- MODULE DeliveryLifecycle --------------------------
(***************************************************************************)
(* The lifecycle of a delivery as app/domain/services/status_machine.py    *)
(* states it, read on committed rows.  DELIVERING lives only inside a      *)
(* worker's transaction, so a committed step is either one edge of the     *)
(* table or two edges through DELIVERING.                                  *)
(***************************************************************************)
CONSTANT Deliveries

VARIABLE status

(* _VALID_TRANSITIONS *)
ValidTransitions ==
    { <<"pending", "delivering">>,
      <<"delivering", "delivered">>, <<"delivering", "retrying">>,
      <<"delivering", "failed">>,
      <<"retrying", "delivering">>,
      <<"failed", "replaying">>,
      <<"replaying", "delivering">>, <<"replaying", "delivered">>,
      <<"replaying", "failed">> }

CommittedStep(from, to) ==
    \/ <<from, to>> \in ValidTransitions /\ to # "delivering"
    \/ <<from, "delivering">> \in ValidTransitions /\ <<"delivering", to>> \in ValidTransitions

Init == status = [d \in Deliveries |-> "absent"]

Accept(d) ==
    /\ status[d] = "absent"
    /\ status' = [status EXCEPT ![d] = "pending"]

Move(d, to) ==
    /\ CommittedStep(status[d], to)
    /\ status' = [status EXCEPT ![d] = to]

Next ==
    \E d \in Deliveries :
        \/ Accept(d)
        \/ \E to \in {"delivered", "retrying", "failed", "replaying"} : Move(d, to)

Spec == Init /\ [][Next]_status
=============================================================================
