---------------------------- MODULE AttemptLedger ----------------------------
(***************************************************************************)
(* What the delivery history promises, whoever writes it: the attempts of  *)
(* a delivery are numbered 1, 2, 3, ..., are only ever added, and a        *)
(* definitive answer (success or poison) is the last one; first_success_at *)
(* is written once, by the one successful attempt.                         *)
(* OutboundDelivery implements this with unlocked reads and two UNIQUE     *)
(* constraints.                                                            *)
(***************************************************************************)
EXTENDS Naturals

CONSTANT Deliveries

VARIABLES ledger,  \* ledger[d]: the attempts recorded for d
          first    \* first[d]: the attempt first_success_at belongs to, or 0

vars == <<ledger, first>>

Init ==
    /\ ledger = [d \in Deliveries |-> {}]
    /\ first = [d \in Deliveries |-> 0]

(* The only number the next attempt of d can have. *)
Follows(n, d) ==
    /\ n \in {1} \cup {a.number + 1 : a \in ledger[d]}
    /\ \A a \in ledger[d] : a.number < n

Open(d) == \A a \in ledger[d] : a.outcome = "retryable"

Record(d, n, answer) ==
    /\ Open(d)
    /\ Follows(n, d)
    /\ ledger' = [ledger EXCEPT ![d] = @ \cup {[number |-> n, outcome |-> answer]}]
    /\ first' = [first EXCEPT ![d] = IF answer = "success" THEN n ELSE @]

Next ==
    \E d \in Deliveries, answer \in {"success", "poison", "retryable"} :
        \E n \in {1} \cup {a.number + 1 : a \in ledger[d]} : Record(d, n, answer)

Spec == Init /\ [][Next]_vars
=============================================================================
