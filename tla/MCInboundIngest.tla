-------------------------- MODULE MCInboundIngest --------------------------
(* Model values for checking InboundIngest. *)
EXTENDS InboundIngest

CONSTANTS q1, q2, q3, k1, k2, x1, x2

ThreeRequests == {q1, q2, q3}
TwoKeys       == {k1, k2}
TwoRelays     == {x1, x2}

(* Two calls repeat one event, the third is another event. *)
KeyOf == [q \in ThreeRequests |-> IF q = q3 THEN k2 ELSE k1]
=============================================================================
