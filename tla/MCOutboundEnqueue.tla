------------------------- MODULE MCOutboundEnqueue -------------------------
(* Model values for checking OutboundEnqueue. *)
EXTENDS OutboundEnqueue

CONSTANTS q1, q2, k1, p1, p2, e1, e2

TwoRequests  == {q1, q2}
OneKey       == {k1}
TwoProcs     == {p1, p2}
TwoEndpoints == {e1, e2}

(* The first call is served by p1, the second by p1 or p2: the other       *)
(* placements are these with the names of the processes exchanged.         *)
Routes == [q \in TwoRequests |-> IF q = q1 THEN {p1} ELSE TwoProcs]

(* Both calls repeat one event. *)
KeyOf == [q \in TwoRequests |-> k1]

(* No schema; an active partner with its endpoints, or no partner and none. *)
Start == {[partner |-> s[1], schema |-> "absent", endpoints |-> s[2]] :
             s \in {<<"active", TwoEndpoints>>, <<"missing", {}>>}}
=============================================================================
