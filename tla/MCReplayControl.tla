-------------------------- MODULE MCReplayControl --------------------------
(* Model values for checking ReplayControl. *)
EXTENDS ReplayControl

CONSTANTS d1, d2, p1, p2, a1, s1, s2

TwoDeliveries == {d1, d2}
TwoPartners   == {p1, p2}
OneApproval   == {a1}
TwoRequests   == {s1, s2}

(* d1 failed before d2. *)
FirstFailed   == [d \in TwoDeliveries |-> IF d = d1 THEN -1 ELSE 0]

(* One of the two requests may be a bulk replay, in the other order. *)
BulkOf    == [s \in TwoRequests |-> IF s = s2 THEN {<<d2, d1>>} ELSE {}]
PartnerOf == [d \in TwoDeliveries |-> IF d = d1 THEN p1 ELSE p2]
=============================================================================
