------------------------- MODULE MCOutboundDelivery -------------------------
(* Model values and symmetry for checking OutboundDelivery. *)
EXTENDS OutboundDelivery, TLC

CONSTANTS d1, d2, w1, w2, r1, r2, retry

OneDelivery  == {d1}
TwoDeliveries == {d1, d2}
OneWorker    == {w1}
TwoWorkers   == {w1, w2}
OneReplayer  == {r1}
TwoReplayers == {r1, r2}
OneRetryTopic == {retry}

Symmetric == Permutations(Workers) \cup Permutations(Replayers)
=============================================================================
