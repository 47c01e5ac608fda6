--------------------------- MODULE MCPartnerGate ---------------------------
(* Model values for checking PartnerGate. *)
EXTENDS PartnerGate, TLC

CONSTANTS q1, q2, w1, w2, kw

OneCall      == {q1}
TwoCalls     == {q1, q2}
TwoRotations == {w1, w2}
OneKey       == {kw}

(* The key may write and expires at the last tick. *)
WritesOf  == [k \in OneKey |-> TRUE]
ExpiresOf == [k \in OneKey |-> MaxClock]

(* Calls are alike, and so are rotations; no property is about liveness. *)
Alike == Permutations(TwoCalls) \cup Permutations(TwoRotations)
=============================================================================
