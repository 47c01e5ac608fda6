SPECIFICATION Spec
CONSTANTS
  q1 = q1
  q2 = q2
  w1 = w1
  w2 = w2
  kw = kw
  First = First
  None = None
  Requests <- TwoCalls
  Rotations <- TwoRotations
  ApiKeys <- OneKey
  Writes <- WritesOf
  Expires <- ExpiresOf
  PerSecond = 2
  RPS = 1
  Tolerance = 1
  Overlap = 2
  MaxClock = 3
  MaxFaults = 1
SYMMETRY Alike
INVARIANTS TypeOK AdmittedWasEntitled RotationKeepsService Budget
PROPERTIES RefusalJustified
