SPECIFICATION FairSpec
CONSTANTS
  q1 = q1
  q2 = q2
  k1 = k1
  p1 = p1
  p2 = p2
  e1 = e1
  e2 = e2
  None = None
  Requests <- TwoRequests
  Keys <- OneKey
  Key <- KeyOf
  Procs <- TwoProcs
  Endpoints <- TwoEndpoints
  TTL = 1
  Serves <- Routes
  InitialRows <- Start
  Latency = 1
  MaxChanges = 1
INVARIANTS TypeOK OneDeliveryPerEndpoint AnswersHonest BoundedStaleness LocalInvalidation


PROPERTIES EveryCallEnds
