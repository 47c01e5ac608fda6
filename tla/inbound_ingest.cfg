SPECIFICATION FairSpec
CONSTANTS
  q1 = q1
  q2 = q2
  q3 = q3
  k1 = k1
  k2 = k2
  x1 = x1
  x2 = x2
  None = None
  Requests <- ThreeRequests
  Keys <- TwoKeys
  Key <- KeyOf
  Relays <- TwoRelays
  BatchSize = 1
  MaxSendFailures = 1
  MaxCrashes = 1
INVARIANTS TypeOK AnswersAgree AcceptedOnce NothingLost PublishedMeansSent
PROPERTIES IngestSpec EveryEventPublished
