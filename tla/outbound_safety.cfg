SPECIFICATION Spec
CONSTANTS
  d1 = d1
  d2 = d2
  w1 = w1
  w2 = w2
  r1 = r1
  r2 = r2
  retry = retry
  None = None
  Deliveries <- OneDelivery
  Workers <- TwoWorkers
  Replayers <- OneReplayer
  RetryTopics <- OneRetryTopic
  MaxAttempts = 2
  MaxCrashes = 1
  MaxReplays = 1
  MaxRebalances = 1
SYMMETRY Symmetric
INVARIANTS TypeOK AcksOwnMessage OneSenderPerDelivery SettledIsRecorded AttemptBudget EventsFollowCommits NoLostDelivery
PROPERTIES LedgerSpec 
CHECK_DEADLOCK FALSE
