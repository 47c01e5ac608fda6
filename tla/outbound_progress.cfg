SPECIFICATION FairSpec
CONSTANTS
  d1 = d1
  d2 = d2
  w1 = w1
  w2 = w2
  r1 = r1
  r2 = r2
  retry = retry
  None = None
  Deliveries <- OneDelivery
  Workers <- OneWorker
  Replayers <- TwoReplayers
  RetryTopics <- OneRetryTopic
  MaxAttempts = 2
  MaxCrashes = 1
  MaxReplays = 2
  MaxRebalances = 0
PROPERTIES EverySettles LedgerSpec
CHECK_DEADLOCK FALSE
