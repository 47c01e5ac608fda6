SPECIFICATION FairSpec
CONSTANTS
  d1 = d1
  d2 = d2
  w1 = w1
  w2 = w2
  r1 = r1
  r2 = r2
  retry = retry
  None = None
  Deliveries <- TwoDeliveries
  Workers <- OneWorker
  Replayers <- OneReplayer
  RetryTopics <- OneRetryTopic
  MaxAttempts = 2
  MaxCrashes = 0
  MaxReplays = 1
  MaxRebalances = 0
PROPERTIES PartitionNotBlocked
CHECK_DEADLOCK FALSE
