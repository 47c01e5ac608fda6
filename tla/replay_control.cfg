SPECIFICATION FairSpec
CONSTANTS
  d1 = d1
  d2 = d2
  p1 = p1
  p2 = p2
  a1 = a1
  s1 = s1
  s2 = s2
  None = None
  Beat = beat
  Deliveries <- TwoDeliveries
  Partners <- TwoPartners
  Partner <- PartnerOf
  AutoReplay <- TwoPartners
  Approvals <- OneApproval
  Requests <- TwoRequests
  BatchLimit = 1
  Bulk <- BulkOf
  FailedAt <- FirstFailed
INVARIANTS TypeOK ReplayedOnce ApprovedWasReplayed OneVerdict
PROPERTIES BacklogReplayed
