SPECIFICATION FairSpec
CONSTANTS
  EventBound = 2
  Worker = {w1, w2}
  None = None
  Gone = Gone
  MaxAttempts = 2
  Batch = 1
  Faults = 1
  Requeues = 2
  Stalls = 1
CHECK_DEADLOCK FALSE
INVARIANTS
  ExclusiveDelivery
  FailedMeansExhausted
PROPERTIES
  NoSendAfterDelivered
  EventuallySettled
