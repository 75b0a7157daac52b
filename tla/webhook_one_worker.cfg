CONSTANTS
  d1 = d1
  d2 = d2
  p1 = p1
  p2 = p2
  Rows <- TwoRows
  Pods <- OnePod
  MAX_ATTEMPTS = 2
  Take = 2
  MaxReplays = 1
  MaxCrashes = 1
  MaxDbErrors = 1
SPECIFICATION FairSpec
INVARIANTS OverlapNeedsRejection
PROPERTIES SuccessIsFinal ImplementsDelivery ScheduledRetryEnds
CHECK_DEADLOCK FALSE
