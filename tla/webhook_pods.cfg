CONSTANTS
  d1 = d1
  d2 = d2
  p1 = p1
  p2 = p2
  Rows <- OneRow
  Pods <- TwoPods
  MAX_ATTEMPTS = 3
  Take = 1
  MaxReplays = 2
  MaxCrashes = 1
  MaxDbErrors = 2
SPECIFICATION Spec
SYMMETRY RowSymmetry
INVARIANTS TypeOK SuccessMeansAcked RetryBudget AttemptsAccounted
CHECK_DEADLOCK FALSE
