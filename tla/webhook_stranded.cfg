CONSTANTS
  d1 = d1
  d2 = d2
  p1 = p1
  p2 = p2
  Rows <- OneRow
  Pods <- OnePod
  MAX_ATTEMPTS = 2
  Take = 1
  MaxReplays = 0
  MaxCrashes = 1
  MaxDbErrors = 0
SPECIFICATION PatientSpec
PROPERTIES DeliverySettles
CHECK_DEADLOCK FALSE
