SPECIFICATION Spec
CONSTANTS
  j1 = j1  j2 = j2  c1 = c1  b1 = b1  g1 = g1
  p1 = p1  p2 = p2  s1 = s1  s2 = s2  s3 = s3
  Jobs = {j1, j2}
  Requests = {c1, b1}
  Keyed = {c1}
  Valid = {c1, b1}
  Groups = {g1}
  GroupOf <- OneGroup
  Workload <- MixedBatch
  Batch = {j1}
  Procs = {p1, p2}
  Slots = {s1, s3}
  ProcOf <- SlotProcs
  MaxAttempts = 2
  MaxStalled = 0
  MaxAdminRetries = 0
  NoJob = NoJob  NoReq = NoReq  NoSlot = NoSlot
INVARIANTS CompletedIsAccounted OnePaymentPerAttempt
CHECK_DEADLOCK FALSE
