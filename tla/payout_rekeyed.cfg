SPECIFICATION Spec
CONSTANTS
  j1 = j1  j2 = j2  c1 = c1  b1 = b1  g1 = g1
  p1 = p1  p2 = p2  s1 = s1  s2 = s2  s3 = s3
  Jobs = {j1, j2}
  Requests = {c1}
  Keyed = {c1}
  Valid = {c1}
  Groups = {g1}
  GroupOf <- OneGroup
  Workload <- SmallBatch
  Batch = {j1}
  Procs = {p1}
  Slots = {s1}
  ProcOf <- SlotProcs
  MaxAttempts = 2
  MaxStalled = 0
  MaxAdminRetries = 0
  NoJob = NoJob  NoReq = NoReq  NoSlot = NoSlot
INVARIANTS PaidUnderOneKey
CHECK_DEADLOCK FALSE
