CONSTANTS
  c1 = c1
  c2 = c2
  c3 = c3
  c4 = c4
  analyze = analyze
  publish = publish
  topup = topup
  r1 = r1
  e1 = e1
  e2 = e2
  h1 = h1
  h2 = h2
  Calls = {c1, c2, c3, c4}
  Kind <- Kind4
  Action <- Action4
  Actions = {analyze, publish, topup}
  Topup = topup
  Cost <- Cost4
  Ref <- Ref4
  Refs = {r1}
  Plans = {"free", "pro"}
  Free = "free"
  Credits <- PlanCredits
  Events = {e1, e2}
  Handlers = {h1, h2}
  NoRef = NoRef
  NoTx = NoTx
  NoSub = NoSub
  NoEvent = NoEvent
SPECIFICATION Spec
SYMMETRY EventSymmetry
INVARIANTS TypeOK NoOverdraft AllowanceKept ChargedOnce AppliedOnce
PROPERTY ImplementsLedger
CHECK_DEADLOCK FALSE
