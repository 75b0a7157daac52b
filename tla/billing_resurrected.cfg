CONSTANTS
  c1 = c1
  c2 = c2
  c3 = c3
  c4 = c4
  analyze = analyze
  publish = publish
  topup = topup
  r1 = r1
  e1 = e1
  e2 = e2
  h1 = h1
  h2 = h2
  Calls = {}
  Kind <- Kind0
  Action <- Action0
  Actions = {analyze, publish, topup}
  Topup = topup
  Cost <- Cost0
  Ref <- Ref0
  Refs = {r1}
  Plans = {"free", "pro"}
  Free = "free"
  Credits <- PlanCredits
  Events = {e1, e2}
  Handlers = {h1, h2}
  NoRef = NoRef
  NoTx = NoTx
  NoSub = NoSub
  NoEvent = NoEvent
SPECIFICATION Spec
SYMMETRY EventSymmetry
INVARIANTS NoResurrection
CHECK_DEADLOCK FALSE
