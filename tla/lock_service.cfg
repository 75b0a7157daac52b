CONSTANTS
  c1 = c1
  c2 = c2
  c3 = c3
  c4 = c4
  pod1 = pod1
  pod2 = pod2
  k1 = k1
  Calls = {c1, c2, c3, c4}
  Procs = {pod1, pod2}
  Proc <- CallProc
  Keys = {k1}
  Key <- CallKey
  NoCall = NoCall
SPECIFICATION FairSpec
INVARIANTS TypeOK LocalExclusive LossExplainsOverlap EvictedWhenIdle
PROPERTIES CallsSettle ImplementsFifoLock
CHECK_DEADLOCK FALSE
