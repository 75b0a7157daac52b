SPECIFICATION Spec
CONSTANTS
  pod = pod
  other = other
  job = job
  k1 = k1
  Processes = {pod, other}
  Pods = {pod}
  Jobs = {job}
  Conns = {1, 2}
  Cancels = {k1}
  Site <- MCSite
  Target <- MCTarget
  NoConn = NoConn
  BufferSize = 2
  MaxQueue = 2
  MaxStreams = 1
  Segments = 1
  MaxFaults = 1
INVARIANTS
  TypeOK
  NoRepeat
  CapKept
  CancelHonoured
CHECK_DEADLOCK FALSE
PROPERTIES
  NothingSkipped
  JobSettles
