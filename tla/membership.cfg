SPECIFICATION Spec
CONSTANTS
  ana = ana
  bo = bo
  Users <- MCUsers
  Keys <- MCKeys
  Ops <- MCOps
  Starts <- MCStarts
  Processes = {p1}
  Requests = {r1, r2}
  NoView = NoView
  MaxCopies = 2
INVARIANTS
  TypeOK
  OwnerKept
  StaleExplained
PROPERTIES
  OwnershipByOwners
  EventuallyFresh
CHECK_DEADLOCK FALSE
