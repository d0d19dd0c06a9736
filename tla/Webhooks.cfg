SPECIFICATION FairSpec
CONSTANTS
  everything = everything
  inboundOnly = inboundOnly
  e1 = e1
  e2 = e2
  e3 = e3
  Hooks = {everything, inboundOnly}
  Events = {e1, e2, e3}
  Wants <- MCWants
  Capacity = 2
  MaxFaults = 2
CHECK_DEADLOCK FALSE
INVARIANTS
  TypeOK
  InOrderOnce
  OneLatePost
PROPERTIES
  FailureIsolated
  ResultsTrue
  QueueMoves
