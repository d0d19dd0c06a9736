SPECIFICATION FairSpec
CONSTANTS
  poller = poller
  handler = handler
  all = all
  outbound = outbound
  e1 = e1
  e2 = e2
  e3 = e3
  Publishers = {poller, handler}
  Streams = {all, outbound}
  Events = {e1, e2, e3}
  Program <- MCProgram
  Wants <- MCWants
  Sockets = {all}
  Workers = 1
  Capacity = 1
CHECK_DEADLOCK FALSE
INVARIANTS
  TypeOK
  Accounted
  PublisherOrder
PROPERTIES
  RefusedForARival
  QueuesDrain
