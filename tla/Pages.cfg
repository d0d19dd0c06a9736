SPECIFICATION Spec
CONSTANTS
  poller = poller
  handler = handler
  Chats <- MCChats
  Messages <- MCMessages
  Filters <- MCFilters
  Shown = 1
  Writers = {poller, handler}
  Limits = {1, 2}
  MaxTime = 2
  MaxWrites = 2
SYMMETRY WriterSymmetry
INVARIANTS
  TypeOK
  NoneMissed
  RepeatsBounded
