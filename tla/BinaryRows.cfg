SPECIFICATION Spec
CONSTANTS
  mms = mms
  stray = stray
  text = text
  binary = binary
  garbled = garbled
  malformed = malformed
  c1 = c1
  c2 = c2
  Handlers = {h1}
  IdemKeys = {}
  NoKey = NoKey
  NoRow = NoRow
  Empty = Empty
  Unsupported = Unsupported
  MsgIds <- MCMsgIds
  Kind <- MCKind
  Parts <- MCParts
  Sender <- MCSender
  Chats = {c1}
  Pdus = {mms, text, binary}
  Slots = 1
  DriverReads = {"SMS"}
  CpmsMayFail = FALSE
  MaxArrivals = 2
  MaxFaults = 0
INVARIANT RowsAreServable
