SPECIFICATION Spec
CONSTANTS
  MmsTypes <- MCMmsTypes
  Alternative <- MCAlternative
  TransferEncoding <- MCTransferEncoding
  Decoded <- MCDecoded
  Deliveries <- MCDeliveries
  PlainText <- MCPlainText
  Smil <- MCSmil
  Suffix <- MCSuffix
  MaxPolls = 2
CHECK_DEADLOCK FALSE
INVARIANTS
  TypeOK
  PushFiledTrue
  BodyTakenTrue
  FilesTrue
