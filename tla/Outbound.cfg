SPECIFICATION FairSpec
CONSTANTS
  r1 = r1
  r2 = r2
  r3 = r3
  c1 = c1
  c2 = c2
  key = key
  BlankKey = BlankKey
  NoKey = NoKey
  NoRow = NoRow
  Requests = {r1, r2, r3}
  Chats = {c1, c2}
  IdemKeys = {key, BlankKey}
  MsgIds <- MCMsgIds
  Workloads <- MCWorkloads
  MaxFaults = 1
INVARIANTS
  TypeOK
  RecordedNotResent
  ReplayFaithful
  AnswerIsBacked
  OneCreator
PROPERTIES
  OnlyFailuresLose
  EveryRequestEnds
