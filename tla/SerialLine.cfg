SPECIFICATION Spec
CONSTANTS
  near = near
  next = next
  Mms = {near, next}
  Place <- MCPlace
  Length <- MCLength
  ChunkSize = 9
  None = None
  Blank = Blank
  Closed = Closed
INVARIANTS TypeOK PayloadInOrder OwnAnswers WholeContent
PROPERTIES PollEnds RefinesMailbox
