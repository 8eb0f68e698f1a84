SPECIFICATION FairSpec
CONSTANTS
  Msg <- Messages
  Handler = {h1, h2}
  MaxOwner = 1
  MaxReplies = 2
  SentCap = 2
  MaxFaults = 1
  MaxClock = 5
  MaxEchoes = 1
  None = None
INVARIANTS TypeOK PacedInOrder SameFileForCopies RefusedStaysOut NoEchoLoop
PROPERTIES HandlersFinish
CHECK_DEADLOCK FALSE
