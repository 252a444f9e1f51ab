CONSTANTS
  b1 = b1
  b2 = b2
  Board <- TwoBoards
  MaxLine = 2
  MaxSession = 2
  Reported <- Ascending
SPECIFICATION FairSpec
PROPERTY Completes
CHECK_DEADLOCK FALSE
