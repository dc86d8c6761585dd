CONSTANTS
  Files <- MCNoTarget
  MaxLen = 2
  NumThreads = 1
  Wrap = 16
CHECK_DEADLOCK FALSE
SPECIFICATION FairSpec
PROPERTY Terminates
