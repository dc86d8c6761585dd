CONSTANTS
  Files <- MCMalformed
  MaxLen = 3
  NumThreads = 1
  Wrap = 16
CHECK_DEADLOCK FALSE
SPECIFICATION FairSpec
INVARIANT AllAnsweredAtStop
