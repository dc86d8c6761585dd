CONSTANTS
  Files <- MCAny
  MaxLen = 5
  NumThreads = 1
  Wrap = 16
CHECK_DEADLOCK FALSE
SPECIFICATION FairSpec
INVARIANTS CountsInFlight StopsWhenAnswered BoundedInFlight
PROPERTIES EveryLineAnswered Terminates
