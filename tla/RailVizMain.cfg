CONSTANTS
  f1 = f1
  f2 = f2
  v0 = v0
  v1 = v1
  v2 = v2
  a1 = a1
  a2 = a2
  b1 = b1
  b2 = b2
  None = None
  Filters = {f1, f2}
  Views = {v0, v1, v2}
  TrainCalls = {a1, a2}
  TripCalls = {b1, b2}
  MaxThrown = 1
SPECIFICATION FairSpec
INVARIANTS SpinnerCountsCalls TripsOfTheFilter TrainsOfTheView ViewIsConsistent
PROPERTIES FilterShown
ACTION_CONSTRAINT OneVaries
