CONSTANTS
  d1 = d1
  d2 = d2
  p1 = p1
  q1 = q1
  o1 = o1
  o2 = o2
  TrainSets = {d1, d2}
  NoTrains = NoTrains
  NoBuffer = NoBuffer
  MaxCallbacks = 4
  Trains <- MCTrains
  MaxTime = 10
  NoTrain = NoTrain
  PprWalks = {p1}
  OsrmWalks = {q1}
  Results <- MCResults
  Options = {o1, o2}
  Default = o1
  Direct = Direct
  Osrm = Osrm
  Own = Own
  Error = Error
  Nothing = Nothing
  MaxSearches = 3
SPECIFICATION MapSpec
INVARIANTS PickedTrainIsDrawn DrawnOnItsRoute ConnectionsDrawn PprCacheOfOptions
PROPERTIES NewDataDrawn
