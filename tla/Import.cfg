CONSTANTS
  ModuleOrders <- MCOrders
  Inputs <- MCInputs
  UseDem = TRUE
  UseCoastline = TRUE
  Lookup = TRUE
SPECIFICATION FairSpec
INVARIANTS RanIfPossible WhichOsmFile InitFinds RunningHasAll
PROPERTIES RunsOnce ImportViewSpec Ends
CHECK_DEADLOCK FALSE
