CONSTANTS
  r1 = r1
  r2 = r2
  shared = shared
  own = own
  c1 = c1
  c2 = c2
  NoRemote = NoRemote
  Remotes = {r1, r2}
  Ops = {shared, own}
  Calls = {c1}
  Offers <- MCOffers
  Target <- MCTargetOne
  QueueNoTarget = TRUE
  Wrap = 6
CHECK_DEADLOCK FALSE
SPECIFICATION FairSpec
PROPERTY StartsWhenAllRegistered
