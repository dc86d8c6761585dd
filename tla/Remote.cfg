CONSTANTS
  r1 = r1
  r2 = r2
  shared = shared
  own = own
  c1 = c1
  c2 = c2
  NoRemote = NoRemote
  Remotes = {r1, r2}
  Ops = {shared, own}
  Calls = {c1, c2}
  Offers <- MCOffers
  Target <- MCTarget
  QueueNoTarget = FALSE
  Wrap = 6
SPECIFICATION FairSpec
INVARIANTS RegistryOwned CallNotLost OneAnswerOfAKind
PROPERTIES EveryCallAnswered Reconnects
CHECK_DEADLOCK FALSE
