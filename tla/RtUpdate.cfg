CONSTANTS
  e1 = e1
  e2 = e2
  t1 = t1
  t2 = t2
  Endpoints = {e1, e2}
  Tasks = {t1, t2}
  MaxRunning = 2
  MaxVersion = 2
  MaxFailures = 1
SPECIFICATION FairSpec
INVARIANTS TypeOK RailvizFollows
PROPERTIES ViewSpec ShownInTheEnd
