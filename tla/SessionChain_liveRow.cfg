\* A boot orphans the row of a recordChain call in progress.
SPECIFICATION Spec
CONSTANTS
  s1 = s1
  s2 = s2
  t1 = t1
  t2 = t2
  t3 = t3
  d1 = d1
  NoThread = NoThread
  NoRow = NoRow
  Sessions = {s1, s2}
  Threads = {t1}
  Discoverers = {}
  MaxWal = 2
  BusyStatements = {}
  ResumeMayKeepId = FALSE
INVARIANT InFlightRowPending
