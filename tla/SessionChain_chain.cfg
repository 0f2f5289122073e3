\* One session's chain with cold imports of its threads; an orphaning and the statements
\* on sessions may fail.
SPECIFICATION Spec
SYMMETRY Symmetry
CONSTANTS
  s1 = s1
  s2 = s2
  t1 = t1
  t2 = t2
  t3 = t3
  d1 = d1
  NoThread = NoThread
  NoRow = NoRow
  Sessions = {s1}
  Threads = {t1, t2, t3}
  Discoverers = {d1}
  MaxWal = 3
  BusyStatements = {"orphan", "sessions"}
  ResumeMayKeepId = TRUE
INVARIANT ChainOrdered
INVARIANT ResumeContinuesChain
 
