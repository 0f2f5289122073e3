\* Every tree of four processes, one of them this wrapper; codex may start one more.
SPECIFICATION Spec
CONSTANTS
  Processes = {2, 3, 4, 5}
  Later = {6}
  Own = 2
INVARIANT StopsOnlyTheRun
INVARIANT ParentsFirst
PROPERTY SparesBridgeSessions
\* The release ends; processes may all have exited.
CHECK_DEADLOCK FALSE
