\* Two wrapper processes crash, recover and fail over each other; wal recovery itself
\* does not fail.
SPECIFICATION FairSpec
CONSTANTS
  s1 = s1
  s2 = s2
  t1 = t1
  t2 = t2
  t3 = t3
  d1 = d1
  NoThread = NoThread
  NoRow = NoRow
  Sessions = {s1, s2}
  Threads = {t1, t2}
  Discoverers = {}
  MaxWal = 2
  BusyStatements = {"reads", "sessions", "commit", "rollouts"}
  ResumeMayKeepId = FALSE
INVARIANT TypeOK
INVARIANT LiveThreadRecorded
PROPERTY WalImplemented
PROPERTY RecoverySettles
