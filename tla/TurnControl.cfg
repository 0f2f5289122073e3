\* Two turns, one subagent, two signals, timeouts and a lost connection.
SPECIFICATION FairSpec
CONSTANTS
  c1 = c1
  MaxTurns = 2
  Children = {c1}
  MaxQueue = 1
  MaxSignals = 2
PROPERTY TurnReturns
PROPERTY SignalsServed
\* The process exits.
CHECK_DEADLOCK FALSE
INVARIANT TypeOK
INVARIANT ReleaseIsFresh
INVARIANT EndNotLost
