\* The end of a subagent's turn ends the parent's startTurn.
SPECIFICATION Spec
CONSTANTS
  c1 = c1
  MaxTurns = 1
  Children = {c1}
  MaxQueue = 2
  MaxSignals = 0
INVARIANT OwnEndReleases
\* The process exits.
CHECK_DEADLOCK FALSE
