\* Both dialects, in two turns of the thread beside a subagent's.
SPECIFICATION Spec
CONSTANTS
  Items = {a, b}
  LegacyDialect = TRUE
  Sizes = {2}
  MaxTurns <- TurnBound
  MaxDeltas = 1
  MaxCalls = 2
SYMMETRY ItemSymmetry
INVARIANT TypeOK
INVARIANT ReportedOnce
INVARIANT ResultMatchesCall
INVARIANT OutputComplete
INVARIANT TurnReportExact
\* The turns are used up.
CHECK_DEADLOCK FALSE
