\* Lines of up to four pieces, two of them there when a resumed rollout is opened.
SPECIFICATION FairSpec
CONSTANTS
  MaxPieces = 4
  MaxEarlier = 2
PROPERTY LinesReachServer
PROPERTY StopEnds
PROPERTY ImportOnlyGrows
\* The sidecar ends.
CHECK_DEADLOCK FALSE
INVARIANT TypeOK
INVARIANT PostedOnce
INVARIANT PostedInContext
INVARIANT LastLinesRead
