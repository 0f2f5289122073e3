\* Two wrappers that start, fail, retry and die, two servers and two ports in all.
SPECIFICATION FairSpec
CONSTANTS
  w1 = w1
  w2 = w2
  p1 = p1
  p2 = p2
  NoPort = NoPort
  Nobody = Nobody
  Wrappers = {w1, w2}
  Ports = {p1, p2}
  MaxStarts = 2
  MaxServers = 2
INVARIANT ConnectsToOwnServer
INVARIANT RetriedStartReports
INVARIANT OneConnection
PROPERTY StartEnds
