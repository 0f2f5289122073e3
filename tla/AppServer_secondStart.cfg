\* A second start over the connection of the first.
SPECIFICATION Spec
CONSTANTS
  w1 = w1
  w2 = w2
  p1 = p1
  p2 = p2
  NoPort = NoPort
  Nobody = Nobody
  Wrappers = {w1}
  Ports = {p1, p2}
  MaxStarts = 2
  MaxServers = 1
INVARIANT CurrentThreadHeard
