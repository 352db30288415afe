\* Two connections: the handler of the one before the restart is late; no faults.
SPECIFICATION Spec
CONSTANTS
  Conns = {c1, c2}
  NoConn = NoConn
  MaxVersion = 2
  Releases = {2}
  Backlog = 1
  MaxEdits = 1
  MaxFaults = 0
PROPERTIES
  RowFollowsNode
