SPECIFICATION Spec
CONSTANTS
  Conns = {c1, c2}
  Admins = {u1}
  NoConn = NoConn
  MaxVersion = 2
  Backlog = 1
  MaxReports = 1
  MaxEdits = 2
  MaxFaults = 1
SYMMETRY Alike
INVARIANTS
  TypeOK
  HubHoldsNoGhost
  ListenerIsReachable
  
  RevokedStaysRevoked
\* A revoked node, with no edits left, is at rest.
CHECK_DEADLOCK FALSE
