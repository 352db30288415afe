SPECIFICATION Spec
CONSTANTS
  Conns = {c1, c2}
  Admins = {u1}
  NoConn = NoConn
  MaxVersion = 2
  Backlog = 1
  MaxReports = 0
  MaxEdits = 1
  MaxFaults = 1
PROPERTIES
  
  RevokedIsCutOff
\* A revoked node, with no edits left, is at rest.
CHECK_DEADLOCK FALSE
