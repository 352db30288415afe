\* Two versions, both released, in any order; two edits, one fault.
SPECIFICATION Spec
CONSTANTS
  Conns = {c1}
  NoConn = NoConn
  MaxVersion = 2
  Releases = {1, 2}
  Backlog = 1
  MaxEdits = 2
  MaxFaults = 1
INVARIANTS
  TypeOK
  PendingHasRequest
PROPERTIES
  
  
  RowFollowsNode
