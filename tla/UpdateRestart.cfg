\* The updater ends between replacing the binary and restarting the agent.
SPECIFICATION Spec
CONSTANTS
  Conns = {c1}
  NoConn = NoConn
  MaxVersion = 2
  Releases = {2}
  Backlog = 1
  MaxEdits = 1
  MaxFaults = 1
PROPERTIES
  ReplacedBinaryIsStarted
