\* The same rules without faults: one mute racing one evaluation.
SPECIFICATION Spec
CONSTANTS
  Nodes = {n1}
  Rules = {r1}
  Workers = {w1}
  Maintenance = maint
  NoOne = NoOne
  Configs <- PromptConfigs
  BuiltIn <- NoBuiltIn
  NotCreated = NotCreated
  Deleted = Deleted
  Certs = {"c1", "c2"}
  Reports <- TwoReports
  NoCert = NoCert
  MaxTime = 1
  MaxEdits = 1
  MaxFaults = 0
PROPERTIES
  MutedNodesAreSilent
