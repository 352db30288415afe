\* Rules without a duration, a stopped clock, one edit and one fault: liveness.
SPECIFICATION Spec
CONSTANTS
  Nodes = {n1}
  Rules = {r1}
  Workers = {w1}
  Maintenance = maint
  NoOne = NoOne
  Configs <- PromptConfigs
  BuiltIn <- NoBuiltIn
  NotCreated = NotCreated
  Deleted = Deleted
  Certs = {"c1", "c2"}
  Reports <- TwoReports
  NoCert = NoCert
  MaxTime = 1
  MaxEdits = 1
  MaxFaults = 1
PROPERTIES
  AlertsSettle
