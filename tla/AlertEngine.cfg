\* One node and one rule, two concurrent evaluators, two edits and one fault.
SPECIFICATION Spec
CONSTANTS
  Nodes = {n1}
  Rules = {r1}
  Workers = {w1}
  Maintenance = maint
  NoOne = NoOne
  Configs <- TimedConfigs
  BuiltIn <- MCBuiltIn
  NotCreated = NotCreated
  Deleted = Deleted
  Certs = {"c1", "c2"}
  Reports <- TwoReports
  NoCert = NoCert
  MaxTime = 2
  MaxEdits = 2
  MaxFaults = 1
INVARIANTS
  TypeOK
  EventsAlternate
  FiringIsSustained
  RemindersAreSpaced
