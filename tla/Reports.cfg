\* Windows of 1 and 2 ticks, one edit, one fault; legacy rows in two batches;
\* two channels, one alert, five requests about them.
SPECIFICATION MCSpec
CONSTANTS
  Handlers = {h1, h2}
  Window = 1
  Keep = 2
  Capacity = 3
  Delay = 0
  Interval = 2
  Skews = {0}
  MaxReports = 4
  MaxTime = 6
  MaxEdits = 1
  MaxFaults = 1
  Readers = {q}
  Tiers <- MCTiers
  Retention = 8
  Ranges = {1, 3, 5}
  Limits = {2, 4}
  BatchSize = 2
  OpenedAt = 2
  MaxLegacy = 3
  MaxSamples = 1
  MaxInstant = 6
  MaxStarts = 1
  Channels = {a, b}
  Senders = {s1}
  MaxAlerts = 1
  MaxChanges = 5
  MaxMishaps = 1
SYMMETRY SameHandlers
INVARIANTS
  TypesOK
  CountedOnce
  OnlyChosenAreTold
  DeletedAreNotTold
PROPERTIES
  
  OnlyReplaysAreRefused
  AnswerIsComplete
\* Time, reports and requests are bounded.
CHECK_DEADLOCK FALSE
