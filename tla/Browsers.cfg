\* Two handlers of each kind; five requests of administrators, two pages, three events.
SPECIFICATION MCSpec
CONSTANTS
  Handlers = {h1, h2}
  NoOne = NoOne
  Lifetime = 2
  Quiet = 1
  Free = 1
  MaxRequests = 5
  MaxTime = 3
  MaxFaults = 2
  Requests = {h1, h2}
  TTL = 1
  OfflineAfter = 1
  Modes = {created, name}
  MaxPages = 2
  MaxChanges = 1
  MaxErrors = 1
  MaxClock = 2
  Publishers = {h1, h2}
  Streams = {s1, s2}
  PublicStreams = {s2}
  Nobody = Nobody
  MaxEvents = 3
  MaxStreams = 2
SYMMETRY Symmetry
INVARIANTS
  TypesOK
  OneAdministrator
  EndedStaysEnded
  SessionsSurvive
  EnabledIsProven
  FewGuessesWhileBlocked
  NewestIsNotLost
  NoSendToClosed
PROPERTIES
  PageIsRecent
  NeverBackwards
\* Requests, events and time are bounded.
CHECK_DEADLOCK FALSE
