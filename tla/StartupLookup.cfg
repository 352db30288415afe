\* One lookup fails or is cut off; then the controller starts again.
SPECIFICATION Spec
CONSTANTS
  Nodes = {n1}
  IPv4 = ip4
  IPv6 = ip6
  Private = private
  NoIP = NoIP
  Omitted = Omitted
  Addresses <- AllAddresses
  Eligible <- Routable
  Observed <- MovingNode
  Patches <- SomePatches
  Handlers = {h1}
  MaxLookups = 1
  MaxEdits = 0
  MaxFaults = 2
PROPERTIES
  StartupLooksUpAgain
\* A revoked node, with no edits left, is at rest.
CHECK_DEADLOCK FALSE
