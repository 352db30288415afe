\* Two concurrent requests on one node, two lookups of an address, one edit, one fault.
SPECIFICATION Spec
CONSTANTS
  Nodes = {n1}
  IPv4 = ip4
  IPv6 = ip6
  Private = private
  NoIP = NoIP
  Omitted = Omitted
  Addresses <- AllAddresses
  Eligible <- Routable
  Observed <- MovingNode
  Patches <- SomePatches
  Handlers = {h1, h2}
  MaxLookups = 2
  MaxEdits = 1
  MaxFaults = 1
INVARIANTS
  TypeOK
  LocationIsCurrent
  ClaimIsHonoured
PROPERTIES
  NodesAreLocated
\* A revoked node, with no edits left, is at rest.
CHECK_DEADLOCK FALSE
