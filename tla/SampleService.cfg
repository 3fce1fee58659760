\* Both roles, three connections, one failed request.
SPECIFICATION Spec
CONSTANTS
  Roles <- MCRoles
  MaxFailures = 1
  MaxLinks = 3
  MaxEvents = 4
INVARIANTS
  TypeOK
  HandlesMatch
  MovingOnlyWhenConnected
  LossIsKnown
PROPERTY
  DiscoveryCompletes
