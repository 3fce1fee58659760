\* Two packets, two connections, one failed request.
SPECIFICATION Spec
CONSTANTS
  NumPackets = 2
  LineDropsOnSelect = TRUE
  MaxFailures = 1
  MaxLinks = 2
  MaxEvents = 1
INVARIANTS
  TypeOK
  LastCommandIsObeyed
  PeerIsKnown
PROPERTIES
  ServiceWhileHeard
  StopsWhenLost
