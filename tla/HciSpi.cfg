\* Controllers that keep their line low while selected, and others.
SPECIFICATION Spec
CONSTANTS
  MaxEvents = 3
  MaxSends = 3
INVARIANTS
  SentIsWritten
  WrittenOnce
  EventsWhole
PROPERTIES
  SendReturns
  EventsAreRead
