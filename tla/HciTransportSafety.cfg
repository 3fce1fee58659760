\* The pool of five packets of the firmware, two requests.
SPECIFICATION Spec
CONSTANTS
  NumPackets = 5
  Opcodes <- MCOpcodes
  Waits <- MCWaitComplete
  Unsolicited <- MCVendor
  LineDropsOnSelect = FALSE
  MaxEvents = 6
  MaxRequests = 2
INVARIANTS
  TypeOK
  PacketsConserved
  NeverTakesFromEmptyQueue
  NothingLeftBehind
PROPERTY
  DeafOnlyWhenPoolEmpty
