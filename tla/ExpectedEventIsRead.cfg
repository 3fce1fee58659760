\* A claim of hci_tl.c or hci_tl.h that the code does not keep.
SPECIFICATION Spec
CONSTANTS
  NumPackets = 3
  Opcodes <- MCOneOpcode
  Waits <- MCWaitComplete
  Unsolicited <- MCVendor
  LineDropsOnSelect = TRUE
  MaxEvents = 4
  MaxRequests = 2
PROPERTY ExpectedEventIsRead
