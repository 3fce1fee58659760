\* Every kind of event and of answer, commands of both kinds, a line that
\* drops while the controller is selected.
SPECIFICATION Spec
CONSTANTS
  NumPackets = 2
  Opcodes <- MCOneOpcode
  Waits <- MCWaits
  Unsolicited <- MCUnsolicited
  LineDropsOnSelect = TRUE
  MaxEvents = 3
  MaxRequests = 2
PROPERTIES
  ChannelSpec
  RequestReturns
  PacketsReturn
