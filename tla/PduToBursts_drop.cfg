\* Drop mode accepts a PDU while data is queued.
SPECIFICATION Spec
CONSTANTS
  DropModes = {TRUE}
  PduKinds <- MCPduKinds
  QueueSizes = {1, 3}
  MaxChunk = 3
  MaxPdus = 3
  MaxOut = 4
INVARIANT EarlyBurstsDropped
CHECK_DEADLOCK FALSE
