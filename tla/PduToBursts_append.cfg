\* Append mode starts a new burst for an untimed PDU that came in time.
SPECIFICATION Spec
CONSTANTS
  DropModes = {FALSE}
  PduKinds <- MCPduKinds
  QueueSizes = {1, 3}
  MaxChunk = 3
  MaxPdus = 3
  MaxOut = 4
INVARIANT UntimedAppended
CHECK_DEADLOCK FALSE
