\* An item is written twice when a burst does not fit into one call.
SPECIFICATION Spec
CONSTANTS
  DropModes = {FALSE}
  PduKinds <- MCPduKinds
  QueueSizes = {1, 3}
  MaxChunk = 3
  MaxPdus = 3
  MaxOut = 4
INVARIANT NoItemRepeated
CHECK_DEADLOCK FALSE
