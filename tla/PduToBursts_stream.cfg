\* Three messages of every kind, in both modes, written in chunks of one to three.
SPECIFICATION FairSpec
CONSTANTS
  DropModes = {FALSE, TRUE}
  PduKinds <- MCPduKinds
  QueueSizes = {1, 3}
  MaxChunk = 3
  MaxPdus = 3
  MaxOut = 4
INVARIANTS
  TypeOK
  NothingLostOrReordered
  BurstsFramed
  TimesOnOwnBurst
PROPERTY EverythingSent
\* all bounded messages are received and sent
CHECK_DEADLOCK FALSE
