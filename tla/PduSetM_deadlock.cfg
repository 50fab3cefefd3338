SPECIFICATION FairSpec
CONSTANTS
  Block = port
  Apps = {t1}
  InitPairs <- MCInitPairs
  Metas <- MCMetas
  Commands <- MCCommands
  Free = Free
  MaxInbox = 2
CHECK_DEADLOCK FALSE
PROPERTY EveryCommandHandled
