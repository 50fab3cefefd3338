\* The application changes every parameter while the flowgraph runs.
SPECIFICATION Spec
CONSTANTS
  SOB = SOB
  EOB = EOB
  TIME = TIME
  StreamLength = 4
  TagKeys <- MCTagKeys
  InitStreams <- ReconfStreams
  TicksPerSec = 4
  ClockAtZero = 7
  TrueRate = 2
  InitConf <- MCConf
  TagSettings <- ReconfTags
  SizeSettings = {2}
  TailSettings = {0}
  PrependSettings = {3}
  EobSettings <- ReconfEob
  SobMsgSettings = {FALSE}
  RateSettings = {4}
  StartTimeSettings <- ReconfTimes
  DebugSettings = {TRUE}
CONSTRAINT FewChanges
INVARIANTS
  TypeOK
  PdusAreDisjointRuns
CHECK_DEADLOCK FALSE
