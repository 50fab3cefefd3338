\* A burst time computed from a time tag that arrived after the SOB.
SPECIFICATION Spec
CONSTANTS
  SOB = SOB
  EOB = EOB
  TIME = TIME
  StreamLength = 4
  TagKeys <- MCTagKeys
  InitStreams <- MCStreams
  TicksPerSec = 4
  ClockAtZero = 7
  TrueRate = 2
  InitConf <- MCConf
  TagSettings = {}
  SizeSettings = {}
  TailSettings = {}
  PrependSettings = {}
  EobSettings = {}
  SobMsgSettings = {}
  RateSettings = {}
  StartTimeSettings = {}
  DebugSettings = {}
INVARIANT BurstTimeNormalised
CHECK_DEADLOCK FALSE
