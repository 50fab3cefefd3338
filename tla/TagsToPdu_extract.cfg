\* Every stream of 6 samples, cut into work() calls in every way.
SPECIFICATION FairSpec
CONSTANTS
  SOB = SOB
  EOB = EOB
  TIME = TIME
  StreamLength = 6
  TagKeys <- MCTagKeys
  InitStreams <- MCStreams
  TicksPerSec = 4
  ClockAtZero = 7
  TrueRate = 2
  InitConf <- PaddedConf
  TagSettings = {}
  SizeSettings = {}
  TailSettings = {}
  PrependSettings = {}
  EobSettings = {}
  SobMsgSettings = {}
  RateSettings = {}
  StartTimeSettings = {}
  DebugSettings = {}
INVARIANTS
  ChunkingIndependent
  BurstTimeExact
  LeadingSobsDetected
  AlignedAndBounded
PROPERTY StreamConsumed
\* the stream ends
CHECK_DEADLOCK FALSE
