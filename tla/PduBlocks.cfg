SPECIFICATION BlocksFairSpec
CHECK_DEADLOCK FALSE
CONSTANTS
  Blocks = {"take_skip_to_pdu", "pdu_flow_ctrl", "pdu_preamble", "pdu_burst_combiner", "pdu_logger", "pdu_delay", "message_routing", "pdu_slice", "pdu_head_tail", "pdu_align", "bit_vectors", "pdu_set_m"}
  Controllers = {c1, c2}
  Ports = {1, 2}
  Watched <- MCWatched
  Wired <- MCWired
  MaxNmsgs = 2
  Supply = 2
  Off = Off
  None = None
  StreamLength = 6
  InitTakes <- MCInitTakes
  InitSkips <- MCInitSkips
  TakeSettings = {0, 2}
  SkipSettings = {0, 1}
  SetterThreads = {t1, t2}
  Words <- MCWords
  Interps = {1, 2}
  Pads = {1}
  PreambleData <- MCPreambleData
  MaxCalls = 3
  Indices <- MCIndices
  MaxParts = 5
  Types = {"c32", "u8"}
  PdusPerFile = {0, 2}
  MaxLogged = 3
  MaxRuns = 2
  Pdus = {1, 2}
  Delays = {0, 2}
  Unusable = Unusable
  MaxTime = 3
  Callers = {t1}
  Port = port
  NumOutputs = 2
  KeepSettings = {0, 1, 2}
  MaxMessages = 3
  Notations <- MCNotations
  SliceLengths <- MCSliceLengths
  Blank = Blank
  Absent = Absent
  NoNumber = NoNumber
  Malformed = Malformed
  MaxSteps = 3
  HistItems = {0, 1}
  DataLengths <- MCDataLengths
  LengthSettings = {1, 2}
  HistSettings = {1, 2}
  MaxHeadTail = 3
  Configs <- MCConfigs
  AlignLengths = {3, 7}
  BitData <- MCBitData
  Orders = {"BIT_ORDER_LSB_FIRST", "BIT_ORDER_MSB_FIRST"}
  Factors = {1, 2, 3}
  Block = port
  Apps = {t1}
  InitPairs <- MCInitPairs
  Metas <- MCMetas
  Commands <- MCCommands
  Free = Free
  MaxInbox = 2
  c1 = c1
  c2 = c2
  t1 = t1
  t2 = t2
  port = port
INVARIANTS
  PduAsPlanned
  QueueBounded
  QuietPdusCoherent
  OnlyOverlapLosesWords
  WholeBurstJoined
  JoinsRuns
  PdusFiled
  StaleOnlyWhenMixed
  DelayHonoured
  CounterExact
  EmitterCountsCalls
  HistoryIsLatest
  CutAtMatch
  BestNearby
  RoundTrip
  PairsTogether
PROPERTIES
  StreamConsumed
  SlicesLikePython
