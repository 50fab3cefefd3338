SPECIFICATION Spec
CONSTANTS
  TicksPerSec = 4
  ClockAtZero = 7
  TrueRate = 2
  StreamLength = 4
  TagCount = 3
  TRIG = TRIG
  ARM = ARM
  TIME = TIME
  NIL = NIL
  Configured = Configured
  Replaced = Replaced
  Keys <- MCKeys
  Messages <- MCMessages
  InitTags <- MCTags
  InitConfs <- MCConfs
  Uninitialised = {9}
  TriggerKeySettings = {TIME}
  ArmingKeySettings = {NIL, TRIG}
  TimeKeySettings = {ARM}
  MessageSettings = {Replaced}
  HoldoffSettings = {0, 2}
  RateSettings = {2}
  StartTimeSettings <- TrueStartTimes
  DelaySettings <- MCDelays
  TxLimitSettings = {0, 1}
  ArmingOffsets = {3}
CONSTRAINTS OneChange NotDone
INVARIANTS TypeOK HoldoffRespected OneShotPerArming TxLimitHonoured TxTimeExact
CHECK_DEADLOCK FALSE
