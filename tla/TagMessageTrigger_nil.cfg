SPECIFICATION Spec
CONSTANTS
  TicksPerSec = 4
  ClockAtZero = 7
  TrueRate = 2
  StreamLength = 4
  TagCount = 1
  TRIG = TRIG
  ARM = ARM
  TIME = TIME
  NIL = NIL
  Configured = Configured
  Replaced = Replaced
  Keys <- MCKeys
  Messages <- MCMessages
  InitTags <- MCTags
  InitConfs <- MCConfs
  Uninitialised = {9}
  TriggerKeySettings = {}
  ArmingKeySettings = {NIL}
  TimeKeySettings = {}
  MessageSettings = {}
  HoldoffSettings = {}
  RateSettings = {}
  StartTimeSettings = {}
  DelaySettings = {}
  TxLimitSettings = {}
  ArmingOffsets = {}
PROPERTY AlwaysArmedWhenNil
CHECK_DEADLOCK FALSE
