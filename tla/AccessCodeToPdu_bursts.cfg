\* Every stream of MaxBits bits in every mode, with overlapping bursts.
SPECIFICATION Spec
CONSTANTS
  RegLen = 4
  MaxBits = 12
  Configs <- MCConfigs
INVARIANTS TypeOK OutputIsOldestBurst BufferBounded LockMeansStrict
PROPERTY RefinesWindows
CHECK_DEADLOCK FALSE
