SPECIFICATION NetSpec
CONSTANTS
  Pid <- MCPid
  NullPid <- MCNull
  Hash <- MCHash
  CCMod = 8
  BoundaryExtra = 2
  OversizeScan = 3
  MaxCandidates = 3
  MaxBurst = 2
  MinConfidence = 40
  MatchThreshold = 2
  ProbeInterval = 4
  SearchRadius = 6
  MissLimit = 2
  Capacity = 20
  Retention = 0
  PrimaryDelay = 1
  PrimaryOutage = 1
  PrimaryReturn = 2
  MaxNow = 5
  Scenarios <- MCPlain
  ArrivalEnd = 4
  MayFail = TRUE
  MayStop = TRUE
  SlowDrain = FALSE
INVARIANTS OutputInOrder FlushSendsQueue
PROPERTIES SwitchesAreSeamless HoldoffRespected
