SPECIFICATION NetSpec
CONSTANTS
  Pid <- MCPid
  NullPid <- MCNull
  Hash <- MCHash
  CCMod = 8
  BoundaryExtra = 3
  OversizeScan = 3
  MaxCandidates = 3
  MaxBurst = 3
  MinConfidence = 40
  MatchThreshold = 2
  ProbeInterval = 4
  SearchRadius = 6
  MissLimit = 2
  Capacity = 20
  Retention = 0
  PrimaryDelay = 1
  PrimaryOutage = 1
  PrimaryReturn = 1
  MaxNow = 3
  Scenarios <- MCSkip
  ArrivalEnd = 3
  MayFail = FALSE
  MayStop = FALSE
  SlowDrain = FALSE
PROPERTY FailoverContinuesOutput
