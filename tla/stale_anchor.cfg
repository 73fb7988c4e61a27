SPECIFICATION NetSpec
CONSTANTS
  Pid <- MCPid
  NullPid <- MCNull
  Hash <- MCHash
  CCMod = 4
  BoundaryExtra = 2
  OversizeScan = 3
  MaxCandidates = 3
  MaxBurst = 2
  MinConfidence = 40
  MatchThreshold = 2
  ProbeInterval = 4
  SearchRadius = 6
  MissLimit = 2
  Capacity = 20
  Retention = 0
  PrimaryDelay = 0
  PrimaryOutage = 0
  PrimaryReturn = 1
  MaxNow = 1
  Scenarios <- MCWrap
  ArrivalEnd = 2
  MayFail = FALSE
  MayStop = FALSE
  SlowDrain = FALSE
INVARIANT PidOrder
