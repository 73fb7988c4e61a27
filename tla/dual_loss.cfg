SPECIFICATION NetSpec
CONSTANTS
  Pid <- MCPid
  NullPid <- MCNull
  Hash <- MCHash
  CCMod = 4
  BoundaryExtra = 2
  OversizeScan = 6
  MaxCandidates = 3
  MaxBurst = 3
  MinConfidence = 40
  MatchThreshold = 2
  ProbeInterval = 4
  SearchRadius = 6
  MissLimit = 2
  Capacity = 20
  Retention = 0
  PrimaryDelay = 1
  PrimaryOutage = 0
  PrimaryReturn = 1
  MaxNow = 2
  Scenarios <- MCDualLoss
  ArrivalEnd = 2
  MayFail = FALSE
  MayStop = FALSE
  SlowDrain = FALSE
INVARIANTS NetTypeOK PidOrder PrimaryAccounted RecoveryFillsGaps HealthyPrimaryPassesThrough TeiReplacementIsSamePacket
PROPERTY BreakIsReported
