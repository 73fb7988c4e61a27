SPECIFICATION TurnsSpec
CONSTANTS
  Pid <- MCPid
  NullPid <- MCNull
  Hash <- MCHash
  CCMod = 8
  BoundaryExtra = 2
  OversizeScan = 3
  MaxCandidates = 3
  MaxBurst = 2
  MinConfidence = 40
  MatchThreshold = 2
  ProbeInterval = 4
  SearchRadius = 6
  MissLimit = 2
  Capacity = 20
  Retention = 0
  PrimaryDelay = 1
  PrimaryOutage = 1
  PrimaryReturn = 1
  MaxNow = 3
  Source <- MCTwoPackets
  DatagramRoom = 2
  KernelRoom = 2
  LossBudget <- MCNoLoss
  MaxClients = 1
  ServeWait = TRUE
  ArrivalEnd = 2
  MayFail = FALSE
  MayStop = FALSE
  SlowTurn = FALSE
PROPERTY SilenceIsReal
