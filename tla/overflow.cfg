SPECIFICATION UdpSpec
CONSTANTS
  Pid <- MCPid
  NullPid <- MCNull
  Hash <- MCHash
  CCMod = 8
  BoundaryExtra = 2
  OversizeScan = 3
  MaxCandidates = 3
  MaxBurst = 2
  MinConfidence = 40
  MatchThreshold = 2
  ProbeInterval = 4
  SearchRadius = 6
  MissLimit = 2
  Capacity = 3
  Retention = 1
  PrimaryDelay = 1
  PrimaryOutage = 0
  PrimaryReturn = 1
  MaxNow = 3
  Scenarios <- MCOver
  ArrivalEnd = 3
  MayFail = TRUE
  MayStop = TRUE
  PacketsPerDatagram = 3
  SlowDrain = FALSE
INVARIANTS OutputInOrder PrimaryAccounted HistoryIsRecent AlignmentIsReal WireIsAccepted DatagramsCounted
