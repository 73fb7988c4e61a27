SPECIFICATION Spec
CONSTANTS
  Pid = {a, b}
  CCMod = 3
  RollingSeconds = 3
  QuietSeconds = 1
  HealthInterval = 2
  Offline = 2
  UntrustedShare = 500
  LossyShare = 250
  MaxPackets = 3
  MaxTrouble = 1
  MaxNow = 6
INVARIANTS ErrorsAreLosses SampleIsTheOneAsked
PROPERTIES TroubleIsSeen HealthReturns
