SPECIFICATION Spec
CONSTANTS
  PacketSize = 3
  SyncRun = 2
  SizeMod = 16
  MaxSize = 10
INVARIANTS PushedAreFramed LossIsCounted ValidPacketsKept
PROPERTY WalkAdvances
