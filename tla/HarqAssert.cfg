SPECIFICATION HarqSpec
CONSTANTS
  Node = {1, 2}
  Sources = {1, 2}
  NoFrame = NoFrame
  SeqMod = 2
  MinBE = 2
  MaxBE = 2
  MaxCSMABackoffs = 1
  UnitBackoff = 3
  MaxAttempts = 1
  MaxReplays = 0
  AckTimeout = 0
  RedundancyTime = 1
  FailureTimeout = 6
  CcaTime = 2
  PreambleTime = 1
  HeaderTime = 1
  DataTime = 2
  AckTime = 1
  PulseTime = 1
  MaxSends = 1
  MaxPulses = 0
  Delay <- MCDelay
INVARIANTS RedundancyHasPacket
CHECK_DEADLOCK FALSE
