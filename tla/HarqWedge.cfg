SPECIFICATION HarqSpec
CONSTANTS
  Node = {1, 2}
  Sources = {1}
  NoFrame = NoFrame
  SeqMod = 1
  MinBE = 1
  MaxBE = 2
  MaxCSMABackoffs = 1
  UnitBackoff = 3
  MaxAttempts = 1
  MaxReplays = 0
  AckTimeout = 1
  RedundancyTime = 1
  FailureTimeout = 6
  CcaTime = 2
  PreambleTime = 1
  HeaderTime = 1
  DataTime = 2
  AckTime = 1
  PulseTime = 1
  MaxSends = 1
  MaxPulses = 1
  Delay <- MCDelay
PROPERTIES Resolved
CHECK_DEADLOCK FALSE
