SPECIFICATION Spec
CONSTANTS
  Node = {1, 2}
  Sources = {1}
  NoFrame = NoFrame
  SeqMod = 2
  MinBE = 1
  MaxBE = 2
  MaxCSMABackoffs = 1
  UnitBackoff = 3
  MaxAttempts = 1
  MaxReplays = 0
  AckTimeout = 4
  CcaTime = 2
  PreambleTime = 1
  HeaderTime = 1
  DataTime = 2
  AckTime = 1
  PulseTime = 1
  MaxSends = 2
  MaxPulses = 1
  Delay <- MCDelay
INVARIANTS AckSound OutcomeOnce
CHECK_DEADLOCK FALSE
