SPECIFICATION Spec
CONSTANTS
  Node = {1, 2}
  Sources = {1}
  NoFrame = NoFrame
  SeqMod = 2
  MinBE = 1
  MaxBE = 2
  MaxCSMABackoffs = 1
  UnitBackoff = 3
  MaxAttempts = 1
  MaxReplays = 1
  AckTimeout = 8
  CcaTime = 2
  PreambleTime = 1
  HeaderTime = 1
  DataTime = 2
  AckTime = 1
  PulseTime = 1
  MaxSends = 2
  MaxPulses = 1
  Delay <- MCDelay
INVARIANTS OneStepPending NothingAfterOutcome
PROPERTIES Resolved
CHECK_DEADLOCK FALSE
