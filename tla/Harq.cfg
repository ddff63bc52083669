SPECIFICATION HarqSpec
CONSTANTS
  Node = {1, 2}
  Sources = {1}
  NoFrame = NoFrame
  SeqMod = 2
  MinBE = 1
  MaxBE = 2
  MaxCSMABackoffs = 1
  UnitBackoff = 3
  MaxAttempts = 1
  MaxReplays = 1
  AckTimeout = 3
  RedundancyTime = 1
  FailureTimeout = 10
  CcaTime = 4
  PreambleTime = 1
  HeaderTime = 1
  DataTime = 2
  AckTime = 3
  PulseTime = 1
  MaxSends = 2
  MaxPulses = 1
  Delay <- MCDelay
INVARIANTS HarqTypeOK OutcomeOnce PhyFollowsAgenda WaitIsTimed RedundancyOfAwaited
PROPERTIES ImplementsService
CHECK_DEADLOCK FALSE
