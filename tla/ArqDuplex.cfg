SPECIFICATION Spec
CONSTANTS
  Node = {1, 2}
  Sources = {1, 2}
  NoFrame = NoFrame
  SeqMod = 2
  MinBE = 1
  MaxBE = 2
  MaxCSMABackoffs = 1
  UnitBackoff = 3
  MaxAttempts = 1
  MaxReplays = 1
  AckTimeout = 4
  CcaTime = 2
  PreambleTime = 1
  HeaderTime = 1
  DataTime = 2
  AckTime = 1
  PulseTime = 1
  MaxSends = 1
  MaxPulses = 0
  Delay <- MCDelay
INVARIANTS TypeOK AckSound OutcomeOnce PhyFollowsAgenda NoiseBalanced
PROPERTIES ImplementsService
CHECK_DEADLOCK FALSE
