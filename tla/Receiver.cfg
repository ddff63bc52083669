SPECIFICATION Spec
CONSTANTS
  Kinds = {"errorRate", "informationRate"}
  TxId = {0, 1, 2}
  Psd <- MCPsd
  NoPsd = NoPsd
  MaxSignals = 3
INVARIANTS NoiseIsSum AllIsNoiseAndSignal LockedOnReceived MapIsInterferers
