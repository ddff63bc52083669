SPECIFICATION Spec
CONSTANTS
  Device = {"a", "b"}
  Sender = {"a", "b"}
  Load = {"w"}
  NoImpedance = NoImpedance
  RxImpedance <- MCOpen
  TxImpedance <- MCOpen
  Impedances <- MCOpenImpedances
  Taps <- MCTaps
  Direct = {}
  NoPsd = NoPsd
INVARIANTS PsdCurrent
