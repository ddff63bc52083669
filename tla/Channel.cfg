SPECIFICATION Spec
CONSTANTS
  Device = {"a", "b", "c"}
  Sender = {"a", "c"}
  Load = {"w"}
  NoImpedance = NoImpedance
  RxImpedance <- MCRx
  TxImpedance <- MCTx
  Impedances <- MCImpedances
  Taps <- MCTaps
  Direct = {}
  NoPsd = NoPsd
INVARIANTS PsdCurrent SlotTasksRun
PROPERTIES DeferredApplied
