SPECIFICATION Spec
CONSTANTS
  Run = {1, 2, 3}
  MaxFaults = 1
INVARIANTS
  IInv
  FlowIsolated
  NoFalseAlarm
