SPECIFICATION Spec
CONSTANTS
  Grain = 8
  Second = 2
  Slots = {s1, s2}
  Configs <- SlowTarget
  Stream <- MCStream
  ChaosDraws = {0, 7}
  MaxBinds = 3
  MaxSubmits = 4
  MaxShared = 4
  MaxNow = 4
INVARIANTS
  SlowCarrierIsSlow
CHECK_DEADLOCK FALSE
