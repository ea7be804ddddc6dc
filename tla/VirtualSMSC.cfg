SPECIFICATION Spec
CONSTANTS
  Grain = 8
  Second = 2
  Slots = {s1, s2}
  Configs <- AllConfigs
  Stream <- MCStream
  ChaosDraws = {0, 7}
  MaxBinds = 3
  MaxSubmits = 5
  MaxShared = 3
  MaxNow = 4
SYMMETRY SlotSymmetry
INVARIANTS
  NoSharedIdentity
  CorpusPerBind
  DecisionsReplay
  EdgeCasesShiftNothing
  PicksFollowWeights
  TwiceCapPerSecond
  ObservedProfilesAgree
CHECK_DEADLOCK FALSE
