SPECIFICATION Spec
CONSTANTS
  OutboundCap = 1
  MaxTick = 1
  MOTicks <- NoMOs
  Transitions <- NoTransitions
  Disconnects <- NoDisconnects
  RandomHits = {}
  InitialProfile = "healthy"
  DecisionsOf <- SlowAndCut
  RejectModes = {FALSE}
  Commands = {"bind_transceiver"}
  ReadFaults = {}
  WriteFaults = {}
  MayPanic = FALSE
  OlderBinds = {FALSE}
INVARIANTS
  ShutdownUnbinds
CHECK_DEADLOCK FALSE
