SPECIFICATION Spec
CONSTANTS
  OutboundCap = 1
  MaxTick = 1
  MOTicks <- NoMOs
  Transitions <- NoTransitions
  Disconnects <- OldestBefore
  RandomHits = {}
  InitialProfile = "healthy"
  DecisionsOf <- SlowOrReceipt
  RejectModes = {FALSE}
  Commands = {"bind_transceiver", "submit_sm"}
  ReadFaults = {}
  WriteFaults = {}
  MayPanic = FALSE
  OlderBinds = {TRUE, FALSE}
INVARIANTS
  BeforeResponseCutsFirst
CHECK_DEADLOCK FALSE
