SPECIFICATION FairSpec
CONSTANTS
  OutboundCap = 1
  MaxTick = 0
  MOTicks <- NoMOs
  Transitions <- NoTransitions
  Disconnects <- NoDisconnects
  RandomHits = {}
  InitialProfile = "healthy"
  DecisionsOf <- SlowAndCut
  RejectModes = {FALSE}
  Commands = {"bind_transceiver", "enquire_link"}
  ReadFaults = {}
  WriteFaults = {"write_timeout"}
  MayPanic = FALSE
  OlderBinds = {FALSE}
PROPERTIES
  WriteFailureEndsSession
CHECK_DEADLOCK FALSE
