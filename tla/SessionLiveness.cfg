SPECIFICATION FairSpec
CONSTANTS
  OutboundCap = 1
  MaxTick = 1
  MOTicks <- NoMOs
  Transitions <- NoTransitions
  Disconnects <- NoDisconnects
  RandomHits = {}
  InitialProfile = "healthy"
  DecisionsOf <- SlowOrReceipt
  RejectModes = {FALSE}
  Commands = {"bind_transceiver", "submit_sm", "enquire_link"}
  ReadFaults = {}
  WriteFaults = {"write_timeout"}
  MayPanic = FALSE
  OlderBinds = {FALSE}
PROPERTIES
  ShutdownEnds
  CloseCompletes
  PendingEventuallyReleased
CHECK_DEADLOCK FALSE
