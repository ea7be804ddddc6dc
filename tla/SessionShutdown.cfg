SPECIFICATION Spec
CONSTANTS
  OutboundCap = 1
  MaxTick = 1
  MOTicks <- OneMO
  Transitions <- NoTransitions
  Disconnects <- NoDisconnects
  RandomHits = {}
  InitialProfile = "healthy"
  DecisionsOf <- SlowAndCut
  RejectModes = {TRUE, FALSE}
  Commands = {"bind_transceiver", "bind_bad_password", "submit_sm", "unbind", "unknown",
              "deliver_sm_resp"}
  ReadFaults = {"eof", "reset", "bad_length"}
  WriteFaults = {"write_error"}
  MayPanic = TRUE
  OlderBinds = {FALSE}
INVARIANTS
  TypeOK
  NoSendAfterClose
  ShutdownDeadlineHolds
  QuiescenceNeverCutsFrame
  BindsBalanced
  JournalMatchesClock
  OutboundAccounted
CHECK_DEADLOCK FALSE
