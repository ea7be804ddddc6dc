SPECIFICATION Spec
CONSTANTS
  OutboundCap = 1
  MaxTick = 3
  MOTicks <- MOsOutOfOrder
  Transitions <- TransitionsOutOfOrder
  Disconnects <- Cuts
  RandomHits = {}
  InitialProfile = "healthy"
  DecisionsOf <- ScheduleOutcomes
  RejectModes = {FALSE}
  Commands = {"bind_transceiver", "bind_transmitter", "submit_sm"}
  ReadFaults = {}
  WriteFaults = {}
  MayPanic = FALSE
  OlderBinds = {TRUE, FALSE}
INVARIANTS
  TransitionsFollowTheClock
  ScheduledCutAtItsTick
  NothingDueKept
  DLRAfterResponse
  EventsConserved
CHECK_DEADLOCK FALSE
