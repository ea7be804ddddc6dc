SPECIFICATION FairSpec
CONSTANTS
  MaxSMSCs = 2
  Conns = {c1, c2}
  AcceptErrors = TRUE
  SurfaceModes = {TRUE, FALSE}
INVARIANTS
  DrainedLeavesNobody
  EngineNeverStopsByItself
  NoListenerLeftOpen
  ExitStatusTellsWhy
PROPERTIES
  NoAddDuringWait
  SignalEndsRun
  DeadSurfaceEndsRun
