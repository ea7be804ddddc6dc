SPECIFICATION Spec
CONSTANTS
  MaxTick = 3
  MaxEvents = 5
INVARIANTS
  NoEventLostOrDuplicated
  ReleasedOnTime
  ReleaseOrder
PROPERTY
  ImplementsScheduleSpec
CHECK_DEADLOCK FALSE
