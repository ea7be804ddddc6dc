SPECIFICATION Spec
CONSTANTS
  Capacity = 3
  Binds = {b1}
  Addrs = {a1, a2}
  AnyAddr = AnyAddr
  NoRecord = NoRecord
  MaxTotal = 5
  PageLimits = {0, 1, 3}
  maxPDUPage = 2
INVARIANTS
  SnapshotIsPage
  PagingIsExact
PROPERTY
  ImplementsWindow
CHECK_DEADLOCK FALSE
