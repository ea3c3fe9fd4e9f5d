CONSTANTS
  Slots = {s1, s2}
  Nodes = {n1, n2, n3}
  NoNode = NoNode
  NoSlot = NoSlot
  Statuses = {"COMPLETED", "STALL", "NO_DEVICE", "CANCELLED"}
SPECIFICATION FairSpec
INVARIANTS
  PoolAccounting
  ReservationLedger
  OneCompletionOwed
  BufferOwnership
PROPERTIES
  ReservationStaysFunded
  EveryReportCompletes
  ReservationEventuallyFunded
CHECK_DEADLOCK FALSE
