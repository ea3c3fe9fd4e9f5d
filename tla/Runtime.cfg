CONSTANTS
  Parts = {"ring", "wait", "context", "ports", "hids"}
  RingSlots = {s1, s2, s3}
  NoSlot = NoSlot
  Word = 8
  Devices = {d1, d2}
  None = None
  TimeoutErrors = {d1}
  BusyErrors = {"poll"}
  MaxPollFailures = 2
  Ports = {p1, p2, p3}
  Interfaces = {i1, i2}
  Nodes = {n1, n2, n3}
  Fragments = 2
  MaxId = 2
SPECIFICATION Spec
INVARIANTS
  TeardownIsExclusive
  NoErrorIsLost
  PortOutlivesItsUsers
  IdIsFresh
  OpenIsAllOrNothing
PROPERTIES
  ImplementsQueue
  BlockedSubmissionEnds
  DestroyIsPossible
CHECK_DEADLOCK FALSE
