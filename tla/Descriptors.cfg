CONSTANTS
  WireMaximum = 300
  Options <- AnyProfile
  Ways = {"factory", "raw"}
SPECIFICATION BothSpec
INVARIANTS
  HostReadsLayout
  GeneratedIsRawValid
  ReportsReadBack
  AcceptedIsTrue
CHECK_DEADLOCK FALSE
