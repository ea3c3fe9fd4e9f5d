CONSTANTS
  WireMaximum = 300
  Options <- AnyProfile
  Ways = {"factory"}
SPECIFICATION BothSpec
INVARIANT EveryWidthCombinationFits
CHECK_DEADLOCK FALSE
