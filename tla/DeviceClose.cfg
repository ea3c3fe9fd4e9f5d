CONSTANTS
  Nodes = {n1, n2}
  NoNode = NoNode
  Keys = {k1}
  Outcomes = {"OK", "IO"}
SPECIFICATION DeviceFairSpec
INVARIANTS
  FreedNodeIsQuiet
PROPERTIES
  DeviceCloseEnds
CHECK_DEADLOCK FALSE
