CONSTANTS
  Nodes = {n1}
  NoNode = NoNode
  Keys = {k1, k2}
  Outcomes = {"OK", "STALL", "NO_DEVICE", "IO"}
SPECIFICATION FairSpec
INVARIANTS
  HeldStateIsRemembered
  NeutralBeforeUnregister
PROPERTIES
  EdgeReachesTarget
  NoBlindResend
  CallsReturn
CHECK_DEADLOCK FALSE
