CONSTANTS
  Nodes = {n1, n2}
  NoNode = NoNode
  Keys = {k1}
  Outcomes = {"OK", "STALL", "IO"}
SPECIFICATION PromptSpec
INVARIANTS
  NeutralizedBeforeUnregister
CHECK_DEADLOCK FALSE
