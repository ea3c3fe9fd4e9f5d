CONSTANTS
  InTransfers = {i1}
  OutTransfers = {o1}
  NoSlot = NoSlot
  MaxSlots = 2
SPECIFICATION LiveSpec
PROPERTIES
  LossEndsCalls
  ClosedChannelIsFreed
CHECK_DEADLOCK FALSE
