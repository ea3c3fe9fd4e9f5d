CONSTANTS
  InTransfers = {i1, i2}
  OutTransfers = {o1}
  NoSlot = NoSlot
  MaxSlots = 3
SPECIFICATION Spec
INVARIANTS
  NoDataAfterFailure
CHECK_DEADLOCK FALSE
