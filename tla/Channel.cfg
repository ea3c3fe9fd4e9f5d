CONSTANTS
  InTransfers = {i1, i2}
  OutTransfers = {o1, o2}
  NoSlot = NoSlot
  MaxSlots = 3
SPECIFICATION Spec
SYMMETRY Symmetry
INVARIANTS
  OneOwner
  NoLostWakeup
  LossReachesEveryTransfer
  FreedChannelUntouched
  RequestPendingIsAccurate
CHECK_DEADLOCK FALSE
