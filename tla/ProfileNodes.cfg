CONSTANTS
  Profiles = {"mouse", "pen", "touch", "control"}
  ScrollAxes = {wheel}
  MoveAxes = {x, y}
  MaxDelta = 2
  FieldMax = 1
  TotalMax = 3
  Places = {0, 1}
  BarrelBits = {1}
  Ids = {a, b, c}
  NoId = NoId
  maximum_contacts = 3
  per_report = 2
  ScanTimes = {1}
  AllowedUsages = {u1, u2}
  NoUsage = NoUsage
  Buttons = {b1}
  AxisValues = {0, 1}
  StrengthMin = 1
  StrengthMax = 3
  StrengthBits = 2
  RawReports = {r1, r2}
SPECIFICATION Spec
SYMMETRY Symmetry
INVARIANTS
  MovementConserved
  RestIsSent
  ClosedPenIsAway
  FrameIsOfOneState
  HeldContactHasSlot
  TargetShowsState
PROPERTIES
  KnownToolLeavesRange
CHECK_DEADLOCK FALSE
