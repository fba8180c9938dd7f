SPECIFICATION Spec
CONSTANTS
  Batches = {b1, b2}
  Lenient = {}
  Processes = {p1, p2}
  Modes = {"scripted", "live"}
  CellCount = 1
  ArmRequests <- OneArm
  Reservation = 2
  MaxUsd = 3
  MaxRequests = 2
  Costs = {1, 2}
  None = None
SYMMETRY SpendSymmetry
INVARIANTS
  BilledWithinBudget
  FilesReadable
CHECK_DEADLOCK FALSE
