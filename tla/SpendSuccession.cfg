SPECIFICATION Spec
CONSTANTS
  Batches = {b1, b2, b3}
  Lenient = {}
  Processes = {p1, p2}
  Modes = {"scripted"}
  CellCount = 1
  ArmRequests <- OneArm
  Reservation = 1
  MaxUsd = 1
  MaxRequests = 1
  Costs = {1}
  None = None
SYMMETRY SpendSymmetry
CONSTRAINT OneBatchSpends
INVARIANT OneSuccessor
CHECK_DEADLOCK FALSE
