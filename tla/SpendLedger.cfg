SPECIFICATION Spec
CONSTANTS
  Batches = {b1}
  Lenient = {b1}
  Processes = {p1, p2}
  Modes = {"offline", "scripted"}
  CellCount = 2
  ArmRequests <- TwoArms
  Reservation = 2
  MaxUsd = 5
  MaxRequests = 3
  Costs = {1, 2}
  None = None
SYMMETRY ProcessSymmetry
INVARIANTS
  TypeOK
  WithinBudget
  SentOnceReserved
  OneAtWork
  ClosedMeansSettled
PROPERTY NoPostAfterStop
CHECK_DEADLOCK FALSE
