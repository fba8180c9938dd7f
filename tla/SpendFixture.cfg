SPECIFICATION Spec
CONSTANTS
  Batches = {b1}
  Lenient = {}
  Processes = {p1, p2}
  Modes = {"offline", "scripted"}
  CellCount = 1
  ArmRequests <- OneArm
  Reservation = 1
  MaxUsd = 1
  MaxRequests = 1
  Costs = {1}
  None = None
INVARIANT NoFixtureInLiveBatch
CHECK_DEADLOCK FALSE
