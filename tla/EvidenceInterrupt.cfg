SPECIFICATION MCSpec
CONSTANTS
  Focus = {"run"}
  Input = 1
  Output = 1
  PipeSize = 1
  Files = {}
  MaxWrites = 0
  Requests = {}
  Slots = 1
  RateMax = 1
  Second = 1
  MaxTime = 0
PROPERTY CancelKeepsReceipt
CHECK_DEADLOCK FALSE
