SPECIFICATION MCSpec
CONSTANTS
  Focus = {"run", "scan", "http"}
  Input = 2
  Output = 3
  PipeSize = 1
  Files = {f1, f2, f3}
  MaxWrites = 3
  Requests = {q1, q2, q3}
  Slots = 2
  RateMax = 2
  Second = 2
  MaxTime = 3
INVARIANTS
  PublishedAfterExit
  ClosedMeansReaped
  
  AdmissionBound
  
CHECK_DEADLOCK FALSE
