SPECIFICATION Spec
CONSTANTS
  Procs = {p1, p2}
  Backends <- OneOfEach
  Actions = {}
  CallLimit = 0
  MaxNotes = 1
  PhasesUsed = {"cancelled"}
  MaxEvents = 1
  None = None
INVARIANT OneBackend
