SPECIFICATION Spec
CONSTANTS
  Procs = {p1}
  Backends <- SameKind
  Actions = {a1}
  CallLimit = 2
  MaxNotes = 1
  PhasesUsed = {"indexing", "cancelled"}
  MaxEvents = 3
  None = None
INVARIANTS StaysReadable DispatchedOnce
PROPERTY ImplementsJournal
