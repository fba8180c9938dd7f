SPECIFICATION MCSpec
CONSTANTS
  Focus = {"review"}
  Kinds = {"study", "continuation", "probe", "value", "stage", "pilot"}
  Callers = {p1, p2}
  Roots = {r1, r2}
  Cells = 2
  Decisions = 2
  Prints = {f1, f2}
  Opening = 1
  MaxUsd = 9
  Reservation = 3
  Charges = {2}
  FailLimit = 2
  CallIds = {c1, c2}
  MaxOutput = 2
  Terms = {1, 2, 3, 4}
  PlanTerms = {2}
  PlanTools = {{"text_search", "ast"}, {"ast"}}
  Gains = {0, 3}
  Actions = {model1, read1, check1}
  ModelActions = {model1}
  CheckActions = {check1}
  ModelLimit = 1
  ToolLimit = 2
  CheckLimit = 1
  TokenLimit = 2
  WallLimit = 1
  MaxTime = 1
  MaxPolls = 2
  MaxInstant = 3
  Uploads = {u1, u2}
  MaxReports = 3
  Sheets = {1}
  MaxControls = 1
  MaxPilots = 1
  MaxRequests = 1
  Approval = 3
SYMMETRY CallerSymmetry
INVARIANT UnfinishedIsEscalated
CHECK_DEADLOCK FALSE
