SPECIFICATION Spec
CONSTANTS
  Runs = {r1}
  Intents = {i1}
  Payloads = {p1}
  RunQuota = 0
  RootLimit = 0
  None = None
INVARIANT StartupIsolates
