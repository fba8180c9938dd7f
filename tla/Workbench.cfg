SPECIFICATION FairSpec
CONSTANTS
  Runs = {r1, r2}
  Intents = {i1, i2}
  Payloads = {p1}
  RunQuota = 1
  RootLimit = 1
  None = None
INVARIANTS
  TypeOK
  AtMostOneWorker
  SettledMeansClosed
  ReadyMeansCommitted
  CommittedSurvives
  AckedDurable
  RegistryReopens
  StorageBound
PROPERTIES NoDispatchAfterUnknown VerdictStable RunEnds 
