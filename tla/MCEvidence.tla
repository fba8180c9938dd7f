------------------------------ MODULE MCEvidence ------------------------------
\* One call of collect_evidence, one storage scan and one loopback server.  They
\* share nothing, so each behaviour moves one of them (focus) and the others rest.
EXTENDS EvidenceRun, StorageScan, EvidenceHttp

CONSTANT Focus

VARIABLE focus

allVars == <<runVars, scanVars, httpVars, focus>>

MCInit == focus \in Focus /\ RunInit /\ ScanInit /\ HttpInit

MCNext ==
  \/ focus = "run" /\ RunNext /\ UNCHANGED <<scanVars, httpVars, focus>>
  \/ focus = "scan" /\ ScanNext /\ UNCHANGED <<runVars, httpVars, focus>>
  \/ focus = "http" /\ HttpNext /\ UNCHANGED <<runVars, scanVars, focus>>

MCFairness ==
  /\ focus = "run" => RunFairness
  /\ focus = "http" => HttpFairness

MCSpec == MCInit /\ [][MCNext]_allVars /\ MCFairness

\* RunAnswers, where a call is under way.
Answers == focus = "run" => RunAnswers
=============================================================================
