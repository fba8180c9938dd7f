----------------------------- MODULE MockRecovery -----------------------------
\* The recovery experiment (macr/investigation/mock_recovery.py): a directory owned by
\* one run, a native checkpoint saved after every step, and processes that start it,
\* look at it and resume it, each of which may die between two steps.
EXTENDS Naturals

CONSTANTS
  Processes,
  MaxReports   \* how often a behaviour may repeat the report

VARIABLES
  root,      \* the run's directory: none, made, owned once it is labelled
  scenario,  \* normal, pause after the evidence, or an unknown outcome there
  saved,     \* how far the checkpoint got
  holder,    \* the process that has the writer lock
  worker,    \* what each process is doing
  steps,     \* how often each synthetic step was executed, over all processes
  died       \* a process died before

recoveryVars == <<root, scenario, saved, holder, worker, steps, died>>

Unlocked == "unlocked"

RecoveryInit ==
  /\ root = "none" /\ scenario \in {"normal", "pause", "unknown"}
  /\ saved = "nothing" /\ holder = Unlocked /\ died = FALSE
  /\ worker = [p \in Processes |-> "idle"]
  /\ steps = [evidence |-> 0, report |-> 0]

At(p, place) == worker[p] = place
Goes(p, place) == worker' = [worker EXCEPT ![p] = place]

----------------------------------------------------------------------------
\* Start

\* _owned(new): the directory is made once, then labelled, then locked; a process that
\* looks at the run in between may have the lock.
ClaimRoot(p) ==
  /\ At(p, "idle") /\ root = "none"
  /\ root' = "made" /\ Goes(p, "claimed")
  /\ UNCHANGED <<scenario, saved, holder, steps, died>>
LabelRoot(p) ==
  /\ At(p, "claimed")
  /\ root' = "owned" /\ Goes(p, "labelled")
  /\ UNCHANGED <<scenario, saved, holder, steps, died>>
LockRoot(p) ==
  /\ At(p, "labelled")
  /\ IF holder = Unlocked THEN holder' = p /\ Goes(p, "started")
                          ELSE Goes(p, "idle") /\ UNCHANGED holder
  /\ UNCHANGED <<root, scenario, saved, steps, died>>
SaveInput(p) ==
  /\ At(p, "started")
  /\ saved' = "input" /\ Goes(p, "evidence")
  /\ UNCHANGED <<root, scenario, holder, steps, died>>

----------------------------------------------------------------------------
\* The workflow; the framework saves a step's result before the next one runs.

RunEvidence(p) ==
  /\ At(p, "evidence")
  /\ steps' = [steps EXCEPT !.evidence = @ + 1] /\ Goes(p, "evidence ran")
  /\ UNCHANGED <<root, scenario, saved, holder, died>>
SaveEvidence(p) ==
  /\ At(p, "evidence ran")
  /\ saved' = "evidence" /\ Goes(p, IF scenario = "normal" THEN "report" ELSE "interrupt")
  /\ UNCHANGED <<root, scenario, holder, steps, died>>
SaveInterrupt(p) ==
  /\ At(p, "interrupt")
  /\ saved' = "interrupt" /\ Goes(p, "idle") /\ holder' = Unlocked
  /\ UNCHANGED <<root, scenario, steps, died>>
RunReport(p) ==
  /\ At(p, "report") /\ steps.report < MaxReports
  /\ steps' = [steps EXCEPT !.report = @ + 1] /\ Goes(p, "report ran")
  /\ UNCHANGED <<root, scenario, saved, holder, died>>
SaveReport(p) ==
  /\ At(p, "report ran")
  /\ saved' = "report" /\ Goes(p, "final")
  /\ UNCHANGED <<root, scenario, holder, steps, died>>
SaveFinal(p) ==
  /\ At(p, "final")
  /\ saved' = "final" /\ Goes(p, "idle") /\ holder' = Unlocked
  /\ UNCHANGED <<root, scenario, steps, died>>

----------------------------------------------------------------------------
\* Status and resume

\* _preflight and _view: complete, stopped at the interrupt with exactly the evidence
\* saved, or refused.  After a resume that saved only its answer the framework may
\* still report the interrupt or no longer do so.
Views ==
  CASE saved = "final" -> {"completed"}
    [] saved = "interrupt" -> {IF scenario = "pause" THEN "paused" ELSE "blocked"}
    [] saved = "answer" -> {"paused", "incomplete"}
    [] OTHER -> {"incomplete"}

\* Mutant: a blocked run is resumed like a paused one.
Resumable_Blocked == {"paused", "blocked"}

Resumable == {"paused"}

\* The lock is held while the run is looked at; status and a refused resume write nothing.
Look(p) ==
  /\ At(p, "idle") /\ root = "owned" /\ holder = Unlocked
  /\ holder' = p /\ Goes(p, "looking")
  /\ UNCHANGED <<root, scenario, saved, steps, died>>
Leave(p) ==
  /\ At(p, "looking")
  /\ holder' = Unlocked /\ Goes(p, "idle")
  /\ UNCHANGED <<root, scenario, saved, steps, died>>
Resume(p) ==
  /\ At(p, "looking") /\ Views \intersect Resumable # {}
  /\ saved' = "answer" /\ Goes(p, "report")
  /\ UNCHANGED <<root, scenario, holder, steps, died>>

\* A death drops the lock and keeps what was saved.
Die(p) ==
  /\ worker[p] # "idle"
  /\ Goes(p, "idle") /\ died' = TRUE
  /\ holder' = IF holder = p THEN Unlocked ELSE holder
  /\ UNCHANGED <<root, scenario, saved, steps>>

RecoveryNext ==
  \E p \in Processes :
    \/ ClaimRoot(p) \/ LabelRoot(p) \/ LockRoot(p) \/ SaveInput(p)
    \/ RunEvidence(p) \/ SaveEvidence(p) \/ SaveInterrupt(p) \/ RunReport(p) \/ SaveReport(p) \/ SaveFinal(p)
    \/ Look(p) \/ Leave(p) \/ Resume(p) \/ Die(p)

----------------------------------------------------------------------------
\* However many processes start, look, resume and die: the evidence is produced once,
\* a run whose outcome is unknown never goes on to its report, the report is repeated
\* only after a death, and a saved end stands on both steps.
MockStepsOnce ==
  /\ steps.evidence <= 1
  /\ scenario = "unknown" => steps.report = 0
  /\ steps.report > 1 => died
  /\ saved = "final" => steps.evidence = 1 /\ steps.report >= 1
=============================================================================
