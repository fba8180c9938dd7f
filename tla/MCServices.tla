------------------------------ MODULE MCServices ------------------------------
\* The parts of macr that work beside the evidence workbench: the experiment gates, the
\* model adapters, the review orchestrator, the diagnostic stages, the investigation
\* ledger, the completion observer, the viewer's review jobs, the recovery experiment and
\* the continuation of stopped paid batches.
\* No state is shared between them, so each behaviour moves one (focus) while the others
\* rest in their initial state.
EXTENDS StudyStage, EntryCompletion

CONSTANTS
  Focus,
  CallIds, MaxOutput,
  Terms, PlanTerms, PlanTools, Gains,
  Actions, ModelActions, CheckActions, ModelLimit, ToolLimit, CheckLimit, TokenLimit,
  WallLimit, MaxTime,
  Uploads, MaxReports,
  Sheets, MaxControls, MaxPilots, MaxRequests, Approval

VARIABLES
  focus,
  inflight, requests,
  task, step, recall, board, answer, calls, result,
  diagnosis, edited, asked, verdict,
  queue, budget, clock,
  upload, job, dir, ran,
  root, scenario, saved, holder, worker, steps, died,
  batch, spend, trial, paid, locks

\* No process has the name that stands for a free slot or a free lock.
ASSUME CallersAssumption == {"nobody", "unlocked"} \cap Callers = {}

\* A profile bounds every kind of use by a number.
Profile == [model |-> ModelLimit, tool |-> ToolLimit, check |-> CheckLimit, tokens |-> TokenLimit]
ASSUME LimitsAssumption == {ModelLimit, ToolLimit, CheckLimit, TokenLimit} \subseteq Nat

\* A tool call adds a number of positions.
ASSUME GainsAssumption == Gains \subseteq Nat

\* The cells of a batch have an order; its bounds are numbers.
ASSUME SheetsAssumption ==
  Sheets \in SUBSET Nat /\ IsFiniteSet(Sheets) /\ {MaxControls, MaxRequests, Approval} \subseteq Nat

P == INSTANCE Provider WITH Threads <- Callers, calls <- requests
R == INSTANCE ReviewRun
D == INSTANCE Diagnosis
I == INSTANCE Investigation WITH ledger <- budget, Limits <- Profile
J == INSTANCE ReviewJobs
M == INSTANCE MockRecovery WITH Processes <- Callers
C == INSTANCE PolicyRecovery WITH ledger <- spend, MaxUsd <- Approval, Costs <- Charges

providerVars == <<inflight, requests>>
reviewVars == <<task, step, recall, board, answer, calls, result>>
diagnosisVars == <<diagnosis, edited, asked, verdict>>
investigationVars == <<queue, budget, clock>>
jobVars == <<upload, job, dir, ran>>
recoveryVars == <<root, scenario, saved, holder, worker, steps, died>>
pilotVars == <<batch, spend, trial, paid, locks>>
allVars == <<focus, stageVars, providerVars, reviewVars, diagnosisVars, investigationVars,
             completionVars, jobVars, recoveryVars, pilotVars>>

\* The parts that rest are given one of their initial states.
Resting(name, var, value) == focus = name \/ var = value
MCInit ==
  /\ focus \in Focus
  /\ StageInit /\ P!ProviderInit /\ R!ReviewInit /\ D!DiagnosisInit /\ I!InvestigationInit
  /\ CompletionInit /\ J!JobsInit /\ M!RecoveryInit /\ C!PilotsInit
  /\ Resting("stages", kind, "study")
  /\ Resting("completion", bound.limit, MaxInstant)
  /\ Resting("recovery", scenario, "normal")

Others(vars) == UNCHANGED <<focus, vars>>
MCNext ==
  \/ /\ focus = "stages" /\ StageNext
     /\ Others(<<providerVars, reviewVars, diagnosisVars, investigationVars,
                completionVars, jobVars, recoveryVars, pilotVars>>)
  \/ /\ focus = "provider" /\ P!ProviderNext
     /\ Others(<<stageVars, reviewVars, diagnosisVars, investigationVars,
                completionVars, jobVars, recoveryVars, pilotVars>>)
  \/ /\ focus = "review" /\ R!ReviewNext
     /\ Others(<<stageVars, providerVars, diagnosisVars, investigationVars,
                completionVars, jobVars, recoveryVars, pilotVars>>)
  \/ /\ focus = "diagnosis" /\ D!DiagnosisNext
     /\ Others(<<stageVars, providerVars, reviewVars, investigationVars,
                completionVars, jobVars, recoveryVars, pilotVars>>)
  \/ /\ focus = "investigation" /\ I!InvestigationNext
     /\ Others(<<stageVars, providerVars, reviewVars, diagnosisVars,
                completionVars, jobVars, recoveryVars, pilotVars>>)
  \/ /\ focus = "completion" /\ CompletionNext
     /\ Others(<<stageVars, providerVars, reviewVars, diagnosisVars,
                investigationVars, jobVars, recoveryVars, pilotVars>>)
  \/ /\ focus = "jobs" /\ J!JobsNext
     /\ Others(<<stageVars, providerVars, reviewVars, diagnosisVars,
                investigationVars, completionVars, recoveryVars, pilotVars>>)
  \/ /\ focus = "recovery" /\ M!RecoveryNext
     /\ Others(<<stageVars, providerVars, reviewVars, diagnosisVars,
                investigationVars, completionVars, jobVars, pilotVars>>)
  \/ /\ focus = "pilots" /\ C!PilotsNext
     /\ Others(<<stageVars, providerVars, reviewVars, diagnosisVars,
                investigationVars, completionVars, jobVars, recoveryVars>>)

MCSpec == MCInit /\ [][MCNext]_allVars

\* The processes differ in nothing but their name.
CallerSymmetry == Permutations(Callers)

----------------------------------------------------------------------------
\* ConversationValid against its meaning, for every conversation of up to four
\* messages: each call is answered exactly once, by a result with only results in
\* between, each result answers an earlier call, and no id is called twice.
Conversations == UNION {[1..n -> P!Messages] : n \in 1..4}
Calling(m, c) == {i \in DOMAIN m : c \in P!CallsOf(m[i])}
Answering(m, c) == {i \in DOMAIN m : m[i].role = "tool" /\ m[i].id = c}
ASSUME ConversationsMean ==
  \A m \in Conversations :
    P!ConversationValid(m) <=>
      \A c \in CallIds :
        /\ Cardinality(Calling(m, c)) = Cardinality(Answering(m, c))
        /\ Cardinality(Calling(m, c)) <= 1
        /\ \A i \in Calling(m, c), j \in Answering(m, c) :
             i < j /\ \A k \in (i + 1)..j : m[k].role = "tool"

----------------------------------------------------------------------------
\* The parts' own properties, explained where they are defined.
Of(name, property) == focus = name => property
OneInFlight == Of("provider", P!OneInFlight)
ReviewEarned == Of("review", R!ReviewEarned)
UnfinishedIsEscalated == Of("review", R!UnfinishedIsEscalated)
InvestigationRestores == Of("investigation", I!InvestigationRestores)
JobsLeaveNothing == Of("jobs", J!JobsLeaveNothing)
ContinuedWithin == Of("pilots", C!ContinuedWithin)

\* What was done is not done again: neither the two requests of a diagnosis nor the
\* steps of a recovered run.
StepsOnce == Of("diagnosis", D!DiagnosisSpentOnce) /\ Of("recovery", M!MockStepsOnce)
=============================================================================
