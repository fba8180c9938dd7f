------------------------------ MODULE ReviewRun ------------------------------
\* One run of the review orchestrator (macr/agents/orchestrator.py: run, run_patch,
\* run_diff_review): planning, routing, retrieval, answering, audit, one bounded
\* recovery, patching, final audit and saving.  Evidence is counted in distinct
\* positions, up to Plenty; a search term is a number.
EXTENDS Naturals, FiniteSets, FiniteSetsExt, Sequences, SequencesExt

CONSTANTS
  Terms,      \* all search terms
  PlanTerms,  \* how many of them a plan asks for
  PlanTools,  \* what tool families a model's plan may keep
  Gains       \* how many new positions one tool call may add

VARIABLES
  task,    \* what was asked and the plan and policy made of it
  step,    \* where the run is
  recall,  \* retrieval: terms to search, searches made, positions, files, misses, failures
  board,   \* the contract sections posted with a complete payload
  answer,  \* the solver's current answer
  calls,   \* solver requests made and recorded, retries, and the answer last audited clean
  result   \* the final audit and what was saved

reviewVars == <<task, step, recall, board, answer, calls, result>>

Plenty == 6          \* the largest number of positions any rule asks for
MinPositions == 3
MissLimit == 4
VisibleEvidence == 8

\* Tool families; an intent the rule planner recognises brings its own.
Families == {"text_search", "ast", "symbol_graph", "git", "test_runner"}
RuleIntents == {"code_qa", "bug_investigation", "test_failure_analysis", "light_patch"}
RuleTools(intent) ==
  {"text_search", "ast", "symbol_graph"}
    \union (IF intent # "code_qa" THEN {"git"} ELSE {})
    \union (IF intent \in {"test_failure_analysis", "light_patch"} THEN {"test_runner"} ELSE {})

\* A plan: its tools, its first terms, and whether intent or risk justify a model.
Plan(wanted, count, risky) ==
  [wanted |-> wanted, terms |-> {t \in Terms : t <= count}, risky |-> risky]
RulePlans ==
  {Plan(RuleTools(i), n, i # "code_qa") : i \in RuleIntents, n \in PlanTerms}
\* LlmPlanner: any tools and risk; an unusable reply falls back to the rules.
ModelPlans == {Plan(w, n, r) : w \in PlanTools, n \in PlanTerms, r \in BOOLEAN} \union RulePlans

----------------------------------------------------------------------------
\* Answers

Answered(status, kind, retryable, cited, covers) ==
  [status |-> status, kind |-> kind, retryable |-> retryable, cited |-> cited, covers |-> covers]
NoAnswer == Answered("none", "none", FALSE, 0, FALSE)
Completed(cited, covers) == Answered("completed", "none", FALSE, cited, covers)
FailedAnswer(kind) == Answered("failed", kind, kind # "provider_error", 0, FALSE)

\* SolverAgent._failure_classification.
ModelFailure(code) ==
  FailedAnswer(CASE code \in {"model_timeout", "model_transport", "model_busy"} -> "transient"
                 [] code \in {"model_output_invalid", "model_output_incomplete"} -> "model_invalid"
                 [] OTHER -> "provider_error")
ProviderCodes == {"model_timeout", "model_output_incomplete", "model_response_invalid"}

\* _parse_answer: a reply cites only evidence it was shown, or it is no answer.
ModelAnswers(found) ==
  {ModelFailure(code) : code \in ProviderCodes \union {"provider_contract"}}
    \union {Completed(k, c) : k \in 0..Min({found, VisibleEvidence}), c \in BOOLEAN}

\* SolverAgent.solve: nothing found, the deterministic answer, or the model's.
Solutions(found, llm) ==
  IF found = 0 THEN {Answered("incomplete", "missing_context", TRUE, 0, FALSE)}
  ELSE IF llm THEN ModelAnswers(found)
  ELSE {Completed(found, c) : c \in BOOLEAN}

----------------------------------------------------------------------------
\* Audits

\* FinalReviewAgent.review over the answer and every tool call so far; the answer's
\* confidence is low below two positions.
Issues(a, r, exotic) ==
  (IF a.status # "completed" THEN {"status"} ELSE {})
    \union (IF a.cited < 2 THEN {"confidence"} ELSE {})
    \union (IF a.cited < MinPositions THEN {"thin"} ELSE {})
    \union (IF r.hard THEN {"tools"} ELSE {})
    \union (IF r.misses >= MissLimit /\ a.cited < Plenty THEN {"recall"} ELSE {})
    \union (IF exotic /\ ~a.covers THEN {"uncovered"} ELSE {})
RetryRecommended(a, issues, retries) ==
  issues # {} /\ retries = 0 /\ (a.status = "completed" \/ a.retryable)
HumanRequired(a, issues, retries) == issues # {} /\ ~RetryRecommended(a, issues, retries)

\* BoardContractValidator: the sections a run may fail to post completely.
Required(mode) ==
  CASE mode = "ask" -> {"repo_map", "retrieval", "retrieval_critique", "code_intelligence", "code_graph"}
    [] mode = "patch" -> {"repo_map", "retrieval", "retrieval_critique", "code_intelligence", "code_graph",
                          "patch", "verification"}
    [] mode = "diff" -> {"repo_map"}
ContractOk(mode) == Required(mode) \subseteq board

\* CodeSmellAgent._severity, in percent of smelly units and the worst hotspot's score.
SmellSeverity(ratio, score) ==
  CASE ratio >= 45 \/ score >= 18 -> "high"
    [] ratio < 45 /\ score < 18 /\ (ratio >= 25 \/ score >= 10) -> "medium"
    [] OTHER -> "low"
Smells == {SmellSeverity(ratio, score) : ratio \in {0, 25, 45}, score \in {0, 10, 18}}

\* DiffReviewAgent._risk_level: comments, breadth, and whether tests were touched.
DiffRisk(severities, wide, untested) ==
  CASE "high" \in severities \/ wide -> "high"
    [] "high" \notin severities /\ ~wide /\ ("medium" \in severities \/ untested) -> "medium"
    [] OTHER -> "low"
DiffRisks == {DiffRisk(s, w, u) : s \in SUBSET {"low", "medium", "high"}, w \in BOOLEAN, u \in BOOLEAN}

----------------------------------------------------------------------------
ReviewInit ==
  /\ task = [mode |-> "none"]
  /\ step = "idle"
  /\ recall = [todo |-> {}, searched |-> [t \in Terms |-> 0], found |-> 0, files |-> FALSE,
               misses |-> 0, hard |-> FALSE]
  /\ board = {} /\ answer = NoAnswer
  /\ calls = [asked |-> 0, recorded |-> 0, retries |-> 0, clean |-> FALSE, audited |-> 0]
  /\ result = [issues |-> {}, human |-> FALSE, outcome |-> "none", saved |-> "no"]

\* _run up to the policy: the plan, and whether the policy grants the solver a model.
AcceptQuestion ==
  /\ step = "idle"
  /\ \E mode \in {"ask", "patch"}, provider, planner, selector, exotic \in BOOLEAN :
       \E plan \in IF provider /\ planner THEN ModelPlans ELSE RulePlans :
         task' = [mode |-> mode, llm |-> provider /\ (mode = "patch" \/ plan.risky), exotic |-> exotic,
                  wanted |-> IF selector THEN plan.wanted ELSE plan.wanted \ {"test_runner"},
                  terms |-> plan.terms]
  /\ step' = "map"
  /\ UNCHANGED <<recall, board, answer, calls, result>>

AcceptDiff ==
  /\ step = "idle"
  /\ task' = [mode |-> "diff"] /\ step' = "map"
  /\ UNCHANGED <<recall, board, answer, calls, result>>

\* RepoMapTool: focus files become candidates; a failed map posts an empty payload.
MapRepository ==
  /\ step = "map"
  /\ \/ /\ board' = board \union {"repo_map"}
        /\ \E focus \in IF task.mode = "diff" THEN {FALSE} ELSE BOOLEAN :
             recall' = [recall EXCEPT !.files = focus]
     \/ /\ recall' = [recall EXCEPT !.hard = TRUE]
        /\ UNCHANGED board
  /\ step' = IF task.mode = "diff" THEN "diff" ELSE "route"
  /\ UNCHANGED <<task, answer, calls, result>>

\* ToolRouterAgent.route fixes the order; what the plan does not want is left out.
Stages == <<"search", "critique", "symbols", "graph", "git", "tests", "smell">>
Needs(stage) ==
  CASE stage = "search" -> "text_search" [] stage = "critique" -> "ast"
    [] stage \in {"symbols", "graph"} -> "symbol_graph"
    [] stage = "git" -> "git" [] stage = "tests" -> "test_runner"
    [] stage = "smell" -> "always"
StageAfter(current) ==
  LET later == {i \in DOMAIN Stages : i > current /\ Needs(Stages[i]) \in task.wanted \union {"always"}}
  IN  Stages[Min(later)]
PlaceOf(stage) == CHOOSE i \in DOMAIN Stages : Stages[i] = stage

Route ==
  /\ step = "route"
  /\ step' = StageAfter(0)
  /\ recall' = [recall EXCEPT !.todo = IF step' = "search" THEN task.terms ELSE {}]
  /\ UNCHANGED <<task, board, answer, calls, result>>

More(found, gain) == Min({found + gain, Plenty})

\* _execute_text_search: matches add positions and files, a miss and a failure add a
\* mark for the audits.  A term's first match always is a new position for an empty store.
SearchText ==
  /\ step \in {"search", "rewrite", "recover"} /\ recall.todo # {}
  /\ \E t \in recall.todo :
       /\ t = Min(recall.todo)
       /\ LET made == [recall EXCEPT !.todo = @ \ {t}, !.searched[t] = @ + 1]
          IN  \/ \E gain \in Gains :
                   /\ recall.found = 0 => gain > 0
                   /\ recall' = [made EXCEPT !.files = TRUE, !.found = More(@, gain)]
              \/ recall' = [made EXCEPT !.misses = @ + 1]
              \/ recall' = [made EXCEPT !.hard = TRUE]
  /\ board' = board \union {"retrieval"}
  /\ UNCHANGED <<task, step, answer, calls, result>>

SearchesDone ==
  /\ step \in {"search", "rewrite", "recover"} /\ recall.todo = {}
  /\ step' = CASE step = "search" -> StageAfter(PlaceOf("search"))
               [] step = "rewrite" -> "parse"
               [] step = "recover" -> "reparse"
  /\ UNCHANGED <<task, recall, board, answer, calls, result>>

\* RetrievalCriticAgent.critique: no files, or many misses, ask for terms not planned.
RewriteWanted(suggested) ==
  ~recall.files \/ (recall.misses >= Max({2, Cardinality(task.terms) \div 2}) /\ suggested # {})
Critique ==
  /\ step = "critique"
  /\ \E suggested \in SUBSET (Terms \ task.terms) :
       /\ Cardinality(suggested) <= 3
       /\ recall' = [recall EXCEPT !.todo = IF RewriteWanted(suggested) THEN suggested ELSE {}]
  /\ board' = board \union {"retrieval_critique"}
  /\ step' = "rewrite"
  /\ UNCHANGED <<task, answer, calls, result>>

\* PythonAstTool over the candidate files; without a Python file nothing is posted.
ParseFiles ==
  /\ step \in {"parse", "reparse"}
  /\ \/ UNCHANGED <<recall, board>>
     \/ /\ recall.files
        /\ \E gain \in Gains, fails \in BOOLEAN :
             recall' = [recall EXCEPT !.found = More(@, gain), !.hard = @ \/ fails]
        /\ board' = board \union {"code_intelligence"}
  /\ step' = IF step = "parse" THEN StageAfter(PlaceOf("critique")) ELSE "solve"
  /\ UNCHANGED <<task, answer, calls, result>>

\* SymbolGraphTool and CodeGraphTool post whether they worked or not.
BuildGraphs ==
  /\ step \in {"symbols", "graph"}
  /\ \/ \E gain \in Gains : recall' = [recall EXCEPT !.found = More(@, gain)]
     \/ recall' = [recall EXCEPT !.hard = TRUE]
  /\ board' = board \union {IF step = "symbols" THEN "code_intelligence" ELSE "code_graph"}
  /\ step' = StageAfter(PlaceOf(step))
  /\ UNCHANGED <<task, answer, calls, result>>

\* GitTool without a frozen commit and TestRunnerTool without a backend only refuse.
ReadHistory ==
  /\ step = "git"
  /\ recall' = [recall EXCEPT !.hard = TRUE]
  /\ board' = board \union {"retrieval"}
  /\ step' = StageAfter(PlaceOf("git"))
  /\ UNCHANGED <<task, answer, calls, result>>
RunTests ==
  /\ step = "tests"
  /\ recall' = [recall EXCEPT !.hard = TRUE]
  /\ board' = board \union {"verification"}
  /\ step' = StageAfter(PlaceOf("tests"))
  /\ UNCHANGED <<task, answer, calls, result>>

\* CodeSmellAgent.analyze; its verdict is read by the final audit only.
ScanSmells ==
  /\ step = "smell"
  /\ \E severity \in Smells : task' = [mode |-> task.mode, llm |-> task.llm, exotic |-> task.exotic,
                                       terms |-> task.terms, smelly |-> severity = "high"]
  /\ step' = "solve"
  /\ UNCHANGED <<recall, board, answer, calls, result>>

\* solve and _record_solver_attempt: every request is recorded, failed or not.
Solve ==
  /\ step = "solve"
  /\ \E a \in Solutions(recall.found, task.llm) : answer' = a
  /\ LET requested == IF task.llm /\ recall.found > 0 THEN 1 ELSE 0
     IN  calls' = [calls EXCEPT !.asked = @ + requested, !.recorded = @ + requested]
  /\ step' = IF calls.retries = 0 THEN "audit" ELSE "authorise"
  /\ UNCHANGED <<task, recall, board, result>>

\* The preliminary audit, and the one recovery it may ask for: the same request, a
\* repaired one, or more evidence first.
AuditAnswer ==
  /\ step = "audit"
  /\ LET issues == Issues(answer, recall, task.exotic)
     IN  IF RetryRecommended(answer, issues, calls.retries)
         THEN /\ calls' = [calls EXCEPT !.retries = 1]
              /\ IF answer.kind \in {"transient", "model_invalid"}
                 THEN step' = "solve" /\ UNCHANGED recall
                 ELSE /\ \E extra \in SUBSET (Terms \ task.terms) :
                           recall' = [recall EXCEPT !.todo =
                             {t \in task.terms \union extra : recall.searched[t] = 0}]
                      /\ step' = "recover"
         ELSE /\ calls' = [calls EXCEPT !.clean = (issues = {}), !.audited = IF issues = {} THEN 1 ELSE 0]
              /\ step' = "authorise" /\ UNCHANGED recall
  /\ UNCHANGED <<task, board, answer, result>>

\* Mutant: a recovered answer is not audited again.
AuthorisePatch_Recovered ==
  /\ step = "authorise"
  /\ LET allowed == answer.status = "completed" /\ (calls.clean \/ calls.retries = 1)
     IN  step' = IF task.mode = "patch" /\ allowed THEN "patch" ELSE "final"
  /\ UNCHANGED <<task, recall, board, answer, calls, result>>

\* Only an answer audited clean may feed a patch; a recovered one is audited again.
AuthorisePatch ==
  /\ step = "authorise"
  /\ LET again == calls.retries = 1 /\ answer.status = "completed"
         clean == Issues(answer, recall, task.exotic) = {}
         allowed == IF again THEN clean ELSE answer.status = "completed" /\ calls.clean
     IN  /\ step' = IF task.mode = "patch" /\ allowed THEN "patch" ELSE "final"
         /\ calls' = IF again /\ clean /\ task.mode = "patch"
                     THEN [calls EXCEPT !.audited = 2] ELSE calls
  /\ UNCHANGED <<task, recall, board, answer, result>>

\* PatchAgent, PatchVerifierTool and PatchRankerAgent.  A verifier without a backend
\* skips an empty diff and blocks any other, so no candidate is ever eligible: the
\* ranker raises, as a missing template file or a reply that is no object do before it.
Checked(diff) == IF diff = "empty" THEN "skipped" ELSE "blocked"
Eligible(diffs) == {d \in diffs : Checked(d) = "passed" /\ d # "empty"}
ProposePatch ==
  /\ step = "patch"
  /\ \E diffs \in SUBSET {"empty", "change"} :
       /\ Eligible(diffs) = {}
       /\ board' = IF diffs = {} THEN board ELSE board \union {"patch"}
       /\ recall' = [recall EXCEPT !.hard = @ \/ "change" \in diffs]
  /\ step' = "aborted"
  /\ UNCHANGED <<task, answer, calls, result>>

\* The deterministic review of a unified diff, its contract and its audit.
ReviewDiff ==
  /\ step = "diff"
  /\ \E risk \in DiffRisks :
       LET bad == (IF risk = "high" THEN {"risk"} ELSE {})
                    \union (IF ContractOk("diff") THEN {} ELSE {"contract"})
       IN  result' = [result EXCEPT !.issues = bad, !.human = bad # {},
                      !.outcome = IF bad = {} THEN "completed" ELSE "needs_review"]
  /\ step' = "save"
  /\ UNCHANGED <<task, recall, board, answer, calls>>

\* The final audit sees the whole run: the current answer, all tool calls, the board's
\* contract and the smell report.
FinalIssues(a, r) ==
  Issues(a, r, task.exotic)
    \union (IF ContractOk(task.mode) THEN {} ELSE {"contract"})
    \union (IF task.smelly THEN {"smell"} ELSE {})

FinalAudit ==
  /\ step = "final"
  /\ LET issues == FinalIssues(answer, recall)
     IN  result' = [result EXCEPT !.issues = issues, !.human = HumanRequired(answer, issues, calls.retries),
                      !.outcome = CASE issues = {} -> "completed"
                                    [] issues # {} /\ answer.status = "failed" -> "failed"
                                    [] OTHER -> "needs_review"]
  /\ step' = "save"
  /\ UNCHANGED <<task, recall, board, answer, calls>>

\* TraceStore.save: the run's own file, then latest.json; either write may fail.
SaveTrace ==
  /\ step = "save"
  /\ \E saved \in {"no", "own", "both"} :
       /\ result' = [result EXCEPT !.saved = saved]
       /\ step' = IF saved = "both" THEN "returned" ELSE "aborted"
  /\ UNCHANGED <<task, recall, board, answer, calls>>

ReviewNext ==
  \/ AcceptQuestion \/ AcceptDiff \/ MapRepository \/ Route \/ SearchText \/ SearchesDone
  \/ Critique \/ ParseFiles \/ BuildGraphs \/ ReadHistory \/ RunTests \/ ScanSmells
  \/ Solve \/ AuditAnswer \/ AuthorisePatch \/ ProposePatch \/ ReviewDiff \/ FinalAudit \/ SaveTrace

----------------------------------------------------------------------------
\* A saved run that calls itself completed stands on an answer with enough positions
\* among those found, on tool calls none of which failed at any time of the run, and
\* on a full board; a patch is only begun from an answer that itself was audited
\* clean, the recovered one included; and whatever path retrieval took, no term was
\* searched twice and each of at most two solver requests is on record.
ReviewEarned ==
  /\ (result.saved # "no" /\ result.outcome = "completed" /\ task.mode # "diff") =>
       /\ answer.status = "completed" /\ answer.cited \in MinPositions..recall.found
       /\ ~recall.hard /\ ContractOk(task.mode) /\ ~result.human
       /\ recall.misses >= MissLimit => answer.cited >= Plenty
  /\ step = "patch" => calls.audited = calls.retries + 1
  /\ \A t \in Terms : recall.searched[t] <= 1
  /\ calls.asked <= 2 /\ calls.recorded = calls.asked

\* A run saved without having completed asks for a human: this is what the upgrade
\* plan promises of runs that still fail after the one automatic recovery.
UnfinishedIsEscalated ==
  (result.saved # "no" /\ result.outcome # "completed") => result.human
=============================================================================
