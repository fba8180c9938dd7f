------------------------------- MODULE Diagnosis -------------------------------
\* The three diagnostic stages of the orchestrator: retrieve once, ask for one
\* candidate, check it once (orchestrator prepare_diagnostic, diagnostic_candidate,
\* verify_diagnostic; solver _diagnostic_call; evals/diagnostic_compact,
\* diagnostic_verification).  The record is the trace's "diagnosis", which the caller
\* holds, may write down, edit and hand back between any two stages.
EXTENDS Naturals, FiniteSets

VARIABLES
  diagnosis,  \* the record between stages
  edited,     \* parts of it that no longer are what the stage before left
  asked,      \* requests a provider was called with, per stage
  verdict     \* what the verifier said of the candidate, once it could be read

diagnosisVars == <<diagnosis, edited, asked, verdict>>

DiagnosisStages == {"candidate", "verification"}
Parts == {"scope", "protocol", "observations", "request", "candidate", "budget"}
NoVerdict == [said |-> FALSE]

----------------------------------------------------------------------------
\* The check of a candidate

CheckStates == [requirement : {"established", "missing"},
  trigger : {"reachable", "excluded", "unknown"},
  behavior : {"violates", "satisfies", "unknown"},
  protection : {"effective", "ineffective", "absent", "unknown"},
  counterevidence : {"refutes", "does_not_refute", "not_found", "unknown"}]
Verdicts == {"supported_defect", "no_defect_supported", "unknown"}

\* validate_assessment: which verdict the five states and the gaps can carry.
Open5(s) == s.requirement = "missing" \/ \E f \in DOMAIN s : s[f] = "unknown"
Coherent(v, s, gaps) ==
  CASE v = "supported_defect" ->
         /\ s.requirement = "established" /\ s.trigger = "reachable" /\ s.behavior = "violates"
         /\ s.protection \in {"ineffective", "absent"}
         /\ s.counterevidence \in {"does_not_refute", "not_found"} /\ ~gaps
    [] v = "no_defect_supported" ->
         s.requirement = "established" /\ s.behavior = "satisfies" /\ ~Open5(s) /\ ~gaps
    [] v = "unknown" -> Open5(s) /\ gaps
\* An unknown that stands needs a gap the verdict depends on.
Essential(s) ==
  \/ s.requirement = "missing" \/ s.trigger = "unknown" \/ s.behavior = "unknown"
  \/ s.behavior = "violates" /\ "unknown" \in {s.protection, s.counterevidence}

\* States that have to cite a line; REQUIRED_REF_STATES.
MustCite(s) ==
  \/ s.behavior \in {"violates", "satisfies"} \/ s.trigger = "excluded"
  \/ s.protection \in {"effective", "ineffective"} \/ s.counterevidence = "refutes"

\* validate_verification: refused without citations, rejected on a contradiction or an
\* incomplete coverage, accepted otherwise.
Judged(v, s, gaps, cited, complete) ==
  IF MustCite(s) /\ ~cited THEN "failed"
  ELSE IF Coherent(v, s, gaps) /\ (v = "unknown" => Essential(s)) /\ complete THEN "accepted"
  ELSE "rejected"

----------------------------------------------------------------------------
\* Requests and replies

\* restore_scope, the protocol and the observation packet, checked before any status is
\* written; the budget and the candidate are only looked at afterwards.
CandidateRefused == edited \intersect {"scope", "protocol", "observations"} # {}
VerificationRefused == edited \intersect {"scope", "protocol", "observations", "request"} # {}

\* _diagnostic_call: no provider, a budget the request does not fit, or a provider that
\* fails leave no reply; a reply that is cut off, calls tools or breaks its contract is
\* kept but is no answer.
Unanswered == {"no_provider", "budget", "provider"}
Attempt(role, status) == [role |-> role, status |-> status]
Fails(stage, how) ==
  /\ diagnosis' = [diagnosis EXCEPT !.status = "failed",
                     !.attempts = @ \union {Attempt(stage, "failed")}]
  /\ asked' = [asked EXCEPT ![stage] = @ + IF how \in {"no_provider", "budget"} THEN 0 ELSE 1]
  /\ UNCHANGED <<edited, verdict>>

DiagnosisInit ==
  /\ diagnosis = [status |-> "none", candidate |-> "none", final |-> "none", attempts |-> {}]
  /\ edited = {} /\ verdict = NoVerdict
  /\ asked = [stage \in DiagnosisStages |-> 0]

\* prepare_diagnostic: the captured sources, or a failure that is saved as such.
PrepareDiagnostic ==
  /\ diagnosis.status = "none"
  /\ \E status \in {"prepared", "failed"} : diagnosis' = [diagnosis EXCEPT !.status = status]
  /\ UNCHANGED <<edited, asked, verdict>>

\* The caller edits a part, or puts it back.
EditRecord ==
  /\ diagnosis.status \in {"prepared", "candidate_completed"}
  /\ \E part \in Parts :
       /\ part \in {"request", "candidate"} => diagnosis.candidate # "none"
       /\ edited' = IF part \in edited THEN edited \ {part} ELSE edited \union {part}
  /\ UNCHANGED <<diagnosis, asked, verdict>>

\* Mutant: a failed diagnosis may be asked once more.
CandidateDue_Again == diagnosis.status \in {"prepared", "failed"}

\* Only a prepared record is asked about.
CandidateDue == diagnosis.status = "prepared"

\* diagnostic_candidate: refused as it stands, stuck in its running state when the
\* request cannot be built, or one attempt with a verdict or a failure.
DiagnoseCandidate ==
  /\ CandidateDue
  /\ \/ CandidateRefused /\ UNCHANGED diagnosisVars
     \/ /\ ~CandidateRefused /\ "budget" \in edited
        /\ diagnosis' = [diagnosis EXCEPT !.status = "candidate_running"]
        /\ UNCHANGED <<edited, asked, verdict>>
     \/ /\ ~CandidateRefused /\ "budget" \notin edited
        /\ \/ \E how \in Unanswered \union {"reply"} : Fails("candidate", how)
           \/ /\ \E v \in Verdicts :
                   diagnosis' = [diagnosis EXCEPT !.status = "candidate_completed", !.candidate = v,
                                   !.attempts = @ \union {Attempt("candidate", "completed")}]
              /\ asked' = [asked EXCEPT !["candidate"] = @ + 1]
              /\ UNCHANGED <<edited, verdict>>

\* An answer of the verifier decides, unless it breaks its contract.
Decide(s, gaps, cited, complete) ==
  LET outcome == Judged(diagnosis.candidate, s, gaps, cited, complete)
  IN  \/ outcome = "failed" /\ Fails("verification", "reply")
      \/ /\ outcome # "failed"
         /\ diagnosis' = [diagnosis EXCEPT !.status = outcome,
              !.final = IF outcome = "accepted" THEN diagnosis.candidate ELSE "none",
              !.attempts = @ \union {Attempt("verification", "completed")}]
         /\ verdict' = [said |-> TRUE, states |-> s, gaps |-> gaps, complete |-> complete]
         /\ asked' = [asked EXCEPT !["verification"] = @ + 1]
         /\ UNCHANGED edited

\* verify_diagnostic: the same for the check of the candidate.
VerifyDiagnostic ==
  /\ diagnosis.status = "candidate_completed"
  /\ \/ VerificationRefused /\ UNCHANGED diagnosisVars
     \/ /\ ~VerificationRefused /\ edited \intersect {"budget", "candidate"} # {}
        /\ diagnosis' = [diagnosis EXCEPT !.status = "verification_running"]
        /\ UNCHANGED <<edited, asked, verdict>>
     \/ /\ ~VerificationRefused /\ edited \intersect {"budget", "candidate"} = {}
        /\ \/ \E how \in Unanswered \union {"reply"} : Fails("verification", how)
           \/ \E s \in CheckStates, gaps, cited, complete \in BOOLEAN : Decide(s, gaps, cited, complete)

DiagnosisNext == PrepareDiagnostic \/ EditRecord \/ DiagnoseCandidate \/ VerifyDiagnostic

----------------------------------------------------------------------------
\* Whatever the caller does with the record between the stages, each stage asks the
\* model at most once, and a published final went through both: it is the candidate of
\* the first, on which the second said, completely, what no other verdict would fit.
DiagnosisSpentOnce ==
  /\ \A stage \in DiagnosisStages : asked[stage] <= 1
  /\ asked["verification"] = 1 => Attempt("candidate", "completed") \in diagnosis.attempts
  /\ diagnosis.final # "none" =>
       /\ diagnosis.final = diagnosis.candidate
       /\ \A stage \in DiagnosisStages : asked[stage] = 1 /\ Attempt(stage, "completed") \in diagnosis.attempts
       /\ verdict.complete /\ edited = {}
       /\ {v \in Verdicts : Coherent(v, verdict.states, verdict.gaps)} = {diagnosis.final}
=============================================================================
