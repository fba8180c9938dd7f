----------------------------- MODULE ServicesProofs -----------------------------
(***************************************************************************)
(* Proofs about the parts beside the workbench, each for every value of    *)
(* its constants.  A behaviour of MCSpec moves the part that has the       *)
(* focus; its step is a step of that part's own next-state relation.       *)
(***************************************************************************)
EXTENDS MCServices, SumFacts

(* The focus never changes, and the part that has it makes the step.       *)
LEMMA FocusedStep ==
  ASSUME [MCNext]_allVars
  PROVE  /\ focus' = focus
         /\ focus = "provider" => P!ProviderNext \/ UNCHANGED providerVars
         /\ focus = "diagnosis" => D!DiagnosisNext \/ UNCHANGED diagnosisVars
         /\ focus = "investigation" => I!InvestigationNext \/ UNCHANGED investigationVars
         /\ focus = "jobs" => J!JobsNext \/ UNCHANGED jobVars
         /\ focus = "recovery" => M!RecoveryNext \/ UNCHANGED recoveryVars
         /\ focus = "review" => R!ReviewNext \/ UNCHANGED reviewVars
         /\ focus = "pilots" => C!PilotsNext \/ UNCHANGED pilotVars
  BY DEF MCNext, allVars, Others

--------------------------------------------------------------------------------
(* Review jobs of the viewer                                                 *)

(* A thread's place says what its job is told and what its review came to;  *)
(* a day separates the directories that are swept from those in use.        *)
JobOf(u) ==
  /\ upload[u] \in {"new", "unpacking", "unpacked"} => job[u] = "none" /\ ran[u] = "none"
  /\ upload[u] \in {"queued", "reviewing"} => ran[u] = "none"
  /\ upload[u] = "done" => dir[u] = "none"
  /\ job[u] = "completed" => ran[u] = "ok"
  /\ job[u] \in {"queued", "running"} => ran[u] = "none"
JobsInv ==
  /\ upload \in [Uploads -> {"new", "refused", "lost", "done"} \cup J!Working]
  /\ job \in [Uploads -> {"none", "queued", "running", "completed", "failed"}]
  /\ dir \in [Uploads -> {"none", "fresh", "old"}]
  /\ ran \in [Uploads -> {"none", "ok", "error"}]
  /\ \A u \in Uploads : JobOf(u)
  /\ \A u, v \in Uploads : ~(dir[u] = "old" /\ dir[v] = "fresh")

LEMMA JobsStep ==
  ASSUME JobsInv, J!JobsNext
  PROVE  JobsInv'
<1>1. ASSUME NEW u \in Uploads, J!ReceiveUpload(u) PROVE JobsInv'
  BY <1>1 DEF JobsInv, JobOf, J!ReceiveUpload, J!Working
<1>2. ASSUME NEW u \in Uploads, J!Unpack(u) PROVE JobsInv'
  BY <1>2 DEF JobsInv, JobOf, J!Unpack, J!Working
<1>3. ASSUME NEW u \in Uploads, J!CreateJob(u) PROVE JobsInv'
  BY <1>3 DEF JobsInv, JobOf, J!CreateJob, J!Working
<1>4. ASSUME NEW u \in Uploads, J!BeginReview(u) PROVE JobsInv'
  BY <1>4 DEF JobsInv, JobOf, J!BeginReview, J!Working
<1>5. ASSUME NEW u \in Uploads, J!EndReview(u) PROVE JobsInv'
  BY <1>5 DEF JobsInv, JobOf, J!EndReview, J!Working
<1>6. ASSUME NEW u \in Uploads, J!CleanUp(u) PROVE JobsInv'
  BY <1>6 DEF JobsInv, JobOf, J!CleanUp, J!Working
<1>7. CASE J!DayPasses
  BY <1>7 DEF JobsInv, JobOf, J!DayPasses
<1>8. CASE J!ServerRestarts
  BY <1>8 DEF JobsInv, JobOf, J!ServerRestarts
<1> QED  BY <1>1, <1>2, <1>3, <1>4, <1>5, <1>6, <1>7, <1>8 DEF J!JobsNext

(* viewer.py, _run_web_review_job and _cleanup_expired_uploads: for every    *)
(* number of uploads and restarts, a job told as finished ended that way and *)
(* left no copy of the repository.                                          *)
THEOREM FinishedJobsLeaveNothing == MCSpec => []JobsLeaveNothing
<1> DEFINE Inv == focus = "jobs" => JobsInv
<1>1. MCInit => Inv
  BY DEF MCInit, J!JobsInit, JobsInv, JobOf, J!Working
<1>2. Inv /\ [MCNext]_allVars => Inv'
  <2> SUFFICES ASSUME Inv, [MCNext]_allVars, focus' = "jobs"
               PROVE  JobsInv'
    OBVIOUS
  <2>1. JobsInv /\ (J!JobsNext \/ UNCHANGED jobVars)
    BY FocusedStep
  <2>2. CASE UNCHANGED jobVars
    BY <2>1, <2>2 DEF JobsInv, JobOf, jobVars
  <2> QED  BY <2>1, <2>2, JobsStep
<1>3. Inv => JobsLeaveNothing
  BY DEF JobsLeaveNothing, Of, J!JobsLeaveNothing, JobsInv, JobOf
<1> QED  BY <1>1, <1>2, <1>3, PTL DEF MCSpec

--------------------------------------------------------------------------------
(* The one-slot lock of the local adapter                                    *)

Encoded == [at: {"encoded", "posting"}, adapter: P!Adapters, req: P!Requests]
ProviderInv ==
  /\ requests = [t \in Callers |-> requests[t]]
  /\ \A t \in Callers : requests[t].at \in {"encoded", "posting"} => requests[t] \in Encoded
  /\ inflight \in Callers \cup {P!Nobody}
  /\ P!OneInFlight

LEMMA ProviderStep ==
  ASSUME ProviderInv, P!ProviderNext
  PROVE  ProviderInv'
<1>1. P!Nobody \notin Callers
  BY CallersAssumption DEF P!Nobody
<1>2. ASSUME NEW t \in Callers, NEW r, P!Finish(t, r), requests[t].at # "posting", inflight' = inflight
      PROVE  ProviderInv'
  BY <1>2 DEF P!Finish, ProviderInv, P!OneInFlight
<1>3. ASSUME NEW t \in Callers, NEW r, P!Finish(t, r), P!ReleaseModel(t)
      PROVE  ProviderInv'
  BY <1>1, <1>3 DEF P!Finish, P!ReleaseModel, ProviderInv, P!OneInFlight
<1>4. ASSUME NEW t \in Callers, P!AskModel(t) PROVE ProviderInv'
  <2>1. requests[t].at = "idle" /\ inflight' = inflight
    BY <1>4 DEF P!AskModel
  <2>2. ASSUME NEW adapter \in P!Adapters, NEW req \in P!Requests,
               requests' = [requests EXCEPT ![t] = [at |-> "encoded", adapter |-> adapter, req |-> req]]
        PROVE  ProviderInv'
    <3>1. [at |-> "encoded", adapter |-> adapter, req |-> req] \in Encoded
      BY DEF Encoded
    <3> QED  BY <2>1, <2>2, <3>1 DEF ProviderInv, P!OneInFlight
  <2> QED  BY <1>2, <1>4, <2>1, <2>2 DEF P!AskModel
<1>5. ASSUME NEW t \in Callers, P!AcquireModel(t) PROVE ProviderInv'
  <2>1. requests[t].at = "encoded" /\ requests[t] \in Encoded
    BY <1>5 DEF P!AcquireModel, ProviderInv
  <2>2. CASE requests[t].adapter = "local" /\ inflight # P!Nobody
    BY <1>2, <1>5, <2>1, <2>2 DEF P!AcquireModel
  <2>3. CASE ~(requests[t].adapter = "local" /\ inflight # P!Nobody)
    <3>1. /\ requests' = [requests EXCEPT ![t].at = "posting"]
          /\ inflight' = IF requests[t].adapter = "local" THEN t ELSE inflight
      BY <1>5, <2>3 DEF P!AcquireModel
    <3>2. requests'[t] = [requests[t] EXCEPT !.at = "posting"]
          /\ requests' = [x \in Callers |-> requests'[x]]
          /\ \A x \in Callers \ {t} : requests'[x] = requests[x]
      BY <3>1 DEF ProviderInv
    <3>3. requests'[t] \in Encoded /\ requests'[t].at = "posting" /\ requests'[t].adapter = requests[t].adapter
      BY <2>1, <3>2 DEF Encoded
    <3> QED  BY <1>1, <2>1, <2>3, <3>1, <3>2, <3>3 DEF ProviderInv, P!OneInFlight
  <2> QED  BY <2>2, <2>3
<1>6. ASSUME NEW t \in Callers, P!PostFails(t) PROVE ProviderInv'
  BY <1>3, <1>6 DEF P!PostFails
<1>7. ASSUME NEW t \in Callers, P!PostAnswers(t) PROVE ProviderInv'
  BY <1>3, <1>7 DEF P!PostAnswers
<1>8. ASSUME NEW t \in Callers, P!TakeResult(t) PROVE ProviderInv'
  BY <1>8 DEF P!TakeResult, ProviderInv, P!OneInFlight
<1> QED  BY <1>4, <1>5, <1>6, <1>7, <1>8 DEF P!ProviderNext

(* providers/local_http.py, the lock around the post: for every number of    *)
(* threads the slot is taken exactly while a local request is under way, so  *)
(* two never reach the service together and no way out leaves it busy.       *)
THEOREM OneLocalRequest == MCSpec => []OneInFlight
<1> DEFINE Inv == focus = "provider" => ProviderInv
<1>1. MCInit => Inv
  BY CallersAssumption DEF MCInit, P!ProviderInit, ProviderInv, P!OneInFlight, P!Nobody
<1>2. Inv /\ [MCNext]_allVars => Inv'
  <2> SUFFICES ASSUME Inv, [MCNext]_allVars, focus' = "provider"
               PROVE  ProviderInv'
    OBVIOUS
  <2>1. ProviderInv /\ (P!ProviderNext \/ UNCHANGED providerVars)
    BY FocusedStep
  <2>2. CASE UNCHANGED providerVars
    BY <2>1, <2>2 DEF ProviderInv, P!OneInFlight, providerVars
  <2> QED  BY <2>1, <2>2, ProviderStep
<1>3. Inv => OneInFlight
  BY DEF OneInFlight, Of, ProviderInv
<1> QED  BY <1>1, <1>2, <1>3, PTL DEF MCSpec

--------------------------------------------------------------------------------
(* The diagnostic stages and the recovery experiment                         *)

(* What a status says of the requests made and of the record.               *)
Statuses ==
  {"none", "prepared", "candidate_running", "candidate_completed", "verification_running",
   "failed", "rejected", "accepted"}
Attempts == [role: D!DiagnosisStages, status: {"failed", "completed"}]
Diagnoses ==
  [status: Statuses, candidate: D!Verdicts \cup {"none"}, final: D!Verdicts \cup {"none"},
   attempts: SUBSET Attempts]
DiagnosisInv ==
  /\ diagnosis \in Diagnoses
  /\ edited \subseteq D!Parts
  /\ asked \in [D!DiagnosisStages -> 0..1]
  /\ diagnosis.status \in {"none", "prepared", "candidate_running"} =>
       asked["candidate"] = 0 /\ asked["verification"] = 0
  /\ diagnosis.status \in {"candidate_completed", "verification_running"} =>
       /\ asked["candidate"] = 1 /\ asked["verification"] = 0
       /\ diagnosis.candidate \in D!Verdicts
       /\ D!Attempt("candidate", "completed") \in diagnosis.attempts
  /\ diagnosis.status # "accepted" => diagnosis.final = "none"
  /\ D!DiagnosisSpentOnce

(* An accepted check is complete and fits its verdict, which no other does. *)
LEMMA AcceptedIsCoherent ==
  ASSUME NEW v \in D!Verdicts, NEW s \in D!CheckStates,
         NEW gaps \in BOOLEAN, NEW cited \in BOOLEAN, NEW complete \in BOOLEAN
  PROVE  /\ D!Judged(v, s, gaps, cited, complete) \in {"failed", "rejected", "accepted"}
         /\ D!Judged(v, s, gaps, cited, complete) = "accepted" =>
              complete /\ {w \in D!Verdicts : D!Coherent(w, s, gaps)} = {v}
<1>1. D!Coherent(v, s, gaps) => \A w \in D!Verdicts : D!Coherent(w, s, gaps) => w = v
  <2>1. D!Coherent("supported_defect", s, gaps) => s.behavior = "violates" /\ ~gaps
    BY DEF D!Coherent
  <2>2. D!Coherent("no_defect_supported", s, gaps) => s.behavior = "satisfies" /\ ~gaps
    BY DEF D!Coherent
  <2>3. D!Coherent("unknown", s, gaps) => gaps
    BY DEF D!Coherent
  <2> QED  BY <2>1, <2>2, <2>3 DEF D!Verdicts
<1>2. D!Coherent(v, s, gaps) => {w \in D!Verdicts : D!Coherent(w, s, gaps)} = {v}
  BY <1>1
<1> QED  BY <1>2 DEF D!Judged

(* A step that moves only the status keeps what the status stands on.       *)
LEMMA StatusMoves ==
  ASSUME DiagnosisInv, NEW to \in Statuses \ {"accepted"}, diagnosis.status # "accepted",
         diagnosis' = [diagnosis EXCEPT !.status = to], UNCHANGED <<edited, asked, verdict>>,
         to \in {"none", "prepared", "candidate_running"} => asked["candidate"] = 0 /\ asked["verification"] = 0,
         to \in {"candidate_completed", "verification_running"} => diagnosis.status = "candidate_completed"
  PROVE  DiagnosisInv'
<1>1. diagnosis.final = "none" /\ diagnosis \in Diagnoses
  BY DEF DiagnosisInv
<1>2. /\ diagnosis' \in Diagnoses /\ diagnosis'.status = to /\ diagnosis'.final = "none"
      /\ diagnosis'.candidate = diagnosis.candidate /\ diagnosis'.attempts = diagnosis.attempts
  BY <1>1 DEF Diagnoses
<1> QED  BY <1>2 DEF DiagnosisInv, D!DiagnosisSpentOnce

LEMMA DiagnosisStep ==
  ASSUME DiagnosisInv, D!DiagnosisNext
  PROVE  DiagnosisInv'
<1>1. CASE D!PrepareDiagnostic
  <2>1. diagnosis.status = "none" /\ asked["candidate"] = 0 /\ asked["verification"] = 0
    BY <1>1 DEF D!PrepareDiagnostic, DiagnosisInv
  <2>2. PICK to \in {"prepared", "failed"} : diagnosis' = [diagnosis EXCEPT !.status = to]
    BY <1>1 DEF D!PrepareDiagnostic
  <2> QED  BY <1>1, <2>1, <2>2, StatusMoves DEF D!PrepareDiagnostic, Statuses
<1>2. CASE D!EditRecord
  <2>1. diagnosis.final = "none" /\ diagnosis' = diagnosis /\ asked' = asked /\ verdict' = verdict
    BY <1>2 DEF D!EditRecord, DiagnosisInv
  <2>2. edited' \subseteq D!Parts
    BY <1>2 DEF D!EditRecord, DiagnosisInv
  <2> QED  BY <2>1, <2>2 DEF DiagnosisInv, D!DiagnosisSpentOnce
<1>3. ASSUME NEW stage \in D!DiagnosisStages, NEW how, D!Fails(stage, how),
             asked[stage] = 0, diagnosis.final = "none",
             stage = "verification" => D!Attempt("candidate", "completed") \in diagnosis.attempts
      PROVE  DiagnosisInv'
  <2>1. D!Attempt(stage, "failed") \in Attempts
    BY DEF D!Attempt, Attempts
  <2>2. /\ diagnosis'.status = "failed" /\ diagnosis'.final = "none" /\ diagnosis' \in Diagnoses
        /\ diagnosis.attempts \subseteq diagnosis'.attempts
    <3>1. diagnosis' = [diagnosis EXCEPT !.status = "failed",
                          !.attempts = diagnosis.attempts \cup {D!Attempt(stage, "failed")}]
      BY <1>3 DEF D!Fails
    <3>2. diagnosis \in Diagnoses
      BY DEF DiagnosisInv
    <3> QED  BY <1>3, <2>1, <3>1, <3>2 DEF Diagnoses, Statuses
  <2>3. asked' = [asked EXCEPT ![stage] = 0] \/ asked' = [asked EXCEPT ![stage] = 1]
    <3>1. CASE how \in {"no_provider", "budget"}
      <4>1. asked' = [asked EXCEPT ![stage] = asked[stage] + 0]
        BY <1>3, <3>1 DEF D!Fails
      <4> QED  BY <1>3, <4>1
    <3>2. CASE how \notin {"no_provider", "budget"}
      <4>1. asked' = [asked EXCEPT ![stage] = asked[stage] + 1]
        BY <1>3, <3>2 DEF D!Fails
      <4> QED  BY <1>3, <4>1
    <3> QED  BY <3>1, <3>2
  <2>4. asked' \in [D!DiagnosisStages -> 0..1]
    BY <2>3 DEF DiagnosisInv
  <2>5. asked'["verification"] = 1 => D!Attempt("candidate", "completed") \in diagnosis.attempts
    BY <1>3, <2>3 DEF DiagnosisInv, D!DiagnosisSpentOnce, D!DiagnosisStages
  <2>6. \A x \in D!DiagnosisStages : asked'[x] <= 1
    BY <2>4
  <2>7. D!DiagnosisSpentOnce'
    BY <2>2, <2>5, <2>6 DEF D!DiagnosisSpentOnce, D!DiagnosisStages, D!Attempt
  <2> QED  BY <1>3, <2>2, <2>4, <2>7 DEF D!Fails, DiagnosisInv
<1>4. CASE D!DiagnoseCandidate
  <2>1. diagnosis.status = "prepared" /\ diagnosis.final = "none"
        /\ asked["candidate"] = 0 /\ asked["verification"] = 0
    BY <1>4 DEF D!DiagnoseCandidate, D!CandidateDue, DiagnosisInv
  <2>2. CASE UNCHANGED diagnosisVars
    BY <2>2 DEF diagnosisVars, DiagnosisInv, D!DiagnosisSpentOnce
  <2>3. ASSUME diagnosis' = [diagnosis EXCEPT !.status = "candidate_running"],
               UNCHANGED <<edited, asked, verdict>>
        PROVE  DiagnosisInv'
    BY <2>1, <2>3, StatusMoves DEF Statuses
  <2>4. ASSUME NEW how, D!Fails("candidate", how) PROVE DiagnosisInv'
    BY <1>3, <2>1, <2>4 DEF D!DiagnosisStages
  <2>5. ASSUME NEW v \in D!Verdicts,
               diagnosis' = [diagnosis EXCEPT !.status = "candidate_completed", !.candidate = v,
                               !.attempts = @ \union {D!Attempt("candidate", "completed")}],
               asked' = [asked EXCEPT !["candidate"] = @ + 1], UNCHANGED <<edited, verdict>>
        PROVE  DiagnosisInv'
    <3>1. D!Attempt("candidate", "completed") \in Attempts
      BY DEF D!Attempt, Attempts, D!DiagnosisStages
    <3>2. /\ diagnosis' \in Diagnoses /\ diagnosis'.status = "candidate_completed"
          /\ diagnosis'.candidate = v /\ diagnosis'.final = "none"
          /\ D!Attempt("candidate", "completed") \in diagnosis'.attempts
      BY <2>1, <2>5, <3>1 DEF DiagnosisInv, Diagnoses, Statuses
    <3>3. asked' \in [D!DiagnosisStages -> 0..1] /\ asked'["candidate"] = 1 /\ asked'["verification"] = 0
      BY <2>1, <2>5 DEF DiagnosisInv, D!DiagnosisStages
    <3>4. \A x \in D!DiagnosisStages : asked'[x] <= 1
      BY <3>3
    <3> QED  BY <2>5, <3>2, <3>3, <3>4 DEF DiagnosisInv, D!DiagnosisSpentOnce
  <2> QED  BY <1>4, <2>2, <2>3, <2>4, <2>5 DEF D!DiagnoseCandidate, D!diagnosisVars, diagnosisVars
<1>5. CASE D!VerifyDiagnostic
  <2>1. /\ diagnosis.status = "candidate_completed" /\ diagnosis.final = "none"
        /\ asked["candidate"] = 1 /\ asked["verification"] = 0
        /\ diagnosis.candidate \in D!Verdicts
        /\ D!Attempt("candidate", "completed") \in diagnosis.attempts
    BY <1>5 DEF D!VerifyDiagnostic, DiagnosisInv
  <2>2. CASE UNCHANGED diagnosisVars
    BY <2>2 DEF diagnosisVars, DiagnosisInv, D!DiagnosisSpentOnce
  <2>3. ASSUME diagnosis' = [diagnosis EXCEPT !.status = "verification_running"],
               UNCHANGED <<edited, asked, verdict>>
        PROVE  DiagnosisInv'
    BY <2>1, <2>3, StatusMoves DEF Statuses
  <2>4. ASSUME NEW how, D!Fails("verification", how) PROVE DiagnosisInv'
    BY <1>3, <2>1, <2>4 DEF D!DiagnosisStages
  <2>5. ASSUME ~D!VerificationRefused, edited \cap {"budget", "candidate"} = {},
               NEW s \in D!CheckStates, NEW gaps \in BOOLEAN, NEW cited \in BOOLEAN, NEW complete \in BOOLEAN,
               NEW outcome, outcome = D!Judged(diagnosis.candidate, s, gaps, cited, complete),
               outcome # "failed",
               diagnosis' = [diagnosis EXCEPT !.status = outcome,
                               !.final = IF outcome = "accepted" THEN diagnosis.candidate ELSE "none",
                               !.attempts = @ \union {D!Attempt("verification", "completed")}],
               verdict' = [said |-> TRUE, states |-> s, gaps |-> gaps, complete |-> complete],
               asked' = [asked EXCEPT !["verification"] = @ + 1], UNCHANGED edited
        PROVE  DiagnosisInv'
    <3>1. edited = {}
      BY <2>5 DEF D!VerificationRefused, DiagnosisInv, D!Parts
    <3>2. /\ outcome \in {"rejected", "accepted"}
          /\ outcome = "accepted" =>
               complete /\ {w \in D!Verdicts : D!Coherent(w, s, gaps)} = {diagnosis.candidate}
      BY <2>1, <2>5, AcceptedIsCoherent
    <3>3. verdict'.states = s /\ verdict'.gaps = gaps /\ verdict'.complete = complete
      BY <2>5
    <3>4. D!Attempt("verification", "completed") \in Attempts
      BY DEF D!Attempt, Attempts, D!DiagnosisStages
    <3>5. /\ diagnosis'.status = outcome /\ diagnosis'.candidate = diagnosis.candidate
          /\ diagnosis'.final = IF outcome = "accepted" THEN diagnosis.candidate ELSE "none"
          /\ diagnosis'.attempts = diagnosis.attempts \cup {D!Attempt("verification", "completed")}
          /\ diagnosis' \in Diagnoses
      BY <2>1, <2>5, <3>2, <3>4 DEF DiagnosisInv, Diagnoses, Statuses
    <3>6. asked' \in [D!DiagnosisStages -> 0..1] /\ asked'["candidate"] = 1 /\ asked'["verification"] = 1
      BY <2>1, <2>5 DEF DiagnosisInv, D!DiagnosisStages
    <3>7. \A x \in D!DiagnosisStages : asked'[x] = 1
      BY <3>6 DEF D!DiagnosisStages
    <3>8. \A x \in D!DiagnosisStages : D!Attempt(x, "completed") \in diagnosis'.attempts
      BY <2>1, <3>5 DEF D!DiagnosisStages
    <3>9. CASE outcome = "accepted"
      <4>1. D!DiagnosisSpentOnce'
        BY <2>1, <2>5, <3>1, <3>2, <3>3, <3>5, <3>7, <3>8, <3>9 DEF D!DiagnosisSpentOnce, D!DiagnosisStages
      <4> QED  BY <2>5, <3>1, <3>5, <3>6, <3>9, <4>1 DEF DiagnosisInv
    <3>10. CASE outcome = "rejected"
      <4>1. diagnosis'.final = "none"
        BY <3>5, <3>10
      <4>2. D!DiagnosisSpentOnce'
        BY <3>7, <3>8, <4>1 DEF D!DiagnosisSpentOnce, D!DiagnosisStages
      <4> QED  BY <2>5, <3>1, <3>5, <3>6, <3>10, <4>1, <4>2 DEF DiagnosisInv
    <3> QED  BY <3>2, <3>9, <3>10
  <2>6. ASSUME ~D!VerificationRefused, edited \cap {"budget", "candidate"} = {},
               NEW s \in D!CheckStates, NEW gaps \in BOOLEAN, NEW cited \in BOOLEAN, NEW complete \in BOOLEAN,
               D!Decide(s, gaps, cited, complete)
        PROVE  DiagnosisInv'
    BY <2>4, <2>5, <2>6 DEF D!Decide
  <2> QED  BY <1>5, <2>2, <2>3, <2>4, <2>6 DEF D!VerifyDiagnostic, D!diagnosisVars, diagnosisVars
<1> QED  BY <1>1, <1>2, <1>4, <1>5 DEF D!DiagnosisNext

(* The recovery experiment.  Whoever has the lock is at a place under it;    *)
(* what a process may do there fits what was saved, and a step that is not   *)
(* yet saved was done once more than the checkpoint says only after a death. *)
Places ==
  {"idle", "claimed", "labelled", "started", "evidence", "evidence ran", "interrupt",
   "report", "report ran", "final", "looking"}
Beneath(place) == place \notin {"idle", "claimed", "labelled"}

(* What is saved, or is about to be, when a process is at a place.           *)
Fits(p) ==
  /\ worker[p] = "claimed" => root = "made"
  /\ worker[p] \in {"labelled", "started"} => root = "owned" /\ saved = "nothing"
  /\ worker[p] = "evidence" => saved = "input" /\ steps.evidence = 0
  /\ worker[p] = "evidence ran" => saved = "input" /\ steps.evidence = 1
  /\ worker[p] = "interrupt" => saved = "evidence" /\ scenario # "normal"
  /\ worker[p] \in {"report", "report ran"} =>
       saved = "answer" \/ (saved = "evidence" /\ scenario = "normal")
  /\ worker[p] = "report" => died \/ steps.report = 0
  /\ worker[p] = "report ran" => steps.report >= 1 /\ (died \/ steps.report = 1)
  /\ worker[p] = "final" => saved = "report"

(* What the checkpoint says of the steps.                                   *)
SavedSays ==
  /\ root = "none" => (\A p \in Callers : worker[p] = "idle") /\ saved = "nothing"
  /\ root = "made" => holder = M!Unlocked /\ saved = "nothing"
  /\ saved = "nothing" => steps.evidence = 0
  /\ saved \in {"nothing", "input", "interrupt"} => steps.report = 0
  /\ saved \in {"evidence", "interrupt", "answer", "report", "final"} => steps.evidence = 1
  /\ saved = "interrupt" => scenario # "normal"
  /\ saved = "answer" => scenario = "pause"
  /\ saved = "answer" /\ ~died =>
       holder \in Callers /\ worker[holder] \in {"report", "report ran"}
  /\ saved \in {"report", "final"} => steps.report >= 1
  /\ saved = "evidence" /\ scenario # "normal" => steps.report = 0

RecoveryTyped ==
  /\ root \in {"none", "made", "owned"} /\ scenario \in {"normal", "pause", "unknown"}
  /\ saved \in {"nothing", "input", "evidence", "interrupt", "answer", "report", "final"}
  /\ steps \in [evidence: Nat, report: Nat]
  /\ died \in BOOLEAN

(* The lock has one holder, and one process starts the run.                  *)
Starting == {"claimed", "labelled", "started"}
OneHolder ==
  /\ worker \in [Callers -> Places]
  /\ holder \in Callers \cup {M!Unlocked}
  /\ \A p \in Callers : Beneath(worker[p]) <=> holder = p
  /\ \A p, q \in Callers : worker[p] \in Starting /\ worker[q] \in Starting => p = q
AllFit == \A p \in Callers : Fits(p)

RecoveryInv == RecoveryTyped /\ OneHolder /\ AllFit /\ SavedSays /\ M!MockStepsOnce

LEMMA PlaceChanges ==
  ASSUME OneHolder, NEW p \in Callers, NEW b \in Places, M!Goes(p, b),
         holder' \in {holder, p, M!Unlocked}, Beneath(b) <=> holder' = p,
         holder' # holder => holder \in {p, M!Unlocked},
         b \in Starting => worker[p] \in Starting \/ \A q \in Callers : worker[q] = "idle"
  PROVE  /\ OneHolder' /\ worker'[p] = b
         /\ \A q \in Callers \ {p} : worker'[q] = worker[q]
<1>1. M!Unlocked \notin Callers
  BY CallersAssumption DEF M!Unlocked
<1>2. worker' = [worker EXCEPT ![p] = b] /\ worker \in [Callers -> Places]
  BY DEF M!Goes, OneHolder
<1>3. worker'[p] = b /\ worker' \in [Callers -> Places] /\ \A q \in Callers \ {p} : worker'[q] = worker[q]
  BY <1>2
<1>4. holder' \in Callers \cup {M!Unlocked}
  BY DEF OneHolder
<1>5. ASSUME NEW q \in Callers
      PROVE  Beneath(worker'[q]) <=> holder' = q
  BY <1>1, <1>3, <1>4 DEF OneHolder
<1>6. "idle" \notin Starting
  BY DEF Starting
<1>7. ASSUME NEW q \in Callers, NEW r \in Callers, worker'[q] \in Starting, worker'[r] \in Starting
      PROVE  q = r
  BY <1>3, <1>6, <1>7 DEF OneHolder
<1>8. \A q \in Callers : Beneath(worker[q])' <=> Beneath(worker'[q])
  BY DEF Beneath
<1>9. \A q \in Callers : Beneath(worker[q])' <=> (holder = q)'
  BY <1>5, <1>8
<1> QED  BY <1>3, <1>4, <1>7, <1>9 DEF OneHolder

(* While a process is at work the others wait, idle once anything is saved.  *)
LEMMA OthersWait ==
  ASSUME RecoveryInv, NEW p \in Callers, holder = p, saved # "nothing" \/ worker[p] = "started",
         NEW q \in Callers, q # p
  PROVE  worker[q] = "idle"
<1>1. worker[q] \in {"idle", "claimed", "labelled"}
  BY DEF RecoveryInv, OneHolder, Beneath, Places
<1> QED  BY <1>1 DEF RecoveryInv, OneHolder, Starting, AllFit, Fits, SavedSays

LEMMA RecoveryStep ==
  ASSUME RecoveryInv, M!RecoveryNext
  PROVE  RecoveryInv'
<1>0. M!Unlocked \notin Callers
  BY CallersAssumption DEF M!Unlocked
<1> USE DEF RecoveryInv, RecoveryTyped, Beneath, Places, M!At
<1>1. ASSUME NEW p \in Callers, M!ClaimRoot(p) PROVE RecoveryInv'
  <2>1. OneHolder' /\ worker'[p] = "claimed" /\ \A q \in Callers \ {p} : worker'[q] = worker[q]
    BY <1>0, <1>1, PlaceChanges DEF M!ClaimRoot, OneHolder, Starting, AllFit, Fits, SavedSays
  <2>3. AllFit'
    BY <1>1, <2>1 DEF M!ClaimRoot, AllFit, Fits, SavedSays
  <2>4. SavedSays'
    BY <1>1, <2>1 DEF M!ClaimRoot, AllFit, Fits, SavedSays, OneHolder
  <2> QED  BY <1>1, <2>1, <2>3, <2>4 DEF M!ClaimRoot, SavedSays, AllFit, Fits, M!MockStepsOnce
<1>2. ASSUME NEW p \in Callers, M!LabelRoot(p) PROVE RecoveryInv'
  <2>1. OneHolder' /\ worker'[p] = "labelled" /\ \A q \in Callers \ {p} : worker'[q] = worker[q]
    BY <1>0, <1>2, PlaceChanges DEF M!LabelRoot, OneHolder, Starting
  <2>3. AllFit'
    <3>1. worker[p] = "claimed" /\ \A q \in Callers \ {p} : worker[q] \notin Starting
      BY <1>2 DEF M!LabelRoot, OneHolder, Starting
    <3>2. \A q \in Callers \ {p} : Fits(q)'
      BY <1>2, <2>1, <3>1 DEF M!LabelRoot, AllFit, Fits, Starting
    <3>3. Fits(p)'
      BY <1>2, <2>1, <3>1 DEF M!LabelRoot, AllFit, Fits, SavedSays
    <3> QED  BY <3>2, <3>3 DEF AllFit
  <2>4. SavedSays'
    BY <1>2, <2>1 DEF M!LabelRoot, AllFit, Fits, SavedSays, OneHolder
  <2> QED  BY <1>2, <2>1, <2>3, <2>4 DEF M!LabelRoot, SavedSays, AllFit, Fits, M!MockStepsOnce
<1>3. ASSUME NEW p \in Callers, M!LockRoot(p) PROVE RecoveryInv'
  <2>1. CASE holder = M!Unlocked
    <3>1. OneHolder' /\ worker'[p] = "started" /\ \A q \in Callers \ {p} : worker'[q] = worker[q]
      BY <1>0, <1>3, <2>1, PlaceChanges DEF M!LockRoot, OneHolder, Starting
    <3>2. AllFit'
      BY <1>3, <2>1, <3>1 DEF M!LockRoot, AllFit, Fits
    <3> QED  BY <1>3, <2>1, <3>1, <3>2 DEF M!LockRoot, SavedSays, AllFit, Fits, M!MockStepsOnce
  <2>2. CASE holder # M!Unlocked
    <3>1. OneHolder' /\ worker'[p] = "idle" /\ \A q \in Callers \ {p} : worker'[q] = worker[q]
      BY <1>0, <1>3, <2>2, PlaceChanges DEF M!LockRoot, OneHolder, Starting
    <3>2. AllFit'
      BY <1>3, <2>2, <3>1 DEF M!LockRoot, AllFit, Fits
    <3> QED  BY <1>3, <2>2, <3>1, <3>2 DEF M!LockRoot, SavedSays, AllFit, Fits, M!MockStepsOnce
  <2> QED  BY <2>1, <2>2
<1>4. ASSUME NEW p \in Callers, M!SaveInput(p) PROVE RecoveryInv'
  <2>1. OneHolder' /\ worker'[p] = "evidence" /\ \A q \in Callers \ {p} : worker'[q] = worker[q]
    BY <1>0, <1>4, PlaceChanges DEF M!SaveInput, OneHolder, Starting
  <2>2. \A q \in Callers \ {p} : worker[q] = "idle"
    BY <1>4, OthersWait DEF M!SaveInput, OneHolder, AllFit, Fits
  <2>3. AllFit'
    BY <1>4, <2>1, <2>2 DEF M!SaveInput, AllFit, Fits, SavedSays
  <2>4. SavedSays'
    BY <1>4, <2>1, <2>2 DEF M!SaveInput, AllFit, Fits, SavedSays, OneHolder
  <2> QED  BY <1>4, <2>1, <2>3, <2>4, <2>2 DEF M!SaveInput, SavedSays, AllFit, Fits, M!MockStepsOnce
<1>5. ASSUME NEW p \in Callers, M!RunEvidence(p) PROVE RecoveryInv'
  <2>1. OneHolder' /\ worker'[p] = "evidence ran" /\ \A q \in Callers \ {p} : worker'[q] = worker[q]
    BY <1>0, <1>5, PlaceChanges DEF M!RunEvidence, OneHolder, Starting
  <2>2. \A q \in Callers \ {p} : worker[q] = "idle"
    BY <1>5, OthersWait DEF M!RunEvidence, OneHolder, AllFit, Fits
  <2>5. steps' \in [evidence: Nat, report: Nat] /\ steps'.evidence = steps.evidence + 1 /\ steps'.report = steps.report
    <3>1. steps' = [steps EXCEPT !.evidence = steps.evidence + 1] /\ steps.evidence \in Nat
      BY <1>5 DEF M!RunEvidence
    <3> QED  BY <3>1
  <2>6. worker[p] = "evidence" /\ UNCHANGED <<root, scenario, saved, holder, died>>
    BY <1>5 DEF M!RunEvidence
  <2>7. saved = "input" /\ steps.evidence = 0 /\ steps.report = 0
    BY <2>6 DEF AllFit, Fits, SavedSays
  <2>8. steps'.evidence = 1 /\ steps'.report = 0
    BY <2>5, <2>7
  <2>3. AllFit'
    <3>1. \A q \in Callers \ {p} : Fits(q)'
      BY <2>1, <2>2, <2>6, <2>7, <2>8 DEF AllFit, Fits
    <3>2. Fits(p)'
      BY <2>1, <2>2, <2>6, <2>7, <2>8 DEF AllFit, Fits, SavedSays
    <3> QED  BY <3>1, <3>2 DEF AllFit
  <2>4. SavedSays'
    BY <2>1, <2>2, <2>6, <2>7, <2>8 DEF AllFit, Fits, SavedSays, OneHolder
  <2>9. RecoveryTyped'
    BY <2>5, <2>6
  <2>10. M!MockStepsOnce'
    BY <2>6, <2>7, <2>8 DEF M!MockStepsOnce
  <2> QED  BY <2>1, <2>3, <2>4, <2>9, <2>10
<1>6. ASSUME NEW p \in Callers, M!SaveEvidence(p) PROVE RecoveryInv'
  <2>1. OneHolder' /\ worker'[p] = (IF scenario = "normal" THEN "report" ELSE "interrupt") /\ \A q \in Callers \ {p} : worker'[q] = worker[q]
    BY <1>0, <1>6, PlaceChanges DEF M!SaveEvidence, OneHolder, Starting
  <2>2. \A q \in Callers \ {p} : worker[q] = "idle"
    BY <1>6, OthersWait DEF M!SaveEvidence, OneHolder, AllFit, Fits
  <2>3. AllFit'
    BY <1>6, <2>1, <2>2 DEF M!SaveEvidence, AllFit, Fits, SavedSays
  <2>4. SavedSays'
    BY <1>6, <2>1, <2>2 DEF M!SaveEvidence, AllFit, Fits, SavedSays, OneHolder
  <2> QED  BY <1>6, <2>1, <2>3, <2>4, <2>2 DEF M!SaveEvidence, SavedSays, AllFit, Fits, M!MockStepsOnce
<1>7. ASSUME NEW p \in Callers, M!SaveInterrupt(p) PROVE RecoveryInv'
  <2>1. OneHolder' /\ worker'[p] = "idle" /\ \A q \in Callers \ {p} : worker'[q] = worker[q]
    BY <1>0, <1>7, PlaceChanges DEF M!SaveInterrupt, OneHolder, Starting
  <2>2. \A q \in Callers \ {p} : worker[q] = "idle"
    BY <1>7, OthersWait DEF M!SaveInterrupt, OneHolder, AllFit, Fits
  <2>3. AllFit'
    BY <1>7, <2>1, <2>2 DEF M!SaveInterrupt, AllFit, Fits, SavedSays
  <2>4. SavedSays'
    BY <1>7, <2>1, <2>2 DEF M!SaveInterrupt, AllFit, Fits, SavedSays, OneHolder
  <2> QED  BY <1>7, <2>1, <2>3, <2>4, <2>2 DEF M!SaveInterrupt, SavedSays, AllFit, Fits, M!MockStepsOnce
<1>8. ASSUME NEW p \in Callers, M!RunReport(p) PROVE RecoveryInv'
  <2>1. OneHolder' /\ worker'[p] = "report ran" /\ \A q \in Callers \ {p} : worker'[q] = worker[q]
    BY <1>0, <1>8, PlaceChanges DEF M!RunReport, OneHolder, Starting
  <2>2. \A q \in Callers \ {p} : worker[q] = "idle"
    BY <1>8, OthersWait DEF M!RunReport, OneHolder, AllFit, Fits
  <2>5. steps' \in [evidence: Nat, report: Nat] /\ steps'.report = steps.report + 1 /\ steps'.evidence = steps.evidence
    <3>1. steps' = [steps EXCEPT !.report = steps.report + 1] /\ steps.report \in Nat
      BY <1>8 DEF M!RunReport
    <3> QED  BY <3>1
  <2>6. worker[p] = "report" /\ UNCHANGED <<root, scenario, saved, holder, died>>
    BY <1>8 DEF M!RunReport
  <2>7. saved \in {"evidence", "answer"} /\ (died \/ steps.report = 0) /\ steps.evidence = 1
    BY <2>6 DEF AllFit, Fits, SavedSays
  <2>8. steps.report \in Nat /\ steps'.evidence = 1 /\ steps'.report >= 1 /\ (died \/ steps'.report = 1)
    BY <2>5, <2>7
  <2>9. saved = "answer" \/ (saved = "evidence" /\ scenario = "normal")
    BY <2>6 DEF AllFit, Fits
  <2>10. scenario \in {"normal", "pause"} /\ (saved = "answer" => scenario = "pause")
    BY <2>9 DEF SavedSays
  <2>3. AllFit'
    <3>1. \A q \in Callers \ {p} : Fits(q)'
      BY <2>1, <2>2, <2>6, <2>7, <2>8, <2>9, <2>10 DEF AllFit, Fits
    <3>2. Fits(p)'
      BY <2>1, <2>2, <2>6, <2>7, <2>8, <2>9, <2>10 DEF AllFit, Fits, SavedSays
    <3> QED  BY <3>1, <3>2 DEF AllFit
  <2>4. SavedSays'
    BY <2>1, <2>2, <2>6, <2>7, <2>8, <2>9, <2>10 DEF AllFit, Fits, SavedSays, OneHolder
  <2>11. RecoveryTyped'
    BY <2>5, <2>6
  <2>12. M!MockStepsOnce'
    BY <2>5, <2>6, <2>8, <2>9, <2>10 DEF M!MockStepsOnce
  <2> QED  BY <2>1, <2>3, <2>4, <2>11, <2>12
<1>9. ASSUME NEW p \in Callers, M!SaveReport(p) PROVE RecoveryInv'
  <2>1. OneHolder' /\ worker'[p] = "final" /\ \A q \in Callers \ {p} : worker'[q] = worker[q]
    BY <1>0, <1>9, PlaceChanges DEF M!SaveReport, OneHolder, Starting
  <2>2. \A q \in Callers \ {p} : worker[q] = "idle"
    BY <1>9, OthersWait DEF M!SaveReport, OneHolder, AllFit, Fits
  <2>3. AllFit'
    <3>1. \A q \in Callers \ {p} : Fits(q)'
      BY <1>9, <2>1, <2>2 DEF M!SaveReport, AllFit, Fits
    <3>2. Fits(p)'
      BY <1>9, <2>1, <2>2 DEF M!SaveReport, AllFit, Fits, SavedSays
    <3> QED  BY <3>1, <3>2 DEF AllFit
  <2>4. SavedSays'
    BY <1>9, <2>1, <2>2 DEF M!SaveReport, AllFit, Fits, SavedSays, OneHolder
  <2> QED  BY <1>9, <2>1, <2>3, <2>4, <2>2 DEF M!SaveReport, SavedSays, AllFit, Fits, M!MockStepsOnce
<1>10. ASSUME NEW p \in Callers, M!SaveFinal(p) PROVE RecoveryInv'
  <2>1. OneHolder' /\ worker'[p] = "idle" /\ \A q \in Callers \ {p} : worker'[q] = worker[q]
    BY <1>0, <1>10, PlaceChanges DEF M!SaveFinal, OneHolder, Starting
  <2>2. \A q \in Callers \ {p} : worker[q] = "idle"
    BY <1>10, OthersWait DEF M!SaveFinal, OneHolder, AllFit, Fits
  <2>3. AllFit'
    BY <1>10, <2>1, <2>2 DEF M!SaveFinal, AllFit, Fits, SavedSays
  <2>4. SavedSays'
    BY <1>10, <2>1, <2>2 DEF M!SaveFinal, AllFit, Fits, SavedSays, OneHolder
  <2> QED  BY <1>10, <2>1, <2>3, <2>4, <2>2 DEF M!SaveFinal, SavedSays, AllFit, Fits, M!MockStepsOnce
<1>11. ASSUME NEW p \in Callers, M!Look(p) PROVE RecoveryInv'
  <2>1. OneHolder' /\ worker'[p] = "looking" /\ \A q \in Callers \ {p} : worker'[q] = worker[q]
    BY <1>0, <1>11, PlaceChanges DEF M!Look, OneHolder, Starting
  <2>3. AllFit'
    BY <1>11, <2>1 DEF M!Look, AllFit, Fits, SavedSays
  <2>4. SavedSays'
    BY <1>11, <2>1 DEF M!Look, AllFit, Fits, SavedSays, OneHolder
  <2> QED  BY <1>11, <2>1, <2>3, <2>4 DEF M!Look, SavedSays, AllFit, Fits, M!MockStepsOnce
<1>12. ASSUME NEW p \in Callers, M!Leave(p) PROVE RecoveryInv'
  <2>1. OneHolder' /\ worker'[p] = "idle" /\ \A q \in Callers \ {p} : worker'[q] = worker[q]
    BY <1>0, <1>12, PlaceChanges DEF M!Leave, OneHolder, Starting
  <2>3. AllFit'
    BY <1>12, <2>1 DEF M!Leave, AllFit, Fits, SavedSays
  <2>4. SavedSays'
    BY <1>12, <2>1 DEF M!Leave, AllFit, Fits, SavedSays, OneHolder
  <2> QED  BY <1>12, <2>1, <2>3, <2>4 DEF M!Leave, SavedSays, AllFit, Fits, M!MockStepsOnce
<1>13. ASSUME NEW p \in Callers, M!Resume(p) PROVE RecoveryInv'
  <2>0. saved \in {"interrupt", "answer"} /\ scenario = "pause"
    <3>1. "paused" \in M!Views
      BY <1>13 DEF M!Resume, M!Resumable
    <3>2. saved # "final" /\ saved \notin {"interrupt", "answer"} => M!Views = {"incomplete"}
      BY DEF M!Views
    <3>3. saved = "final" => M!Views = {"completed"}
      BY DEF M!Views
    <3>4. saved = "interrupt" /\ scenario # "pause" => M!Views = {"blocked"}
      BY DEF M!Views
    <3>5. saved \in {"interrupt", "answer"}
      BY <3>1, <3>2, <3>3
    <3>6. saved = "answer" => scenario = "pause"
      BY DEF SavedSays
    <3> QED  BY <3>1, <3>4, <3>5, <3>6
  <2>1. OneHolder' /\ worker'[p] = "report" /\ \A q \in Callers \ {p} : worker'[q] = worker[q]
    BY <1>0, <1>13, PlaceChanges DEF M!Resume, OneHolder, Starting
  <2>2. \A q \in Callers \ {p} : worker[q] = "idle"
    BY <1>13, OthersWait, <2>0 DEF M!Resume, OneHolder, AllFit, Fits
  <2>3. AllFit'
    <3>1. \A q \in Callers \ {p} : Fits(q)'
      BY <1>13, <2>1, <2>0, <2>2 DEF M!Resume, AllFit, Fits
    <3>2. Fits(p)'
      BY <1>13, <2>1, <2>0, <2>2 DEF M!Resume, AllFit, Fits, SavedSays
    <3> QED  BY <3>1, <3>2 DEF AllFit
  <2>4. SavedSays'
    BY <1>13, <2>1, <2>0, <2>2 DEF M!Resume, AllFit, Fits, SavedSays, OneHolder
  <2> QED  BY <1>13, <2>1, <2>3, <2>4, <2>0, <2>2 DEF M!Resume, SavedSays, AllFit, Fits, M!MockStepsOnce
<1>14. ASSUME NEW p \in Callers, M!Die(p) PROVE RecoveryInv'
  <2>1. OneHolder' /\ worker'[p] = "idle" /\ \A q \in Callers \ {p} : worker'[q] = worker[q]
    BY <1>0, <1>14, PlaceChanges DEF M!Die, OneHolder, Starting
  <2>3. AllFit'
    <3>1. \A q \in Callers \ {p} : Fits(q)'
      BY <1>14, <2>1 DEF M!Die, AllFit, Fits
    <3>2. Fits(p)'
      BY <1>14, <2>1 DEF M!Die, AllFit, Fits, SavedSays
    <3> QED  BY <3>1, <3>2 DEF AllFit
  <2>4. SavedSays'
    BY <1>14, <2>1 DEF M!Die, AllFit, Fits, SavedSays, OneHolder
  <2> QED  BY <1>14, <2>1, <2>3, <2>4 DEF M!Die, SavedSays, AllFit, Fits, M!MockStepsOnce
<1> QED
  BY <1>1, <1>2, <1>3, <1>4, <1>5, <1>6, <1>7, <1>8, <1>9, <1>10, <1>11, <1>12, <1>13, <1>14
     DEF M!RecoveryNext

(* Diagnostic stages of the orchestrator and investigation/mock_recovery.py: *)
(* whatever the caller does to the record between the stages, each stage     *)
(* asks once and a final went through both; and however many processes       *)
(* start, resume and die, the evidence is produced once, an unknown outcome  *)
(* is never reported, and the report is repeated only after a death.         *)
THEOREM NothingIsDoneTwice == MCSpec => []StepsOnce
<1> DEFINE Inv == (focus = "diagnosis" => DiagnosisInv) /\ (focus = "recovery" => RecoveryInv)
<1>1. MCInit => Inv
  <2> SUFFICES ASSUME MCInit PROVE DiagnosisInv /\ RecoveryInv
    OBVIOUS
  <2>1. DiagnosisInv
    <3>1. /\ diagnosis = [status |-> "none", candidate |-> "none", final |-> "none", attempts |-> {}]
          /\ edited = {} /\ asked = [stage \in D!DiagnosisStages |-> 0]
      BY DEF MCInit, D!DiagnosisInit
    <3>2. diagnosis \in Diagnoses
      BY <3>1 DEF Diagnoses, Statuses
    <3> QED  BY <3>1, <3>2 DEF DiagnosisInv, D!DiagnosisSpentOnce, D!DiagnosisStages
  <2>2. /\ root = "none" /\ scenario \in {"normal", "pause", "unknown"}
        /\ saved = "nothing" /\ holder = M!Unlocked /\ died = FALSE
        /\ worker = [p \in Callers |-> "idle"]
        /\ steps = [evidence |-> 0, report |-> 0]
    BY DEF MCInit, M!RecoveryInit
  <2>3. OneHolder
    BY <2>2, CallersAssumption DEF OneHolder, Places, Beneath, Starting, M!Unlocked
  <2>4. AllFit
    BY <2>2 DEF AllFit, Fits
  <2>5. SavedSays /\ M!MockStepsOnce
    BY <2>2 DEF SavedSays, M!MockStepsOnce
  <2>6. RecoveryTyped
    BY <2>2 DEF RecoveryTyped
  <2> QED  BY <2>1, <2>3, <2>4, <2>5, <2>6 DEF RecoveryInv
<1>2. Inv /\ [MCNext]_allVars => Inv'
  <2> SUFFICES ASSUME Inv, [MCNext]_allVars
               PROVE  Inv'
    OBVIOUS
  <2>1. ASSUME focus' = "diagnosis" PROVE DiagnosisInv'
    <3>1. DiagnosisInv /\ (D!DiagnosisNext \/ UNCHANGED diagnosisVars)
      BY <2>1, FocusedStep
    <3>2. CASE UNCHANGED diagnosisVars
      BY <3>1, <3>2 DEF DiagnosisInv, D!DiagnosisSpentOnce, diagnosisVars
    <3> QED  BY <3>1, <3>2, DiagnosisStep
  <2>2. ASSUME focus' = "recovery" PROVE RecoveryInv'
    <3>1. RecoveryInv /\ (M!RecoveryNext \/ UNCHANGED recoveryVars)
      BY <2>2, FocusedStep
    <3>2. CASE UNCHANGED recoveryVars
      BY <3>1, <3>2 DEF recoveryVars, RecoveryInv, RecoveryTyped, OneHolder, AllFit, Fits, SavedSays, M!MockStepsOnce
    <3> QED  BY <3>1, <3>2, RecoveryStep
  <2> QED  BY <2>1, <2>2
<1>3. Inv => StepsOnce
  BY DEF StepsOnce, Of, DiagnosisInv, RecoveryInv
<1> QED  BY <1>1, <1>2, <1>3, PTL DEF MCSpec

--------------------------------------------------------------------------------
(* Queue and ledger of an investigation                                      *)

Entries == [id: Actions, lane: I!Lanes, priority: 1..2, order: Nat]
QueueTyped ==
  /\ queue \in [pending: SUBSET Entries, used: [I!Lanes -> [I!ActionKinds -> Nat]],
                seen: SUBSET Actions, observed: SUBSET Actions, dull: Nat,
                released: SUBSET I!Lanes]
  /\ IsFiniteSet(queue.seen) /\ IsFiniteSet(queue.pending)
(* An entry is known by its id and by its place in the order of pushes.       *)
QueueKeyed ==
  /\ queue.observed \subseteq queue.seen
  /\ \A e \in queue.pending : e.id \in queue.seen \ queue.observed /\ e.order \in 1..Cardinality(queue.seen)
  /\ \A e, d \in queue.pending : e.id = d.id \/ e.order = d.order => e = d
UsedUp(used) ==
  used["breadth"]["model"] + used["breadth"]["read"] + used["breadth"]["check"]
    + used["depth"]["model"] + used["depth"]["read"] + used["depth"]["check"]
QueueCounted == Cardinality(queue.seen) = Cardinality(queue.pending) + UsedUp(queue.used)

LedgerTyped ==
  /\ budget.held \in [DOMAIN budget.held -> {"reserved", "settled", "unknown"}]
  /\ budget \in [held: {budget.held}, used: [I!Fields -> Nat], exceeded: BOOLEAN,
                 active: BOOLEAN, seconds: Nat]
(* What is reserved was popped and not yet observed.                          *)
HeldInHand ==
  /\ DOMAIN budget.held \subseteq queue.seen \ I!Waiting
  /\ I!InState(budget.held, "reserved") \cap queue.observed = {}
WithinProfile ==
  ~budget.exceeded =>
    \A f \in I!Fields : budget.used[f] + I!Reserved(budget.held)[f] <= Profile[f]
InvestigationInv ==
  QueueTyped /\ QueueKeyed /\ QueueCounted /\ LedgerTyped /\ HeldInHand /\ WithinProfile

(* What a set of actions reserves of one kind of use.                         *)
Weight(f, held) == SumFunction([a \in held |-> I!Upper(a)[f]])

LEMMA UpperType == \A a : I!Upper(a) \in [I!Fields -> Nat]
BY DEF I!Upper, I!Kind, I!Fields

LEMMA WeightType ==
  ASSUME NEW f \in I!Fields, NEW held, IsFiniteSet(held)
  PROVE  Weight(f, held) \in Nat
<1> DEFINE g == [a \in held |-> I!Upper(a)[f]]
<1>1. g \in [held -> Nat]
  BY UpperType
<1> HIDE DEF g
<1>2. SumFunction(g) \in Nat
  BY <1>1, SumType
<1> QED  BY <1>2 DEF Weight, g

LEMMA WeightMoves ==
  ASSUME NEW f \in I!Fields, NEW held, IsFiniteSet(held), NEW a \in held
  PROVE  /\ Weight(f, held) \in Nat /\ Weight(f, held \ {a}) \in Nat
         /\ Weight(f, held) = I!Upper(a)[f] + Weight(f, held \ {a})
<1> DEFINE g == [b \in held |-> I!Upper(b)[f]]
           h == [b \in held \ {a} |-> I!Upper(b)[f]]
<1>1. g \in [held -> Nat] /\ h \in [held \ {a} -> Nat]
  BY UpperType
<1>2. IsFiniteSet(held \ {a})
  BY FS_Subset
<1>3. SumFunction(g) = g[a] + SumFunction([b \in held \ {a} |-> g[b]])
  <2> HIDE DEF g
  <2> QED  BY <1>1, SumRemove
<1>4. [b \in held \ {a} |-> g[b]] = h /\ g[a] = I!Upper(a)[f]
  OBVIOUS
<1>5. SumFunction(g) \in Nat /\ SumFunction(h) \in Nat
  <2> HIDE DEF g, h
  <2> QED  BY <1>1, <1>2, SumType
<1> HIDE DEF g, h
<1>6. Weight(f, held) = SumFunction(g) /\ Weight(f, held \ {a}) = SumFunction(h)
  BY DEF Weight, g, h
<1> QED  BY <1>3, <1>4, <1>5, <1>6

LEMMA SameSum == ASSUME NEW g PROVE I!SumFunction(g) = SumFunction(g)
BY Zenon DEF I!SumFunction, SumFunction, I!SumFunctionOnSet, SumFunctionOnSet, I!FoldFunctionOnSet, FoldFunctionOnSet,
   I!MapThenFoldSet, MapThenFoldSet

LEMMA SameCount == \A S : I!Cardinality(S) = Cardinality(S)
BY Zenon DEF I!Cardinality, Cardinality

LEMMA ReservedIs ==
  ASSUME NEW held, NEW f \in I!Fields
  PROVE  I!Reserved(held)[f] = Weight(f, I!InState(held, "reserved"))
BY SameSum DEF I!Reserved, Weight

LEMMA MaxOfTwo == \A m, n \in Nat : I!Max({m, n}) \in Nat /\ I!Max({m, n}) >= m
<1> SUFFICES ASSUME NEW m \in Nat, NEW n \in Nat
             PROVE  I!Max({m, n}) \in Nat /\ I!Max({m, n}) >= m
  OBVIOUS
<1>1. \E x \in {m, n} : \A y \in {m, n} : x >= y
  <2>1. CASE m >= n  BY <2>1
  <2>2. CASE ~(m >= n)  BY <2>2
  <2> QED  BY <2>1, <2>2
<1>2. I!Max({m, n}) \in {m, n} /\ \A y \in {m, n} : I!Max({m, n}) >= y
  BY <1>1 DEF I!Max
<1> QED  BY <1>2

LEMMA ChargeType ==
  ASSUME NEW a, NEW actual \in I!Actuals
  PROVE  /\ I!Charge(a, actual) \in [I!Fields -> Nat]
         /\ ~I!Beyond(I!Charge(a, actual), I!Upper(a)) =>
              \A f \in I!Fields : I!Charge(a, actual)[f] <= I!Upper(a)[f]
<1>1. actual.tokens \in Nat /\ I!Upper(a) \in [I!Fields -> Nat]
  BY UpperType DEF I!Actuals
<1>2. I!Charge(a, actual) \in [I!Fields -> Nat]
  BY <1>1, MaxOfTwo DEF I!Charge
<1> QED  BY <1>1, <1>2 DEF I!Beyond

(* The dispatcher has a first among finitely many entries.                    *)
LEMMA FirstExists ==
  ASSUME QueueTyped, QueueKeyed, NEW entries \in SUBSET queue.pending, entries # {}
  PROVE  I!FirstOf(entries) \in entries
<1>1. /\ \A e \in entries : e.priority \in 1..2 /\ e.order \in Nat
      /\ \A e, d \in entries : e.order = d.order => e = d
  BY DEF QueueTyped, QueueKeyed, Entries
<1>2. PICK best \in SUBSET entries :
        /\ best # {} /\ \A e, d \in best : e.priority = d.priority
        /\ \A e \in best, d \in entries \ best : e.priority > d.priority
  <2> DEFINE high == {e \in entries : e.priority = 2}
  <2>1. CASE high = {}
    BY <1>1, <2>1
  <2>2. CASE high # {}
    <3>1. high \in SUBSET entries /\ \A e, d \in high : e.priority = d.priority
      OBVIOUS
    <3>2. \A e \in high, d \in entries \ high : e.priority > d.priority
      BY <1>1
    <3> QED  BY <2>2, <3>1, <3>2
  <2> QED  BY <2>1, <2>2
<1> DEFINE orders == {e.order : e \in best}
<1>3. orders \in SUBSET Nat /\ orders # {}
  BY <1>1, <1>2
<1>4. PICK n \in orders : \A m \in orders : n <= m
  <2> HIDE DEF orders
  <2> QED  BY <1>3, LeastElement
<1>5. PICK e \in best : e.order = n
  BY <1>4
<1>6. ASSUME NEW d \in entries \ {e} PROVE I!Before(e, d)
  <2>1. CASE d \in best
    <3>1. n <= d.order /\ d.order # n
      BY <1>1, <1>2, <1>4, <1>5, <1>6, <2>1
    <3> QED  BY <1>1, <1>2, <1>3, <1>4, <1>5, <2>1, <3>1 DEF I!Before
  <2>2. CASE d \notin best
    BY <1>2, <1>5, <2>2 DEF I!Before
  <2> QED  BY <2>1, <2>2
<1>7. \E x \in entries : \A d \in entries \ {x} : I!Before(x, d)
  BY <1>2, <1>5, <1>6
<1> QED  BY <1>7 DEF I!FirstOf

LEMMA PushKeeps == ASSUME InvestigationInv, I!Push PROVE InvestigationInv'
<1>1. PICK a \in Actions \ queue.seen, lane \in I!Lanes, priority \in 1..2 :
        queue' = [queue EXCEPT
          !.seen = queue.seen \union {a},
          !.pending = queue.pending \union {[id |-> a, lane |-> lane, priority |-> priority,
                                             order |-> Cardinality(queue.seen) + 1]},
          !.released = queue.released \ {lane}]
  BY SameCount, Zenon DEF I!Push
<1> DEFINE size == Cardinality(queue.seen)
           new == [id |-> a, lane |-> lane, priority |-> priority, order |-> size + 1]
<1>2. UNCHANGED budget
  BY DEF I!Push
<1>3. size \in Nat /\ Cardinality(queue.pending) \in Nat
  BY FS_CardinalityType DEF InvestigationInv, QueueTyped
<1>4. /\ queue'.seen = queue.seen \union {a} /\ queue'.pending = queue.pending \union {new}
      /\ queue'.used = queue.used /\ queue'.observed = queue.observed
  BY <1>1 DEF InvestigationInv, QueueTyped
<1>5. new \in Entries /\ new.id = a /\ new.order = size + 1
  BY <1>3 DEF Entries
<1>6. IsFiniteSet(queue'.seen) /\ Cardinality(queue'.seen) = size + 1
  BY <1>1, <1>4, FS_AddElement DEF InvestigationInv, QueueTyped
<1>7. /\ \A e \in queue.pending : e.id # a /\ e.id \in queue.seen \ queue.observed
                                  /\ e.order \in 1..size
      /\ \A e, d \in queue.pending : e.id = d.id \/ e.order = d.order => e = d
  BY DEF InvestigationInv, QueueKeyed
<1> HIDE DEF size, new
<1>8. new \notin queue.pending
  BY <1>5, <1>7
<1>9. IsFiniteSet(queue'.pending) /\ Cardinality(queue'.pending) = Cardinality(queue.pending) + 1
  BY <1>4, <1>8, FS_AddElement DEF InvestigationInv, QueueTyped
<1>10. QueueTyped'
  BY <1>1, <1>4, <1>5, <1>6, <1>9 DEF InvestigationInv, QueueTyped
<1>11. QueueKeyed'
  <2>1. queue'.observed \subseteq queue'.seen /\ a \notin queue.observed
    BY <1>4, <1>1 DEF InvestigationInv, QueueKeyed
  <2>2. ASSUME NEW e \in queue'.pending
        PROVE  e.id \in queue'.seen \ queue'.observed /\ e.order \in 1..Cardinality(queue'.seen)
    BY <1>3, <1>4, <1>5, <1>6, <1>7, <2>1, <2>2
  <2>3. ASSUME NEW e \in queue'.pending, NEW d \in queue'.pending, e.id = d.id \/ e.order = d.order
        PROVE  e = d
    BY <1>3, <1>4, <1>5, <1>7, <2>3
  <2> QED  BY <2>1, <2>2, <2>3 DEF QueueKeyed
<1>12. QueueCounted'
  <2>1. UsedUp(queue'.used) = UsedUp(queue.used) /\ UsedUp(queue.used) \in Nat
    BY <1>4 DEF InvestigationInv, QueueTyped, UsedUp, I!Lanes, I!ActionKinds
  <2> QED  BY <1>3, <1>6, <1>9, <2>1 DEF InvestigationInv, QueueCounted, size
<1>13. HeldInHand'
  BY <1>1, <1>2, <1>4, <1>5 DEF InvestigationInv, HeldInHand, I!Waiting
<1>14. LedgerTyped' /\ WithinProfile'
  BY <1>2 DEF InvestigationInv, LedgerTyped, WithinProfile
<1> QED  BY <1>10, <1>11, <1>12, <1>13, <1>14 DEF InvestigationInv

(* One more of a kind in a lane is one more used up.                          *)
LEMMA UsedUpMoves ==
  ASSUME NEW used \in [I!Lanes -> [I!ActionKinds -> Nat]], NEW lane \in I!Lanes,
         NEW k \in I!ActionKinds, NEW more,
         more = [used EXCEPT ![lane] = [used[lane] EXCEPT ![k] = used[lane][k] + 1]]
  PROVE  more \in [I!Lanes -> [I!ActionKinds -> Nat]] /\ UsedUp(more) = UsedUp(used) + 1
<1>1. \A l \in I!Lanes, m \in I!ActionKinds :
        /\ used[l][m] \in Nat
        /\ more[l][m] = IF l = lane /\ m = k THEN used[l][m] + 1 ELSE used[l][m]
  OBVIOUS
<1>2. more \in [I!Lanes -> [I!ActionKinds -> Nat]]
  <2>1. [used[lane] EXCEPT ![k] = used[lane][k] + 1] \in [I!ActionKinds -> Nat]
    OBVIOUS
  <2> QED  BY <2>1
<1>3. UsedUp(more) = UsedUp(used) + 1
  BY <1>1 DEF UsedUp, I!Lanes, I!ActionKinds
<1> QED  BY <1>2, <1>3

LEMMA PopKeeps == ASSUME InvestigationInv, I!Pop PROVE InvestigationInv'
<1> DEFINE available == {e \in queue.pending : I!Affordable(e)}
           chosen == I!Selected(available)
           k == I!Kind(chosen.id)
<1>1. /\ available # {} /\ UNCHANGED budget
      /\ queue' = [queue EXCEPT !.pending = queue.pending \ {chosen},
                     !.used = [queue.used EXCEPT ![chosen.lane] =
                                [queue.used[chosen.lane] EXCEPT ![k] = queue.used[chosen.lane][k] + 1]],
                     !.released = queue.released \union (I!Lanes \ I!Present(available, k))]
  BY DEF I!Pop
<1>2. chosen \in queue.pending
  <2>1. I!FirstOf(available) \in available
    BY <1>1, FirstExists DEF InvestigationInv
  <2> DEFINE first == I!FirstOf(available)
             others == {e \in available : I!Kind(e.id) = I!Kind(first.id) /\ e.lane # first.lane}
  <2>2. others # {} => I!FirstOf(others) \in others
    BY FirstExists DEF InvestigationInv
  <2>3. chosen = first \/ (others # {} /\ chosen = I!FirstOf(others))
    BY DEF I!Selected
  <2> QED  BY <2>1, <2>2, <2>3
<1> HIDE DEF available, chosen, k
<1>3. chosen.lane \in I!Lanes /\ k \in I!ActionKinds
  BY <1>2 DEF InvestigationInv, QueueTyped, Entries, I!Kind, I!ActionKinds, k
<1>4. /\ queue'.seen = queue.seen /\ queue'.observed = queue.observed
      /\ queue'.pending = queue.pending \ {chosen}
      /\ queue'.used = [queue.used EXCEPT ![chosen.lane] =
                         [queue.used[chosen.lane] EXCEPT ![k] = queue.used[chosen.lane][k] + 1]]
  BY <1>1 DEF InvestigationInv, QueueTyped
<1>5. /\ queue'.used \in [I!Lanes -> [I!ActionKinds -> Nat]]
      /\ UsedUp(queue'.used) = UsedUp(queue.used) + 1
  <2>1. queue.used \in [I!Lanes -> [I!ActionKinds -> Nat]]
    BY DEF InvestigationInv, QueueTyped
  <2> QED  BY <1>3, <1>4, <2>1, UsedUpMoves
<1>6. /\ IsFiniteSet(queue'.pending) /\ Cardinality(queue.pending) \in Nat
      /\ Cardinality(queue'.pending) = Cardinality(queue.pending) - 1
  BY <1>2, <1>4, FS_RemoveElement, FS_CardinalityType DEF InvestigationInv, QueueTyped
<1>7. QueueTyped'
  BY <1>1, <1>4, <1>5, <1>6 DEF InvestigationInv, QueueTyped
<1>8. QueueKeyed'
  BY <1>4 DEF InvestigationInv, QueueKeyed
<1>9. QueueCounted'
  <2>1. UsedUp(queue.used) \in Nat
    BY DEF InvestigationInv, QueueTyped, UsedUp, I!Lanes, I!ActionKinds
  <2> QED  BY <1>4, <1>5, <1>6, <2>1 DEF InvestigationInv, QueueCounted
<1>10. HeldInHand'
  BY <1>1, <1>4 DEF InvestigationInv, HeldInHand, I!Waiting
<1>11. LedgerTyped' /\ WithinProfile'
  BY <1>1 DEF InvestigationInv, LedgerTyped, WithinProfile
<1> QED  BY <1>7, <1>8, <1>9, <1>10, <1>11 DEF InvestigationInv

LEMMA ReserveKeeps == ASSUME InvestigationInv, I!Reserve PROVE InvestigationInv'
<1>1. PICK a \in I!InHand \ DOMAIN budget.held :
        /\ ~I!Exhausted(I!Upper(a))
        /\ budget' = [budget EXCEPT !.held =
             [b \in DOMAIN budget.held \union {a} |-> IF b = a THEN "reserved" ELSE budget.held[b]]]
  BY DEF I!Reserve
<1>2. UNCHANGED queue
  BY DEF I!Reserve
<1> DEFINE old == I!InState(budget.held, "reserved")
           now == I!InState(budget'.held, "reserved")
<1>3. /\ budget'.held = [b \in DOMAIN budget.held \union {a} |->
                           IF b = a THEN "reserved" ELSE budget.held[b]]
      /\ budget'.used = budget.used /\ budget'.exceeded = budget.exceeded
  BY <1>1 DEF InvestigationInv, LedgerTyped
<1>4. a \in queue.seen /\ a \notin queue.observed /\ a \notin I!Waiting /\ a \notin DOMAIN budget.held
  BY <1>1 DEF I!InHand
<1>5. DOMAIN budget'.held = DOMAIN budget.held \union {a}
  BY <1>3
<1>6. LedgerTyped'
  BY <1>1, <1>3, <1>5 DEF InvestigationInv, LedgerTyped
<1>7. now = old \union {a} /\ a \notin old /\ old \subseteq queue.seen
  BY <1>3, <1>4, <1>5 DEF I!InState, InvestigationInv, HeldInHand
<1>8. HeldInHand'
  BY <1>2, <1>4, <1>5, <1>7 DEF InvestigationInv, HeldInHand, I!Waiting
<1>9. WithinProfile'
  <2> SUFFICES ASSUME NEW f \in I!Fields
               PROVE  budget'.used[f] + I!Reserved(budget'.held)[f] <= Profile[f]
    BY DEF WithinProfile
  <2>1. IsFiniteSet(now) /\ now \ {a} = old /\ a \in now
    BY <1>4, <1>7, FS_Subset DEF InvestigationInv, QueueTyped
  <2> HIDE DEF old, now
  <2>2. /\ Weight(f, now) = I!Upper(a)[f] + Weight(f, old)
        /\ Weight(f, old) \in Nat
    <3>1. /\ Weight(f, now) = I!Upper(a)[f] + Weight(f, now \ {a})
          /\ Weight(f, now \ {a}) \in Nat
      BY <2>1, WeightMoves
    <3> QED  BY <2>1, <3>1
  <2>3. I!Reserved(budget.held)[f] = Weight(f, old) /\ I!Reserved(budget'.held)[f] = Weight(f, now)
    BY ReservedIs DEF old, now
  <2>4. ~(budget.used[f] + I!Reserved(budget.held)[f] + I!Upper(a)[f] > Profile[f])
    BY <1>1 DEF I!Exhausted, I!Beyond, I!Plus
  <2>5. I!Upper(a)[f] \in Nat /\ budget.used[f] \in Nat /\ Profile[f] \in Nat
    BY UpperType, LimitsAssumption DEF InvestigationInv, LedgerTyped, Profile, I!Fields
  <2> QED  BY <1>3, <2>2, <2>3, <2>4, <2>5
<1>10. QueueTyped' /\ QueueKeyed' /\ QueueCounted'
  BY <1>2 DEF InvestigationInv, QueueTyped, QueueKeyed, QueueCounted
<1> QED  BY <1>6, <1>8, <1>9, <1>10 DEF InvestigationInv

LEMMA SettleKeeps == ASSUME InvestigationInv, I!Settle PROVE InvestigationInv'
<1>1. PICK a \in I!InState(budget.held, "reserved"), actual \in I!Actuals :
        budget' = [budget EXCEPT
          !.held = [budget.held EXCEPT ![a] = IF actual.known THEN "settled" ELSE "unknown"],
          !.exceeded = budget.exceeded \/ I!Beyond(I!Charge(a, actual), I!Upper(a)),
          !.used = I!Plus(budget.used, I!Charge(a, actual))]
  BY DEF I!Settle
<1>2. UNCHANGED queue
  BY DEF I!Settle
<1> DEFINE charged == I!Charge(a, actual)
           old == I!InState(budget.held, "reserved")
           now == I!InState(budget'.held, "reserved")
<1>3. /\ budget'.held = [budget.held EXCEPT ![a] = IF actual.known THEN "settled" ELSE "unknown"]
      /\ budget'.exceeded = (budget.exceeded \/ I!Beyond(charged, I!Upper(a)))
      /\ budget'.used = I!Plus(budget.used, charged)
      /\ budget'.active = budget.active /\ budget'.seconds = budget.seconds
  BY <1>1 DEF InvestigationInv, LedgerTyped
<1>4. a \in DOMAIN budget.held /\ budget.held[a] = "reserved" /\ DOMAIN budget'.held = DOMAIN budget.held
  BY <1>3 DEF I!InState
<1>5. charged \in [I!Fields -> Nat]
  BY ChargeType
<1> HIDE DEF charged
<1>6. I!Plus(budget.used, charged) \in [I!Fields -> Nat]
  BY <1>5 DEF InvestigationInv, LedgerTyped, I!Plus
<1>7. LedgerTyped'
  <2>1. budget'.held \in [DOMAIN budget'.held -> {"reserved", "settled", "unknown"}]
    BY <1>3, <1>4 DEF InvestigationInv, LedgerTyped
  <2>2. budget'.exceeded \in BOOLEAN
    BY <1>3, Zenon DEF InvestigationInv, LedgerTyped
  <2>3. budget' \in [held: {budget'.held}, used: [I!Fields -> Nat], exceeded: {budget'.exceeded},
                     active: BOOLEAN, seconds: Nat]
    BY <1>1, <1>3, <1>6 DEF InvestigationInv, LedgerTyped
  <2> QED  BY <2>1, <2>2, <2>3 DEF LedgerTyped
<1>8. now = old \ {a} /\ a \in old /\ old \subseteq queue.seen
  BY <1>3, <1>4 DEF I!InState, InvestigationInv, HeldInHand
<1>9. HeldInHand'
  BY <1>2, <1>4, <1>8 DEF InvestigationInv, HeldInHand, I!Waiting
<1>10. WithinProfile'
  <2> SUFFICES ASSUME ~budget'.exceeded, NEW f \in I!Fields
               PROVE  budget'.used[f] + I!Reserved(budget'.held)[f] <= Profile[f]
    BY DEF WithinProfile
  <2>1. IsFiniteSet(old)
    BY <1>8, FS_Subset DEF InvestigationInv, QueueTyped
  <2> HIDE DEF old, now
  <2>2. /\ Weight(f, old) = I!Upper(a)[f] + Weight(f, now)
        /\ Weight(f, now) \in Nat
    BY <1>8, <2>1, WeightMoves
  <2>3. I!Reserved(budget.held)[f] = Weight(f, old) /\ I!Reserved(budget'.held)[f] = Weight(f, now)
    BY ReservedIs DEF old, now
  <2>4. ~budget.exceeded /\ ~I!Beyond(charged, I!Upper(a))
    BY <1>3, Zenon
  <2>5. charged[f] <= I!Upper(a)[f]
    BY <2>4, ChargeType DEF charged
  <2>6. /\ I!Upper(a)[f] \in Nat /\ budget.used[f] \in Nat /\ Profile[f] \in Nat /\ charged[f] \in Nat
        /\ budget'.used[f] = budget.used[f] + charged[f]
    BY <1>3, <1>5, UpperType, LimitsAssumption DEF InvestigationInv, LedgerTyped, Profile, I!Fields, I!Plus
  <2>7. budget.used[f] + I!Reserved(budget.held)[f] <= Profile[f]
    BY <2>4 DEF InvestigationInv, WithinProfile
  <2> QED  BY <2>2, <2>3, <2>5, <2>6, <2>7
<1>11. QueueTyped' /\ QueueKeyed' /\ QueueCounted'
  BY <1>2 DEF InvestigationInv, QueueTyped, QueueKeyed, QueueCounted
<1> QED  BY <1>7, <1>9, <1>10, <1>11 DEF InvestigationInv

LEMMA ObserveKeeps == ASSUME InvestigationInv, I!Observe PROVE InvestigationInv'
<1>1. PICK a \in I!InHand, informative \in BOOLEAN :
        /\ a \in DOMAIN budget.held => budget.held[a] # "reserved"
        /\ queue' = [queue EXCEPT !.observed = queue.observed \union {a},
                                  !.dull = IF informative THEN 0 ELSE queue.dull + 1]
  BY DEF I!Observe
<1>2. UNCHANGED budget
  BY DEF I!Observe
<1>3. /\ queue'.seen = queue.seen /\ queue'.pending = queue.pending /\ queue'.used = queue.used
      /\ queue'.observed = queue.observed \union {a}
  BY <1>1 DEF InvestigationInv, QueueTyped
<1>4. a \in queue.seen /\ \A e \in queue.pending : e.id # a
  BY <1>1 DEF I!InHand, I!Waiting
<1>5. QueueTyped'
  <2>1. (IF informative THEN 0 ELSE queue.dull + 1) \in Nat
    BY DEF InvestigationInv, QueueTyped
  <2>2. queue.observed \union {a} \in SUBSET Actions
    BY <1>4 DEF InvestigationInv, QueueTyped
  <2> QED  BY <1>1, <1>3, <2>1, <2>2 DEF InvestigationInv, QueueTyped
<1>6. QueueKeyed'
  BY <1>3, <1>4 DEF InvestigationInv, QueueKeyed
<1>7. QueueCounted'
  BY <1>3 DEF InvestigationInv, QueueCounted
<1>8. HeldInHand'
  BY <1>1, <1>2, <1>3 DEF InvestigationInv, HeldInHand, I!Waiting, I!InState
<1>9. LedgerTyped' /\ WithinProfile'
  BY <1>2 DEF InvestigationInv, LedgerTyped, WithinProfile
<1> QED  BY <1>5, <1>6, <1>7, <1>8, <1>9 DEF InvestigationInv

(* Time, pauses and restarts move neither what is held nor what was used.     *)
LEMMA ClockKeeps ==
  ASSUME InvestigationInv, I!Pause \/ I!Resume \/ I!Tick \/ I!Restart
  PROVE  InvestigationInv'
<1>1. UNCHANGED queue
  BY DEF I!Pause, I!Resume, I!Tick, I!Restart, I!Passes
<1>2. \/ \E active \in BOOLEAN : budget' = [budget EXCEPT !.active = active]
      \/ \E seconds \in Nat : budget' = [budget EXCEPT !.seconds = seconds]
  <2>1. CASE I!Pause \/ I!Resume
    BY <2>1 DEF I!Pause, I!Resume
  <2>2. CASE I!Tick \/ I!Restart
    <3>1. PICK away \in Nat : I!Passes(away)
      BY <2>2 DEF I!Tick, I!Restart
    <3>2. budget.seconds \in Nat /\ budget.seconds + away \in Nat
      BY <3>1 DEF InvestigationInv, LedgerTyped
    <3>3. budget' = [budget EXCEPT !.seconds = IF budget.active THEN budget.seconds + away
                                               ELSE budget.seconds]
      BY <3>1 DEF I!Passes
    <3> QED  BY <3>2, <3>3
  <2> QED  BY <2>1, <2>2
<1>3. /\ budget'.held = budget.held /\ budget'.used = budget.used
      /\ budget'.exceeded = budget.exceeded /\ LedgerTyped'
  BY <1>2 DEF InvestigationInv, LedgerTyped
<1>4. QueueTyped' /\ QueueKeyed' /\ QueueCounted'
  BY <1>1 DEF InvestigationInv, QueueTyped, QueueKeyed, QueueCounted
<1>5. HeldInHand' /\ WithinProfile'
  BY <1>1, <1>3 DEF InvestigationInv, HeldInHand, WithinProfile, I!Waiting
<1> QED  BY <1>3, <1>4, <1>5 DEF InvestigationInv

LEMMA InvestigationRestoresFrom == ASSUME InvestigationInv PROVE I!InvestigationRestores
<1>1. I!Accepts(queue)
  <2>1. queue.observed \subseteq queue.seen /\ queue.released \subseteq I!Lanes
    BY DEF InvestigationInv, QueueKeyed, QueueTyped
  <2>2. \A e \in queue.pending : e.id \in queue.seen \ queue.observed /\ e.lane \in I!Lanes /\ e.order > 0
    BY DEF InvestigationInv, QueueKeyed, QueueTyped, Entries
  <2>3. \A e, d \in queue.pending : e.id = d.id => e = d
    BY DEF InvestigationInv, QueueKeyed
  <2> DEFINE u(l, k) == queue.used[l][k]
  <2>4. \A l \in I!Lanes, k \in I!ActionKinds : u(l, k) \in Nat
    BY DEF InvestigationInv, QueueTyped
  <2>5. Cardinality(queue.pending) \in Nat
    BY FS_CardinalityType DEF InvestigationInv, QueueTyped
  <2>6. Cardinality(queue.seen) = Cardinality(queue.pending) +
          (u("breadth", "model") + u("breadth", "read") + u("breadth", "check")
            + u("depth", "model") + u("depth", "read") + u("depth", "check"))
    BY DEF InvestigationInv, QueueCounted, UsedUp
  <2> HIDE DEF u
  <2>7. Cardinality(queue.seen) = Cardinality(queue.pending)
          + u("breadth", "model") + u("breadth", "read") + u("breadth", "check")
          + u("depth", "model") + u("depth", "read") + u("depth", "check")
    BY <2>4, <2>5, <2>6 DEF I!Lanes, I!ActionKinds
  <2> USE DEF u
  <2> QED  BY <2>1, <2>2, <2>3, <2>7, SameCount DEF I!Accepts
<1>2. ~budget.exceeded => ~I!Beyond(I!Plus(budget.used, I!Reserved(budget.held)), Profile)
  <2> SUFFICES ASSUME ~budget.exceeded, NEW f \in I!Fields
               PROVE  ~(budget.used[f] + I!Reserved(budget.held)[f] > Profile[f])
    BY DEF I!Beyond, I!Plus
  <2>1. IsFiniteSet(I!InState(budget.held, "reserved"))
    BY FS_Subset DEF InvestigationInv, HeldInHand, QueueTyped, I!InState
  <2>2. budget.used[f] \in Nat /\ Profile[f] \in Nat /\ I!Reserved(budget.held)[f] \in Nat
    <3>1. I!Reserved(budget.held)[f] \in Nat
      BY <2>1, ReservedIs, WeightType
    <3> QED  BY <3>1, LimitsAssumption DEF InvestigationInv, LedgerTyped, Profile, I!Fields
  <2> QED  BY <2>2 DEF InvestigationInv, WithinProfile
<1>3. I!ShouldStop => I!InState(budget.held, "reserved") = {}
  BY DEF InvestigationInv, HeldInHand, I!ShouldStop, I!InState
<1> QED  BY <1>1, <1>2, <1>3 DEF I!InvestigationRestores

(* investigation/queue.py and budget.py: whatever was pushed, popped,        *)
(* reserved, settled, observed and restarted, the records written down now   *)
(* are taken back, a ledger that does not call its bounds exceeded is within *)
(* them with all it still holds, and a queue that calls for a stop holds     *)
(* nothing.                                                                  *)
THEOREM WrittenDownIsTakenBack == MCSpec => []InvestigationRestores
<1> DEFINE Inv == focus = "investigation" => InvestigationInv
<1>1. MCInit => Inv
  <2> SUFFICES ASSUME MCInit PROVE InvestigationInv
    OBVIOUS
  <2>1. /\ queue = [pending |-> {}, used |-> [l \in I!Lanes |-> [k \in I!ActionKinds |-> 0]],
                    seen |-> {}, observed |-> {}, dull |-> 0, released |-> {}]
        /\ budget = [held |-> [a \in {} |-> "reserved"], used |-> [f \in I!Fields |-> 0],
                     exceeded |-> FALSE, active |-> TRUE, seconds |-> 0]
    BY DEF MCInit, I!InvestigationInit, I!EmptyQueue, I!Zero
  <2>2. IsFiniteSet({}) /\ Cardinality({}) = 0
    BY FS_EmptySet
  <2>3. QueueTyped /\ QueueKeyed /\ LedgerTyped /\ HeldInHand
    BY <2>1, <2>2 DEF QueueTyped, QueueKeyed, LedgerTyped, HeldInHand, I!InState, I!Waiting
  <2>4. QueueCounted
    BY <2>1, <2>2 DEF QueueCounted, UsedUp, I!Lanes, I!ActionKinds
  <2>5. WithinProfile
    <3> SUFFICES ASSUME NEW f \in I!Fields
                 PROVE  budget.used[f] + I!Reserved(budget.held)[f] <= Profile[f]
      BY DEF WithinProfile
    <3>1. I!InState(budget.held, "reserved") = {}
      BY <2>1 DEF I!InState
    <3>2. Weight(f, {}) = 0
      <4>1. [a \in {} |-> I!Upper(a)[f]] = [a \in {} |-> 0]
        OBVIOUS
      <4> QED  BY <4>1, <2>2, SumZero DEF Weight
    <3>3. Profile[f] \in Nat
      BY LimitsAssumption DEF Profile, I!Fields
    <3>4. I!Reserved(budget.held)[f] = 0
      BY <3>1, <3>2, ReservedIs
    <3>5. budget.used[f] = 0
      BY <2>1
    <3> QED  BY <3>3, <3>4, <3>5
  <2> QED  BY <2>3, <2>4, <2>5 DEF InvestigationInv
<1>2. Inv /\ [MCNext]_allVars => Inv'
  <2> SUFFICES ASSUME Inv, [MCNext]_allVars, focus' = "investigation"
               PROVE  InvestigationInv'
    OBVIOUS
  <2>1. InvestigationInv /\ (I!InvestigationNext \/ UNCHANGED investigationVars)
    BY FocusedStep
  <2>2. CASE UNCHANGED investigationVars
    <3>1. UNCHANGED <<queue, budget>>
      BY <2>2 DEF investigationVars
    <3> QED  BY <2>1, <3>1 DEF InvestigationInv, QueueTyped, QueueKeyed, QueueCounted, LedgerTyped, HeldInHand,
                               WithinProfile, I!Waiting
  <2> QED  BY <2>1, <2>2, PushKeeps, PopKeeps, ReserveKeeps, SettleKeeps, ObserveKeeps, ClockKeeps
           DEF I!InvestigationNext
<1>3. Inv => InvestigationRestores
  BY InvestigationRestoresFrom DEF InvestigationRestores, Of
<1> QED  BY <1>1, <1>2, <1>3, PTL DEF MCSpec

--------------------------------------------------------------------------------
(* A review                                                                  *)

(* The steps of a question: those that gather, those that answer, the end.   *)
StageSteps == {"search", "critique", "symbols", "graph", "git", "tests", "smell"}
Gathering == {"route", "rewrite", "parse"} \union StageSteps
Replying == {"solve", "audit", "recover", "reparse", "authorise", "patch", "final"}
Ending == {"save", "returned", "aborted"}

RecallTyped ==
  /\ DOMAIN recall = {"todo", "searched", "found", "files", "misses", "hard"}
  /\ recall.todo \subseteq Terms /\ recall.searched \in [Terms -> 0..1]
  /\ recall.found \in 0..R!Plenty
CallsTyped ==
  /\ DOMAIN calls = {"asked", "recorded", "retries", "clean", "audited"}
  /\ calls.asked \in 0..2 /\ calls.recorded = calls.asked
  /\ calls.retries \in 0..1 /\ calls.audited \in 0..2
ReviewTyped ==
  /\ step \in {"idle", "map", "diff"} \union Gathering \union Replying \union Ending
  /\ RecallTyped /\ CallsTyped
  /\ DOMAIN result = {"issues", "human", "outcome", "saved"}
Asked ==
  /\ step \in Gathering \union Replying \/ (step = "map" /\ task.mode # "diff") =>
       task.mode \in {"ask", "patch"} /\ task.terms \subseteq Terms
  /\ step = "diff" => task.mode = "diff"
(* What is still to be searched was not; before the critique only the plan's *)
(* own terms were, and before the first stage none.                          *)
Unsearched ==
  /\ \A t \in recall.todo : recall.searched[t] = 0
  /\ step \in {"idle", "map", "route"} => \A t \in Terms : recall.searched[t] = 0
  /\ step \in {"search", "critique"} =>
       \A t \in Terms \ task.terms : recall.searched[t] = 0 /\ t \notin recall.todo
(* A request for every answer, and one more answer for a recovery.           *)
Requested ==
  /\ step \in {"idle", "map", "diff"} \union Gathering => calls.asked = 0 /\ calls.retries = 0
  /\ step \in {"solve", "recover", "reparse"} => calls.asked <= calls.retries
  /\ step = "audit" => calls.asked <= 1 /\ calls.retries = 0
Audited ==
  /\ step = "authorise" /\ calls.retries = 0 /\ calls.clean => calls.audited = 1
  /\ step = "patch" => calls.audited = calls.retries + 1
Earned ==
  /\ answer.status = "completed" /\ answer.cited \in R!MinPositions..recall.found
  /\ ~recall.hard /\ R!ContractOk(task.mode) /\ ~result.human
  /\ recall.misses >= R!MissLimit => answer.cited >= R!Plenty
Judged ==
  /\ step \notin Ending => result.outcome = "none"
  /\ result.outcome = "completed" /\ task.mode # "diff" => Earned
ReviewInv ==
  /\ ReviewTyped /\ Asked /\ Unsearched /\ Requested /\ Audited
  /\ answer.cited \in 0..recall.found /\ Judged

LEMMA StageAfterIs ==
  /\ R!StageAfter(0) \in StageSteps
  /\ R!StageAfter(R!PlaceOf("search")) \in StageSteps \ {"search"}
  /\ \A s \in {"critique", "symbols", "graph", "git", "tests"} :
       R!StageAfter(R!PlaceOf(s)) \in StageSteps \ {"search", "critique"}
<1>1. /\ DOMAIN R!Stages = 1..7
      /\ R!Stages[1] = "search" /\ R!Stages[2] = "critique" /\ R!Stages[3] = "symbols"
      /\ R!Stages[4] = "graph" /\ R!Stages[5] = "git" /\ R!Stages[6] = "tests" /\ R!Stages[7] = "smell"
  BY DEF R!Stages
<1>2. R!Needs("smell") = "always"
  BY DEF R!Needs
<1>3. ASSUME NEW current \in 0..6
      PROVE  \E i \in 1..7 : i > current /\ R!StageAfter(current) = R!Stages[i]
  <2> DEFINE later == {i \in DOMAIN R!Stages : i > current /\ R!Needs(R!Stages[i]) \in task.wanted \union {"always"}}
  <2>1. later \in SUBSET Nat /\ 7 \in later /\ later \subseteq 1..7
    BY <1>1, <1>2
  <2>2. \A i \in later : i > current
    OBVIOUS
  <2>3. R!StageAfter(current) = R!Stages[R!Min(later)]
    BY DEF R!StageAfter
  <2> HIDE DEF later
  <2>4. \E n \in later : \A m \in later : n <= m
    BY <2>1, LeastElement
  <2>5. R!Min(later) \in later
    BY <2>4 DEF R!Min
  <2> QED  BY <2>1, <2>2, <2>3, <2>5
<1>4. /\ R!PlaceOf("search") = 1 /\ R!PlaceOf("critique") = 2 /\ R!PlaceOf("symbols") = 3
      /\ R!PlaceOf("graph") = 4 /\ R!PlaceOf("git") = 5 /\ R!PlaceOf("tests") = 6
  BY <1>1 DEF R!PlaceOf
<1> HIDE DEF StageSteps
<1>5. \A i \in 1..7 : /\ R!Stages[i] \in StageSteps
                      /\ i > 1 => R!Stages[i] # "search"
                      /\ i > 2 => R!Stages[i] # "critique"
  BY <1>1 DEF StageSteps
<1>6. R!StageAfter(0) \in StageSteps
  BY <1>3, <1>5
<1>7. R!StageAfter(1) \in StageSteps \ {"search"}
  BY <1>3, <1>5
<1>8. \A p \in 2..6 : R!StageAfter(p) \in StageSteps \ {"search", "critique"}
  <2> TAKE p \in 2..6
  <2>1. PICK i \in 1..7 : i > p /\ R!StageAfter(p) = R!Stages[i]
    BY <1>3
  <2> QED  BY <1>5, <2>1
<1>9. ASSUME NEW s \in {"critique", "symbols", "graph", "git", "tests"} PROVE R!PlaceOf(s) \in 2..6
  BY <1>4
<1> QED  BY <1>4, <1>6, <1>7, <1>8, <1>9

LEMMA LesserOfTwo == \A m, n \in Nat : R!Min({m, n}) \in Nat /\ R!Min({m, n}) <= m /\ R!Min({m, n}) <= n
                                       /\ (R!Min({m, n}) = m \/ R!Min({m, n}) = n)
<1> SUFFICES ASSUME NEW m \in Nat, NEW n \in Nat
             PROVE  /\ R!Min({m, n}) \in Nat /\ R!Min({m, n}) <= m /\ R!Min({m, n}) <= n
                    /\ R!Min({m, n}) = m \/ R!Min({m, n}) = n
  OBVIOUS
<1>1. \E x \in {m, n} : \A y \in {m, n} : x <= y
  <2>1. CASE m <= n  BY <2>1
  <2>2. CASE ~(m <= n)  BY <2>2
  <2> QED  BY <2>1, <2>2
<1>2. R!Min({m, n}) \in {m, n} /\ \A y \in {m, n} : R!Min({m, n}) <= y
  BY <1>1 DEF R!Min
<1> QED  BY <1>2

LEMMA MoreIs ==
  ASSUME NEW found \in 0..R!Plenty, NEW gain \in Gains
  PROVE  R!More(found, gain) \in 0..R!Plenty /\ R!More(found, gain) >= found
<1>1. found \in Nat /\ found + gain \in Nat /\ gain \in Nat
  BY GainsAssumption DEF R!Plenty
<1>2. /\ R!More(found, gain) \in Nat /\ R!More(found, gain) <= 6
      /\ R!More(found, gain) = found + gain \/ R!More(found, gain) = 6
  BY <1>1, LesserOfTwo DEF R!More, R!Plenty
<1> QED  BY <1>1, <1>2 DEF R!Plenty

(* While a run gathers, its evidence only grows and nothing is answered.     *)
LEMMA GatheringKeeps ==
  ASSUME ReviewInv, UNCHANGED <<task, answer, calls, result>>, step \notin Ending,
         step' \in {"map", "diff"} \union Gathering \union Replying,
         recall'.found >= recall.found, RecallTyped', Asked', Unsearched', Requested', Audited'
  PROVE  ReviewInv'
<1>1. ReviewTyped'
  BY DEF ReviewInv, ReviewTyped, CallsTyped
<1>2. (answer.cited \in 0..recall.found)'
  BY DEF ReviewInv, ReviewTyped, RecallTyped, R!Plenty
<1>3. Judged'
  <2>1. result'.outcome = "none"
    BY DEF ReviewInv, Judged
  <2> QED  BY <2>1 DEF Judged, Ending, Gathering, StageSteps, Replying
<1> QED  BY <1>1, <1>2, <1>3 DEF ReviewInv

LEMMA AcceptKeeps == ASSUME ReviewInv, R!AcceptQuestion \/ R!AcceptDiff PROVE ReviewInv'
<1>1. /\ step = "idle" /\ step' = "map" /\ UNCHANGED <<recall, board, answer, calls, result>>
  BY DEF R!AcceptQuestion, R!AcceptDiff
<1>2. task'.mode # "diff" => task'.mode \in {"ask", "patch"} /\ task'.terms \subseteq Terms
  <2>1. CASE R!AcceptDiff
    BY <2>1 DEF R!AcceptDiff
  <2>2. CASE R!AcceptQuestion
    <3>1. PICK q \in R!ModelPlans \union R!RulePlans :
            task'.mode \in {"ask", "patch"} /\ task'.terms = q.terms
      BY <2>2 DEF R!AcceptQuestion
    <3>2. q.terms \subseteq Terms
      <4>1. \A w, n, r : R!Plan(w, n, r).terms \subseteq Terms
        BY DEF R!Plan
      <4>2. \E w, n, r : q = R!Plan(w, n, r)
        BY DEF R!ModelPlans, R!RulePlans
      <4> QED  BY <4>1, <4>2
    <3> QED  BY <3>1, <3>2
  <2> QED  BY <2>1, <2>2
<1>3. ReviewTyped' /\ Requested' /\ Audited'
  BY <1>1 DEF ReviewInv, ReviewTyped, RecallTyped, CallsTyped, Requested, Audited, Gathering, StageSteps, Replying
<1>4. Asked'
  BY <1>1, <1>2 DEF Asked, Gathering, StageSteps, Replying
<1>5. Unsearched'
  BY <1>1 DEF ReviewInv, Unsearched
<1>6. (answer.cited \in 0..recall.found)' /\ Judged'
  BY <1>1 DEF ReviewInv, Judged, Ending
<1> QED  BY <1>3, <1>4, <1>5, <1>6 DEF ReviewInv

LEMMA MapKeeps == ASSUME ReviewInv, R!MapRepository PROVE ReviewInv'
<1>1. /\ step = "map" /\ step' = (IF task.mode = "diff" THEN "diff" ELSE "route")
      /\ UNCHANGED <<task, answer, calls, result>>
  BY DEF R!MapRepository
<1>2. (\E named \in BOOLEAN : recall' = [recall EXCEPT !.files = named])
        \/ recall' = [recall EXCEPT !.hard = TRUE]
  <2>1. CASE recall' = [recall EXCEPT !.hard = TRUE]
    BY <2>1
  <2>2. CASE \E named \in IF task.mode = "diff" THEN {FALSE} ELSE BOOLEAN : recall' = [recall EXCEPT !.files = named]
    BY <2>2
  <2> QED  BY <2>1, <2>2 DEF R!MapRepository
<1>3. RecallTyped' /\ recall'.found = recall.found /\ recall'.todo = recall.todo
      /\ recall'.searched = recall.searched
  BY <1>2 DEF ReviewInv, ReviewTyped, RecallTyped
<1>4. Asked'
  BY <1>1 DEF ReviewInv, Asked, Gathering, StageSteps, Replying
<1>5. Unsearched'
  BY <1>1, <1>3 DEF ReviewInv, Unsearched
<1>6. Requested' /\ Audited'
  BY <1>1 DEF ReviewInv, Requested, Audited, Gathering, StageSteps
<1>7. recall'.found >= recall.found
  BY <1>3 DEF ReviewInv, ReviewTyped, RecallTyped, R!Plenty
<1>8. step \notin Ending /\ step' \in {"map", "diff"} \union Gathering \union Replying
  BY <1>1 DEF Ending, Gathering
<1> QED  BY <1>1, <1>3, <1>4, <1>5, <1>6, <1>7, <1>8, GatheringKeeps

LEMMA RouteKeeps == ASSUME ReviewInv, R!Route PROVE ReviewInv'
<1>1. /\ step = "route" /\ step' \in StageSteps /\ UNCHANGED <<task, answer, calls, result>>
      /\ recall' = [recall EXCEPT !.todo = IF step' = "search" THEN task.terms ELSE {}]
  BY StageAfterIs DEF R!Route
<1>2. task.terms \subseteq Terms /\ \A t \in Terms : recall.searched[t] = 0
  BY <1>1 DEF ReviewInv, Asked, Unsearched, Gathering
<1>3. /\ RecallTyped' /\ recall'.found = recall.found /\ recall'.searched = recall.searched
      /\ recall'.todo \subseteq task.terms
  BY <1>1, <1>2 DEF ReviewInv, ReviewTyped, RecallTyped
<1>4. Asked'
  BY <1>1 DEF ReviewInv, Asked, Gathering, StageSteps, Replying
<1>5. Unsearched'
  BY <1>1, <1>2, <1>3 DEF Unsearched, StageSteps
<1>6. Requested' /\ Audited'
  BY <1>1 DEF ReviewInv, Requested, Audited, Gathering, StageSteps
<1>7. recall'.found >= recall.found
  BY <1>3 DEF ReviewInv, ReviewTyped, RecallTyped, R!Plenty
<1>8. step \notin Ending /\ step' \in {"map", "diff"} \union Gathering \union Replying
  BY <1>1 DEF Ending, Gathering
<1> QED  BY <1>1, <1>3, <1>4, <1>5, <1>6, <1>7, <1>8, GatheringKeeps

LEMMA SearchKeeps == ASSUME ReviewInv, R!SearchText PROVE ReviewInv'
<1>1. /\ step \in {"search", "rewrite", "recover"} /\ step' = step
      /\ UNCHANGED <<task, answer, calls, result>>
  BY DEF R!SearchText
<1>2. PICK t \in recall.todo :
        /\ DOMAIN recall' = DOMAIN recall /\ recall'.todo = recall.todo \ {t}
        /\ recall'.searched = [recall.searched EXCEPT ![t] = recall.searched[t] + 1]
        /\ recall'.found = recall.found \/ \E gain \in Gains : recall'.found = R!More(recall.found, gain)
  BY DEF R!SearchText, ReviewInv, ReviewTyped, RecallTyped
<1>4. /\ recall'.searched \in [Terms -> 0..1]
      /\ \A u \in Terms \ {t} : recall'.searched[u] = recall.searched[u]
  BY <1>2 DEF ReviewInv, ReviewTyped, RecallTyped, Unsearched
<1>6. recall.found \in 0..R!Plenty
  BY DEF ReviewInv, ReviewTyped, RecallTyped
<1>7. recall'.found \in 0..R!Plenty /\ recall'.found >= recall.found
  <2>1. CASE recall'.found = recall.found
    BY <1>6, <2>1 DEF R!Plenty
  <2>2. CASE \E gain \in Gains : recall'.found = R!More(recall.found, gain)
    BY <1>6, <2>2, MoreIs
  <2> QED  BY <1>2, <2>1, <2>2
<1>8. RecallTyped'
  BY <1>2, <1>4, <1>7 DEF ReviewInv, ReviewTyped, RecallTyped
<1>9. Asked'
  BY <1>1 DEF ReviewInv, Asked
<1>10. Unsearched'
  <2>1. \A u \in Terms : u # t => recall'.searched[u] = recall.searched[u]
    BY <1>4
  <2>2. recall'.todo = recall.todo \ {t} /\ recall.todo \subseteq Terms
    BY <1>2 DEF ReviewInv, ReviewTyped, RecallTyped
  <2>3. step = "search" => t \in task.terms
    BY <2>2 DEF ReviewInv, Unsearched
  <2> QED  BY <1>1, <2>1, <2>2, <2>3 DEF ReviewInv, Unsearched
<1>11. Requested' /\ Audited'
  BY <1>1 DEF ReviewInv, Requested, Audited
<1>12. step \notin Ending /\ step' \in {"map", "diff"} \union Gathering \union Replying
  BY <1>1 DEF Ending, Gathering, StageSteps, Replying
<1> QED  BY <1>1, <1>7, <1>8, <1>9, <1>10, <1>11, <1>12, GatheringKeeps

(* The steps that leave the terms alone and go on to a later one.            *)
LEMMA OnwardKeeps ==
  ASSUME ReviewInv, UNCHANGED <<task, answer, calls, result>>,
         RecallTyped', recall'.found >= recall.found,
         recall'.searched = recall.searched, recall'.todo = recall.todo,
         \/ step = "search" /\ step' \in StageSteps \ {"search"}
         \/ step = "rewrite" /\ step' = "parse"
         \/ step = "recover" /\ step' = "reparse"
         \/ step = "reparse" /\ step' = "solve"
         \/ step \in {"parse", "symbols", "graph", "git", "tests"}
            /\ step' \in StageSteps \ {"search", "critique"}
  PROVE  ReviewInv'
<1>1. Asked'
  BY DEF ReviewInv, Asked, Gathering, StageSteps, Replying
<1>2. Unsearched'
  BY DEF ReviewInv, Unsearched, StageSteps
<1>3. Requested' /\ Audited'
  BY DEF ReviewInv, Requested, Audited, Gathering, StageSteps
<1>4. step \notin Ending /\ step' \in {"map", "diff"} \union Gathering \union Replying
  BY DEF Ending, Gathering, StageSteps, Replying
<1> QED  BY <1>1, <1>2, <1>3, <1>4, GatheringKeeps

LEMMA OnwardSteps ==
  ASSUME ReviewInv,
         R!SearchesDone \/ R!ParseFiles \/ R!BuildGraphs \/ R!ReadHistory \/ R!RunTests
  PROVE  ReviewInv'
<1>1. UNCHANGED <<task, answer, calls, result>>
  BY DEF R!SearchesDone, R!ParseFiles, R!BuildGraphs, R!ReadHistory, R!RunTests
<1>2. \/ step = "search" /\ step' \in StageSteps \ {"search"}
      \/ step = "rewrite" /\ step' = "parse"
      \/ step = "recover" /\ step' = "reparse"
      \/ step = "reparse" /\ step' = "solve"
      \/ /\ step \in {"parse", "symbols", "graph", "git", "tests"}
         /\ step' \in StageSteps \ {"search", "critique"}
  <2> HIDE DEF StageSteps
  <2>1. CASE R!SearchesDone
    BY <2>1, StageAfterIs DEF R!SearchesDone
  <2>2. CASE R!ParseFiles
    BY <2>2, StageAfterIs DEF R!ParseFiles
  <2>3. CASE R!BuildGraphs
    BY <2>3, StageAfterIs DEF R!BuildGraphs
  <2>4. CASE R!ReadHistory \/ R!RunTests
    BY <2>4, StageAfterIs DEF R!ReadHistory, R!RunTests
  <2> QED  BY <2>1, <2>2, <2>3, <2>4
<1>3. \/ UNCHANGED recall
      \/ \E gain \in Gains : \E hard : recall' = [recall EXCEPT !.found = R!More(recall.found, gain), !.hard = hard]
      \/ \E gain \in Gains : recall' = [recall EXCEPT !.found = R!More(recall.found, gain)]
      \/ recall' = [recall EXCEPT !.hard = TRUE]
  BY Zenon DEF R!SearchesDone, R!ParseFiles, R!BuildGraphs, R!ReadHistory, R!RunTests
<1>4. /\ DOMAIN recall' = DOMAIN recall /\ recall'.searched = recall.searched /\ recall'.todo = recall.todo
      /\ recall'.found = recall.found \/ \E gain \in Gains : recall'.found = R!More(recall.found, gain)
  BY <1>3 DEF ReviewInv, ReviewTyped, RecallTyped
<1>5. recall'.found \in 0..R!Plenty /\ recall'.found >= recall.found
  <2>1. recall.found \in 0..R!Plenty
    BY DEF ReviewInv, ReviewTyped, RecallTyped
  <2>2. CASE recall'.found = recall.found
    BY <2>1, <2>2 DEF R!Plenty
  <2>3. CASE \E gain \in Gains : recall'.found = R!More(recall.found, gain)
    BY <2>1, <2>3, MoreIs
  <2> QED  BY <1>4, <2>2, <2>3
<1>6. RecallTyped'
  BY <1>4, <1>5 DEF ReviewInv, ReviewTyped, RecallTyped
<1> QED  BY <1>1, <1>2, <1>4, <1>5, <1>6, OnwardKeeps

LEMMA CritiqueKeeps == ASSUME ReviewInv, R!Critique PROVE ReviewInv'
<1>1. /\ step = "critique" /\ step' = "rewrite" /\ UNCHANGED <<task, answer, calls, result>>
  BY DEF R!Critique
<1>2. PICK suggested \in SUBSET (Terms \ task.terms) :
        recall' = [recall EXCEPT !.todo = IF R!RewriteWanted(suggested) THEN suggested ELSE {}]
  BY DEF R!Critique
<1>3. /\ RecallTyped' /\ recall'.found = recall.found /\ recall'.searched = recall.searched
      /\ recall'.todo \subseteq Terms \ task.terms
  BY <1>2 DEF ReviewInv, ReviewTyped, RecallTyped
<1>4. Asked'
  BY <1>1 DEF ReviewInv, Asked, Gathering, StageSteps, Replying
<1>5. Unsearched'
  BY <1>1, <1>3 DEF ReviewInv, Unsearched
<1>6. Requested' /\ Audited'
  BY <1>1 DEF ReviewInv, Requested, Audited, Gathering, StageSteps
<1>7. recall'.found >= recall.found
  BY <1>3 DEF ReviewInv, ReviewTyped, RecallTyped, R!Plenty
<1>8. step \notin Ending /\ step' \in {"map", "diff"} \union Gathering \union Replying
  BY <1>1 DEF Ending, Gathering, StageSteps
<1> QED  BY <1>1, <1>3, <1>4, <1>5, <1>6, <1>7, <1>8, GatheringKeeps

LEMMA ScanKeeps == ASSUME ReviewInv, R!ScanSmells PROVE ReviewInv'
<1>1. /\ step = "smell" /\ step' = "solve" /\ UNCHANGED <<recall, board, answer, calls, result>>
      /\ task'.mode = task.mode /\ task'.terms = task.terms
  BY DEF R!ScanSmells
<1>2. ReviewTyped' /\ (answer.cited \in 0..recall.found)'
  BY <1>1 DEF ReviewInv, ReviewTyped, RecallTyped, CallsTyped, Replying
<1>3. Asked'
  BY <1>1 DEF ReviewInv, Asked, Gathering, StageSteps
<1>4. Unsearched' /\ Requested' /\ Audited'
  BY <1>1 DEF ReviewInv, Unsearched, Requested, Audited, Gathering, StageSteps
<1>5. Judged'
  BY <1>1 DEF ReviewInv, Judged, Ending
<1> QED  BY <1>2, <1>3, <1>4, <1>5 DEF ReviewInv

(* An answer cites no more than was found.                                   *)
LEMMA SolutionsCite ==
  ASSUME NEW found \in 0..R!Plenty, NEW llm, NEW a \in R!Solutions(found, llm)
  PROVE  a.cited \in 0..found
<1>1. found \in Nat
  BY DEF R!Plenty
<1>2. CASE found = 0
  BY <1>1, <1>2 DEF R!Solutions, R!Answered
<1>3. CASE found # 0 /\ llm
  <2>1. a \in R!ModelAnswers(found)
    BY <1>3 DEF R!Solutions
  <2>2. CASE \E code : a = R!ModelFailure(code)
    BY <1>1, <2>2 DEF R!ModelFailure, R!FailedAnswer, R!Answered
  <2>3. CASE \E k \in 0..R!Min({found, R!VisibleEvidence}), c \in BOOLEAN : a = R!Completed(k, c)
    <3>1. R!Min({found, R!VisibleEvidence}) \in Nat /\ R!Min({found, R!VisibleEvidence}) <= found
      BY <1>1, LesserOfTwo DEF R!VisibleEvidence
    <3>2. PICK k \in 0..R!Min({found, R!VisibleEvidence}), c \in BOOLEAN : a = R!Completed(k, c)
      BY <2>3
    <3>3. a.cited = k
      BY <3>2 DEF R!Completed, R!Answered
    <3> QED  BY <1>1, <3>1, <3>3
  <2> QED  BY <2>1, <2>2, <2>3 DEF R!ModelAnswers
<1>4. CASE found # 0 /\ ~llm
  BY <1>1, <1>4 DEF R!Solutions, R!Completed, R!Answered
<1> QED  BY <1>2, <1>3, <1>4

LEMMA SolveKeeps == ASSUME ReviewInv, R!Solve PROVE ReviewInv'
<1>1. /\ step = "solve" /\ step' = (IF calls.retries = 0 THEN "audit" ELSE "authorise")
      /\ UNCHANGED <<task, recall, board, result>>
      /\ answer' \in R!Solutions(recall.found, task.llm)
  BY DEF R!Solve
<1>2. PICK requested \in {0, 1} :
        calls' = [calls EXCEPT !.asked = calls.asked + requested, !.recorded = calls.recorded + requested]
  BY Zenon DEF R!Solve
<1>3. /\ calls'.asked = calls.asked + requested /\ calls'.recorded = calls'.asked
      /\ calls'.retries = calls.retries /\ calls'.audited = calls.audited /\ calls'.clean = calls.clean
      /\ DOMAIN calls' = DOMAIN calls
  BY <1>2 DEF ReviewInv, ReviewTyped, CallsTyped
<1>4. calls.asked \in 0..2 /\ calls.asked <= calls.retries /\ calls.retries \in 0..1
  BY <1>1 DEF ReviewInv, ReviewTyped, CallsTyped, Requested
<1>5. CallsTyped'
  BY <1>3, <1>4 DEF ReviewInv, ReviewTyped, CallsTyped
<1>6. ReviewTyped'
  BY <1>1, <1>5 DEF ReviewInv, ReviewTyped, RecallTyped, Replying
<1>7. Asked' /\ Unsearched'
  BY <1>1 DEF ReviewInv, Asked, Unsearched, Replying, Gathering, StageSteps
<1>8. Requested' /\ Audited'
  BY <1>1, <1>3, <1>4 DEF Requested, Audited, Gathering, StageSteps
<1>9. (answer.cited \in 0..recall.found)'
  BY <1>1, SolutionsCite DEF ReviewInv, ReviewTyped, RecallTyped
<1>10. Judged'
  BY <1>1 DEF ReviewInv, Judged, Ending
<1> QED  BY <1>6, <1>7, <1>8, <1>9, <1>10 DEF ReviewInv

LEMMA AuditKeeps == ASSUME ReviewInv, R!AuditAnswer PROVE ReviewInv'
<1>1. step = "audit" /\ UNCHANGED <<task, board, answer, result>>
  BY DEF R!AuditAnswer
<1>2. calls.retries = 0 /\ calls.asked <= 1 /\ task.terms \subseteq Terms /\ calls.asked \in 0..2
  BY <1>1 DEF ReviewInv, Requested, Asked, Replying, ReviewTyped, CallsTyped
<1>3. ASSUME calls' = [calls EXCEPT !.retries = 1], step' \in {"solve", "recover"},
             UNCHANGED recall
               \/ \E extra \in SUBSET (Terms \ task.terms) :
                    recall' = [recall EXCEPT !.todo = {t \in task.terms \union extra : recall.searched[t] = 0}]
      PROVE  ReviewInv'
  <2>1. /\ calls'.asked = calls.asked /\ calls'.recorded = calls.recorded /\ calls'.retries = 1
        /\ calls'.audited = calls.audited /\ DOMAIN calls' = DOMAIN calls
    BY <1>3 DEF ReviewInv, ReviewTyped, CallsTyped
  <2>2. /\ DOMAIN recall' = DOMAIN recall /\ recall'.searched = recall.searched
        /\ recall'.found = recall.found /\ recall'.todo \subseteq Terms
        /\ \A t \in recall'.todo : recall.searched[t] = 0
    BY <1>2, <1>3 DEF ReviewInv, ReviewTyped, RecallTyped, Unsearched
  <2>3. CallsTyped' /\ RecallTyped'
    BY <1>2, <2>1, <2>2 DEF ReviewInv, ReviewTyped, CallsTyped, RecallTyped
  <2>4. ReviewTyped'
    BY <1>1, <1>3, <2>3 DEF ReviewInv, ReviewTyped, Replying
  <2>5. Asked'
    BY <1>1, <1>3 DEF ReviewInv, Asked, Replying
  <2>6. Unsearched'
    BY <1>3, <2>2 DEF Unsearched
  <2>7. Requested' /\ Audited'
    BY <1>2, <1>3, <2>1 DEF Requested, Audited, Gathering, StageSteps
  <2>8. (answer.cited \in 0..recall.found)' /\ Judged'
    BY <1>1, <1>3, <2>2 DEF ReviewInv, Judged, Ending
  <2> QED  BY <2>4, <2>5, <2>6, <2>7, <2>8 DEF ReviewInv
<1>4. ASSUME NEW issues, UNCHANGED recall, step' = "authorise",
             calls' = [calls EXCEPT !.clean = (issues = {}), !.audited = IF issues = {} THEN 1 ELSE 0]
      PROVE  ReviewInv'
  <2>1. /\ calls'.asked = calls.asked /\ calls'.recorded = calls.recorded /\ calls'.retries = calls.retries
        /\ calls'.audited = (IF issues = {} THEN 1 ELSE 0) /\ calls'.clean = (issues = {})
        /\ DOMAIN calls' = DOMAIN calls
    BY <1>4 DEF ReviewInv, ReviewTyped, CallsTyped
  <2>2. CallsTyped'
    BY <1>2, <2>1 DEF ReviewInv, ReviewTyped, CallsTyped
  <2>3. ReviewTyped'
    BY <1>1, <1>4, <2>2 DEF ReviewInv, ReviewTyped, RecallTyped, Replying
  <2>4. Asked' /\ Unsearched'
    BY <1>1, <1>4 DEF ReviewInv, Asked, Unsearched, Replying
  <2>5. Requested' /\ Audited'
    BY <1>2, <1>4, <2>1 DEF Requested, Audited, Gathering, StageSteps
  <2>6. (answer.cited \in 0..recall.found)' /\ Judged'
    BY <1>1, <1>4 DEF ReviewInv, Judged, Ending
  <2> QED  BY <2>3, <2>4, <2>5, <2>6 DEF ReviewInv
<1> DEFINE found == R!Issues(answer, recall, task.exotic)
<1>5. \/ /\ calls' = [calls EXCEPT !.retries = 1] /\ step' \in {"solve", "recover"}
         /\ \/ UNCHANGED recall
            \/ \E extra \in SUBSET (Terms \ task.terms) :
                 recall' = [recall EXCEPT !.todo = {t \in task.terms \union extra : recall.searched[t] = 0}]
      \/ /\ UNCHANGED recall /\ step' = "authorise"
         /\ calls' = [calls EXCEPT !.clean = (found = {}), !.audited = IF found = {} THEN 1 ELSE 0]
  BY DEF R!AuditAnswer
<1> QED  BY <1>3, <1>4, <1>5

LEMMA AuthoriseKeeps == ASSUME ReviewInv, R!AuthorisePatch PROVE ReviewInv'
<1>1. /\ step = "authorise" /\ step' \in {"patch", "final"}
      /\ UNCHANGED <<task, recall, board, answer, result>>
  BY DEF R!AuthorisePatch
<1> DEFINE again == calls.retries = 1 /\ answer.status = "completed"
           clean == R!Issues(answer, recall, task.exotic) = {}
<1>2. /\ calls' = IF again /\ clean /\ task.mode = "patch" THEN [calls EXCEPT !.audited = 2] ELSE calls
      /\ step' = "patch" => /\ task.mode = "patch"
                            /\ again => clean
                            /\ ~again => answer.status = "completed" /\ calls.clean
  BY Zenon DEF R!AuthorisePatch
<1>3. /\ calls'.asked = calls.asked /\ calls'.recorded = calls.recorded /\ calls'.retries = calls.retries
      /\ calls'.clean = calls.clean /\ DOMAIN calls' = DOMAIN calls
      /\ calls'.audited = IF again /\ clean /\ task.mode = "patch" THEN 2 ELSE calls.audited
  BY <1>2 DEF ReviewInv, ReviewTyped, CallsTyped
<1>4. CallsTyped'
  BY <1>3 DEF ReviewInv, ReviewTyped, CallsTyped
<1>5. ReviewTyped'
  BY <1>1, <1>4 DEF ReviewInv, ReviewTyped, RecallTyped, Replying
<1>6. Asked' /\ Unsearched'
  BY <1>1 DEF ReviewInv, Asked, Unsearched, Replying
<1>7. Requested'
  BY <1>1, <1>3 DEF Requested, Gathering, StageSteps
<1>8. Audited'
  <2> SUFFICES ASSUME step' = "patch" PROVE calls'.audited = calls'.retries + 1
    BY <1>1 DEF Audited
  <2>1. CASE again
    BY <1>2, <1>3, <2>1
  <2>2. CASE ~again
    <3>1. calls.retries = 0 /\ calls.clean
      BY <1>2, <2>2 DEF ReviewInv, ReviewTyped, CallsTyped
    <3>2. calls.audited = 1
      BY <1>1, <3>1 DEF ReviewInv, Audited
    <3> QED  BY <1>3, <2>2, <3>1, <3>2
  <2> QED  BY <2>1, <2>2
<1>9. (answer.cited \in 0..recall.found)' /\ Judged'
  BY <1>1 DEF ReviewInv, Judged, Ending
<1> QED  BY <1>5, <1>6, <1>7, <1>8, <1>9 DEF ReviewInv

LEMMA ProposeKeeps == ASSUME ReviewInv, R!ProposePatch PROVE ReviewInv'
<1>1. step = "patch" /\ step' = "aborted" /\ UNCHANGED <<task, answer, calls, result>>
  BY DEF R!ProposePatch
<1>2. \E hard : recall' = [recall EXCEPT !.hard = hard]
  BY Zenon DEF R!ProposePatch
<1>3. /\ DOMAIN recall' = DOMAIN recall /\ recall'.searched = recall.searched
      /\ recall'.found = recall.found /\ recall'.todo = recall.todo
  BY <1>2 DEF ReviewInv, ReviewTyped, RecallTyped
<1>4. ReviewTyped'
  BY <1>1, <1>3 DEF ReviewInv, ReviewTyped, RecallTyped, CallsTyped, Ending
<1>5. Asked' /\ Unsearched' /\ Requested' /\ Audited'
  BY <1>1, <1>3 DEF ReviewInv, Asked, Unsearched, Requested, Audited, Gathering, StageSteps, Replying
<1>6. result'.outcome = "none"
  BY <1>1 DEF ReviewInv, Judged, Ending
<1>7. (answer.cited \in 0..recall.found)' /\ Judged'
  BY <1>1, <1>3, <1>6 DEF ReviewInv, Judged
<1> QED  BY <1>4, <1>5, <1>7 DEF ReviewInv

(* A run ends with what its audit said.                                      *)
LEMMA EndKeeps == ASSUME ReviewInv, R!ReviewDiff \/ R!FinalAudit \/ R!SaveTrace PROVE ReviewInv'
<1>1. step' \in Ending /\ UNCHANGED <<task, recall, board, answer, calls>>
  BY DEF R!ReviewDiff, R!FinalAudit, R!SaveTrace, Ending
<1>2. DOMAIN result' = DOMAIN result
  BY Zenon DEF R!ReviewDiff, R!FinalAudit, R!SaveTrace
<1>3. ReviewTyped'
  BY <1>1, <1>2 DEF ReviewInv, ReviewTyped, RecallTyped, CallsTyped
<1>4. Asked' /\ Requested' /\ Audited'
  BY <1>1 DEF Asked, Requested, Audited, Gathering, StageSteps, Replying, Ending
<1>5. Unsearched' /\ (answer.cited \in 0..recall.found)'
  BY <1>1 DEF ReviewInv, Unsearched, Ending
<1>6. Judged'
  <2> SUFFICES ASSUME result'.outcome = "completed", task.mode # "diff"
               PROVE  Earned'
    BY <1>1 DEF Judged
  <2>1. CASE R!ReviewDiff
    BY <2>1 DEF R!ReviewDiff, ReviewInv, Asked
  <2>2. CASE R!SaveTrace
    <3>1. step = "save" /\ \E written \in {"no", "own", "both"} : result' = [result EXCEPT !.saved = written]
      BY <2>2 DEF R!SaveTrace
    <3>2. result'.outcome = result.outcome /\ result'.human = result.human
      BY <3>1 DEF ReviewInv, ReviewTyped
    <3>3. Earned
      BY <3>1, <3>2 DEF ReviewInv, Judged
    <3> QED  BY <1>1, <3>2, <3>3 DEF Earned, R!ContractOk
  <2>3. CASE R!FinalAudit
    <3> DEFINE issues == R!FinalIssues(answer, recall)
    <3>1. result' = [result EXCEPT !.issues = issues,
                       !.human = R!HumanRequired(answer, issues, calls.retries),
                       !.outcome = CASE issues = {} -> "completed"
                                     [] issues # {} /\ answer.status = "failed" -> "failed"
                                     [] OTHER -> "needs_review"]
      BY <2>3, Zenon DEF R!FinalAudit
    <3> HIDE DEF issues
    <3>2. /\ result'.human = R!HumanRequired(answer, issues, calls.retries)
          /\ issues # {} => result'.outcome # "completed"
      BY <3>1 DEF ReviewInv, ReviewTyped
    <3>3. issues = {} /\ ~result'.human
      BY <3>2 DEF R!HumanRequired
    <3>4. R!Issues(answer, recall, task.exotic) = {} /\ R!ContractOk(task.mode)
      BY <3>3 DEF issues, R!FinalIssues
    <3>5. /\ answer.status = "completed" /\ ~(answer.cited < R!MinPositions) /\ ~recall.hard
          /\ ~(recall.misses >= R!MissLimit /\ answer.cited < R!Plenty)
      BY <3>4 DEF R!Issues
    <3>6. answer.cited \in 0..recall.found /\ recall.found \in 0..R!Plenty
      BY DEF ReviewInv, ReviewTyped, RecallTyped
    <3> QED  BY <1>1, <3>3, <3>4, <3>5, <3>6 DEF Earned, R!MinPositions, R!Plenty, R!ContractOk
  <2> QED  BY <2>1, <2>2, <2>3
<1> QED  BY <1>3, <1>4, <1>5, <1>6 DEF ReviewInv

LEMMA ReviewStep == ReviewInv /\ R!ReviewNext => ReviewInv'
BY AcceptKeeps, MapKeeps, RouteKeeps, SearchKeeps, OnwardSteps, CritiqueKeeps, ScanKeeps, SolveKeeps,
   AuditKeeps, AuthoriseKeeps, ProposeKeeps, EndKeeps DEF R!ReviewNext

(* agents/orchestrator.py: a saved run that calls itself completed stands on *)
(* enough evidence, on tool calls that never failed and on a full board; a   *)
(* patch begins only from an answer audited clean, the recovered one         *)
(* included; no term is searched twice and no request goes unrecorded, for   *)
(* every set of terms, of plans and of what a tool call may add.             *)
THEOREM CompletionIsEarned == MCSpec => []ReviewEarned
<1> DEFINE Inv == focus = "review" => ReviewInv
<1>1. MCInit => Inv
  <2> SUFFICES ASSUME MCInit PROVE ReviewInv
    OBVIOUS
  <2>1. /\ step = "idle"
        /\ recall = [todo |-> {}, searched |-> [t \in Terms |-> 0], found |-> 0, files |-> FALSE,
                     misses |-> 0, hard |-> FALSE]
        /\ answer.cited = 0
        /\ calls = [asked |-> 0, recorded |-> 0, retries |-> 0, clean |-> FALSE, audited |-> 0]
        /\ result = [issues |-> {}, human |-> FALSE, outcome |-> "none", saved |-> "no"]
    BY DEF MCInit, R!ReviewInit, R!NoAnswer, R!Answered
  <2>2. ReviewTyped
    BY <2>1 DEF ReviewTyped, RecallTyped, CallsTyped, R!Plenty
  <2>3. Asked /\ Unsearched /\ Requested /\ Audited
    BY <2>1 DEF Asked, Unsearched, Requested, Audited, Gathering, StageSteps, Replying
  <2> QED  BY <2>1, <2>2, <2>3 DEF ReviewInv, Judged
<1>2. Inv /\ [MCNext]_allVars => Inv'
  <2> SUFFICES ASSUME Inv, [MCNext]_allVars, focus' = "review"
               PROVE  ReviewInv'
    OBVIOUS
  <2>1. ReviewInv /\ (R!ReviewNext \/ UNCHANGED reviewVars)
    BY FocusedStep
  <2>2. CASE UNCHANGED reviewVars
    <3>1. UNCHANGED <<task, step, recall, board, answer, calls, result>>
      BY <2>2 DEF reviewVars
    <3>2. ReviewTyped' /\ Asked' /\ Unsearched' /\ Requested' /\ Audited'
      BY <2>1, <3>1 DEF ReviewInv, ReviewTyped, RecallTyped, CallsTyped, Asked, Unsearched, Requested, Audited
    <3>3. (answer.cited \in 0..recall.found)' /\ Judged'
      BY <2>1, <3>1 DEF ReviewInv, Judged, Earned, R!ContractOk
    <3> QED  BY <3>2, <3>3 DEF ReviewInv
  <2> QED  BY <2>1, <2>2, ReviewStep
<1>3. Inv => ReviewEarned
  <2> SUFFICES ASSUME ReviewInv PROVE R!ReviewEarned
    BY DEF ReviewEarned, Of
  <2>1. calls.asked <= 2 /\ calls.recorded = calls.asked /\ \A t \in Terms : recall.searched[t] <= 1
    BY DEF ReviewInv, ReviewTyped, RecallTyped, CallsTyped
  <2>2. step = "patch" => calls.audited = calls.retries + 1
    BY DEF ReviewInv, Audited
  <2>3. result.outcome = "completed" /\ task.mode # "diff" => Earned
    BY DEF ReviewInv, Judged
  <2> QED  BY <2>1, <2>2, <2>3 DEF R!ReviewEarned, Earned
<1> QED  BY <1>1, <1>2, <1>3, PTL DEF MCSpec

--------------------------------------------------------------------------------
(* The chain of recoveries of a stopped batch                                *)

PilotStates == {"none", "claimed", "completed", "contract", "unknown"}
Plans ==
  [level: 0..3, source: 0..MaxControls, count: Nat, spent: Nat, held: Nat,
   eligible: SUBSET Sheets, excluded: SUBSET Sheets]
PilotTyped ==
  /\ batch \in [C!Controls -> [state: {"none", "dirs", "frozen"}, plan: Plans, order: {"up", "down"}]]
  /\ spend \in [C!Controls -> [state: {"none", "dirs", "open"}, pred: 0..MaxControls, count: Nat, spent: Nat]]
  /\ trial \in [C!Controls -> [Sheets -> PilotStates]]
  /\ paid \in [C!Controls -> Nat]
  /\ locks \in [0..3 -> 0..(MaxControls + 1)]
Opened(c) == spend[c].state = "open"
(* A batch is frozen before its ledger opens, and opens it before any cell;  *)
(* one that continues nothing by recovery has the plan of everything.        *)
InTurn(c) ==
  /\ spend[c].state # "none" => batch[c].state = "frozen"
  /\ ~Opened(c) => spend[c].pred = C!Nobody /\ C!Claimed(c) = {} /\ paid[c] = 0
  /\ spend[c].pred = C!Nobody => spend[c].count = 0 /\ spend[c].spent = 0
  /\ C!Level(c) = 0 => batch[c].plan = C!NoPlan
  /\ C!Level(c) > 0 => batch[c].plan.source \in C!Controls /\ spend[c].pred = C!Nobody
(* What an open ledger continues is at rest and derives to the same again.   *)
Recovers(c, source) ==
  /\ Opened(source) /\ C!Level(c) = C!Level(source) + 1
  /\ C!Source(source) /\ batch[c].plan = C!Plan(source)
  /\ locks[C!Level(c)] = c
Carries(c, pred) ==
  /\ pred \in C!Controls /\ C!Carriable(pred)
  /\ spend[c].count = C!Count(pred) /\ spend[c].spent = C!Spent(pred)
  /\ locks[0] = c
Derived(c) ==
  /\ C!Level(c) > 0 => Recovers(c, batch[c].plan.source)
  /\ spend[c].pred # C!Nobody => Carries(c, spend[c].pred)
Within(c) ==
  /\ C!Claimed(c) \subseteq batch[c].plan.eligible
  /\ C!Count(c) <= MaxRequests /\ C!Spent(c) + C!Held(c) <= Approval
PilotInv ==
  /\ PilotTyped /\ \A c \in C!Controls : InTurn(c)
  /\ \A c \in C!Controls : Opened(c) => Derived(c) /\ Within(c)

LEMMA SheetCount ==
  /\ \A S : C!Cardinality(S) = Cardinality(S)
  /\ \A S \in SUBSET Sheets : IsFiniteSet(S) /\ C!Cardinality(S) \in Nat
<1>1. \A S : C!Cardinality(S) = Cardinality(S)
  BY Zenon DEF C!Cardinality, Cardinality
<1>2. \A S \in SUBSET Sheets : IsFiniteSet(S) /\ Cardinality(S) \in Nat
  BY SheetsAssumption, FS_Subset, FS_CardinalityType
<1> QED  BY <1>1, <1>2

LEMMA EndsOfOrder ==
  ASSUME NEW rest \in SUBSET Sheets, rest # {}
  PROVE  C!Min(rest) \in rest /\ C!Max(rest) \in rest
<1>1. rest \in SUBSET Nat /\ IsFiniteSet(rest)
  BY SheetsAssumption, FS_Subset
<1>2. \E n \in rest : \A m \in rest : n <= m
  BY <1>1, LeastElement
<1> DEFINE Good == {s \in SUBSET rest : s = {} \/ \E n \in s : \A m \in s : n >= m}
<1>3. ASSUME NEW s \in SUBSET rest, \A y \in s : s \ {y} \in Good
      PROVE  s \in Good
  <2> SUFFICES ASSUME s # {} PROVE \E n \in s : \A m \in s : n >= m
    OBVIOUS
  <2>1. PICK y \in s : TRUE
    OBVIOUS
  <2>2. CASE s \ {y} = {}
    BY <1>1, <2>1, <2>2
  <2>3. CASE s \ {y} # {}
    <3>1. PICK n \in s \ {y} : \A m \in s \ {y} : n >= m
      BY <1>3, <2>1, <2>3
    <3>2. CASE n >= y
      BY <2>1, <3>1, <3>2
    <3>3. CASE ~(n >= y)
      BY <1>1, <2>1, <3>1, <3>3
    <3> QED  BY <3>2, <3>3
  <2> QED  BY <2>2, <2>3
<1>4. SUBSET rest \subseteq Good
  <2> HIDE DEF Good
  <2> QED  BY <1>1, <1>3, Building
<1>5. \E n \in rest : \A m \in rest : n >= m
  BY <1>4
<1> QED  BY <1>2, <1>5 DEF C!Min, C!Max

LEMMA Products == \A r, n \in Nat : r * n \in Nat /\ r * (n + 1) = r * n + r /\ r * 0 = 0
OBVIOUS

(* The readable ledgers of one level, given those of the level below.        *)
ReadableFrom(below, level) ==
  {c \in C!Controls :
     /\ C!Level(c) = level /\ spend[c].state = "open"
     /\ level > 0 =>
          LET source == batch[c].plan.source
          IN  /\ source \in below /\ C!Source(source)
              /\ batch[c].plan = C!Plan(source)
              /\ locks[level] = c
     /\ spend[c].pred # C!Nobody =>
          LET pred == spend[c].pred
          IN  /\ C!Carriable(pred)
              /\ spend[c].count = C!Count(pred) /\ spend[c].spent = C!Spent(pred)
              /\ locks[0] = c}

LEMMA ReadableIs ==
  C!Readable = [level \in 0..3 |-> ReadableFrom(C!Readable[level - 1], level)]
<1> DEFINE Is(f) == f = [level \in 0..3 |-> ReadableFrom(f[level - 1], level)]
           zero == ReadableFrom({}, 0)
           one == ReadableFrom(zero, 1)
           two == ReadableFrom(one, 2)
           three == ReadableFrom(two, 3)
           f == [level \in 0..3 |-> IF level = 0 THEN zero ELSE IF level = 1 THEN one
                                    ELSE IF level = 2 THEN two ELSE three]
<1>1. \A below : ReadableFrom(below, 0) = zero
  BY DEF ReadableFrom
<1>2. ASSUME NEW level \in 0..3 PROVE f[level] = ReadableFrom(f[level - 1], level)
  <2> HIDE DEF zero, one, two, three
  <2>1. CASE level = 0
    BY <1>1, <2>1
  <2>2. CASE level = 1
    BY <2>2 DEF one
  <2>3. CASE level = 2
    BY <2>3 DEF two
  <2>4. CASE level = 3
    BY <2>4 DEF three
  <2> QED  BY <2>1, <2>2, <2>3, <2>4
<1>3. Is(f)
  <2> HIDE DEF zero, one, two, three
  <2>1. f = [level \in 0..3 |-> f[level]]
    OBVIOUS
  <2> HIDE DEF f
  <2> QED  BY <1>2, <2>1
<1> HIDE DEF f
<1>4. C!Readable = CHOOSE g : Is(g)
  BY Zenon DEF C!Readable, ReadableFrom
<1>5. Is(CHOOSE g : Is(g))
  <2> HIDE DEF Is
  <2> QED  BY <1>3
<1> QED  BY <1>4, <1>5

LEMMA ReadOnlyOpen ==
  ASSUME PilotTyped, NEW c \in C!Controls, C!PolicyValid(c)
  PROVE  Opened(c)
<1>1. C!Level(c) \in 0..3
  BY DEF PilotTyped, Plans, C!Level
<1>2. c \in ReadableFrom(C!Readable[C!Level(c) - 1], C!Level(c))
  BY <1>1, ReadableIs DEF C!PolicyValid
<1> QED  BY <1>2 DEF ReadableFrom, Opened

(* Whatever is open can be read, down to the first batch.                     *)
LEMMA OpenIsReadable ==
  ASSUME PilotInv, NEW c \in C!Controls, Opened(c)
  PROVE  C!PolicyValid(c)
<1> DEFINE At(level) == \A d \in C!Controls : Opened(d) /\ C!Level(d) = level => d \in C!Readable[level]
<1>1. \A d \in C!Controls : /\ C!Level(d) \in 0..3 /\ batch[d].plan.source \in 0..MaxControls
                            /\ C!Level(d) > 0 => batch[d].plan.source \in C!Controls
                            /\ Opened(d) => Derived(d)
  BY DEF PilotInv, PilotTyped, InTurn, Plans, C!Level
<1>2. ASSUME NEW level \in 0..3, level > 0 => At(level - 1)
      PROVE  At(level)
  <2> SUFFICES ASSUME NEW d \in C!Controls, Opened(d), C!Level(d) = level
               PROVE  d \in ReadableFrom(C!Readable[level - 1], level)
    BY ReadableIs
  <2> DEFINE source == batch[d].plan.source
  <2>1. level > 0 => /\ source \in C!Readable[level - 1] /\ C!Source(source)
                     /\ batch[d].plan = C!Plan(source) /\ locks[level] = d
    <3> SUFFICES ASSUME level > 0
                 PROVE  /\ source \in C!Readable[level - 1] /\ C!Source(source)
                        /\ batch[d].plan = C!Plan(source) /\ locks[level] = d
      OBVIOUS
    <3>1. Recovers(d, source) /\ source \in C!Controls /\ C!Level(source) \in 0..3
      BY <1>1 DEF Derived
    <3>2. C!Level(source) = level - 1 /\ Opened(source)
      BY <3>1 DEF Recovers
    <3> QED  BY <1>2, <3>1, <3>2 DEF Recovers
  <2>2. spend[d].pred # C!Nobody => /\ C!Carriable(spend[d].pred)
                                    /\ spend[d].count = C!Count(spend[d].pred)
                                    /\ spend[d].spent = C!Spent(spend[d].pred) /\ locks[0] = d
    BY <1>1 DEF Derived, Carries
  <2> QED  BY <2>1, <2>2 DEF ReadableFrom, Opened
<1> HIDE DEF At
<1>3. At(0)
  BY <1>2
<1>4. At(1)
  BY <1>2, <1>3
<1>5. At(2)
  BY <1>2, <1>4
<1>6. At(3)
  BY <1>2, <1>5
<1> QED  BY <1>1, <1>3, <1>4, <1>5, <1>6 DEF At, C!PolicyValid

--------------------------------------------------------------------------------
(* Nothing a batch is read from has changed.                                  *)
Same(c) ==
  batch'[c] = batch[c] /\ spend'[c] = spend[c] /\ trial'[c] = trial[c] /\ paid'[c] = paid[c]

LEMMA SameReading ==
  ASSUME NEW c, Same(c)
  PROVE  /\ C!Level(c)' = C!Level(c) /\ C!Claimed(c)' = C!Claimed(c) /\ C!Open(c)' = C!Open(c)
         /\ \A how : C!Ended(c, how)' = C!Ended(c, how)
         /\ C!Count(c)' = C!Count(c) /\ C!Spent(c)' = C!Spent(c) /\ C!Held(c)' = C!Held(c)
         /\ (Opened(c)' <=> Opened(c)) /\ (InTurn(c)' <=> InTurn(c)) /\ (Within(c)' <=> Within(c))
         /\ (C!Stopped(c)' <=> C!Stopped(c)) /\ (C!StoppedAs(c)' <=> C!StoppedAs(c))
         /\ (C!Carriable(c)' <=> C!Carriable(c))
BY DEF Same, C!Level, C!Claimed, C!Open, C!Ended, C!Count, C!Spent, C!Held, Opened, InTurn, Within,
       C!Stopped, C!StoppedAs, C!Halted, C!Carriable

LEMMA SamePlan ==
  ASSUME NEW c, Same(c), spend[c].pred # C!Nobody => Same(spend[c].pred)
  PROVE  C!Plan(c)' = C!Plan(c) /\ (C!Source(c)' <=> C!Source(c))
<1>1. C!Excluded(c)' = C!Excluded(c)
  BY SameReading DEF Same, C!Excluded
<1>2. C!Plan(c)' = C!Plan(c)
  BY <1>1, SameReading DEF Same, C!Plan
<1> QED  BY <1>2, SameReading DEF C!Source

(* A batch at rest stays as it is, and no lock that names a batch moves.      *)
AtRest == \A x \in C!Controls : Opened(x) /\ C!Stopped(x) => Same(x)
LocksKept == \A slot \in 0..3 : locks[slot] \in C!Controls => locks'[slot] = locks[slot]

LEMMA SourceRests ==
  ASSUME PilotInv, AtRest, NEW source \in C!Controls, Opened(source), C!Source(source)
  PROVE  /\ Same(source) /\ C!Plan(source)' = C!Plan(source) /\ C!Source(source)'
         /\ C!Level(source)' = C!Level(source) /\ Opened(source)'
<1>1. Same(source)
  BY DEF AtRest, C!Source
<1>2. ASSUME spend[source].pred # C!Nobody PROVE Same(spend[source].pred)
  <2>1. Carries(source, spend[source].pred)
    BY <1>2 DEF PilotInv, Derived
  <2> QED  BY <2>1 DEF Carries, AtRest, C!Carriable, Opened
<1> QED  BY <1>1, <1>2, SamePlan, SameReading

LEMMA DerivedKept ==
  ASSUME PilotInv, AtRest, LocksKept, NEW c \in C!Controls, Opened(c),
         batch'[c] = batch[c], spend'[c] = spend[c]
  PROVE  Derived(c)'
<1>1. C!Level(c)' = C!Level(c) /\ C!Level(c) \in 0..3 /\ Derived(c) /\ InTurn(c)
  BY DEF PilotInv, PilotTyped, Plans, C!Level
<1>2. ASSUME C!Level(c) > 0 PROVE Recovers(c, batch[c].plan.source)'
  <2>1. PICK source \in C!Controls : source = batch[c].plan.source /\ Recovers(c, source)
    BY <1>1, <1>2 DEF InTurn, Derived
  <2>2. Same(source) /\ C!Plan(source)' = C!Plan(source) /\ C!Source(source)'
        /\ C!Level(source)' = C!Level(source) /\ Opened(source)'
    BY <2>1, SourceRests DEF Recovers
  <2>3. locks'[C!Level(c)] = c
    BY <1>1, <2>1 DEF Recovers, LocksKept
  <2>4. Recovers(c, source)'
    BY <1>1, <2>1, <2>2, <2>3 DEF Recovers
  <2> QED  BY <2>1, <2>4
<1>3. ASSUME spend[c].pred # C!Nobody PROVE Carries(c, spend[c].pred)'
  <2>1. PICK pred \in C!Controls : pred = spend[c].pred /\ Carries(c, pred)
    BY <1>1, <1>3 DEF Derived, Carries
  <2>2. Same(pred)
    BY <2>1 DEF Carries, AtRest, C!Carriable, Opened
  <2>3. locks'[0] = c
    BY <2>1 DEF Carries, LocksKept
  <2>4. C!Carriable(pred)' /\ C!Count(pred)' = C!Count(pred) /\ C!Spent(pred)' = C!Spent(pred)
    BY <2>1, <2>2, SameReading DEF Carries
  <2>5. Carries(c, pred)'
    BY <2>1, <2>3, <2>4 DEF Carries
  <2> QED  BY <2>1, <2>5
<1> QED  BY <1>1, <1>2, <1>3 DEF Derived

(* What is read of a batch has its type.                                      *)
LEMMA ReadingType ==
  ASSUME PilotTyped, NEW c \in C!Controls
  PROVE  /\ C!Level(c) \in 0..3
         /\ C!Claimed(c) \subseteq Sheets /\ C!Open(c) \subseteq Sheets
         /\ C!Cardinality(C!Claimed(c)) \in Nat
         /\ Reservation * C!Cardinality(C!Open(c)) \in Nat
         /\ C!Count(c) \in Nat /\ C!Spent(c) \in Nat /\ C!Held(c) \in Nat
<1>1. C!Level(c) \in 0..3 /\ C!Claimed(c) \subseteq Sheets /\ C!Open(c) \subseteq Sheets
  BY DEF PilotTyped, Plans, C!Level, C!Claimed, C!Open
<1>2. C!Cardinality(C!Claimed(c)) \in Nat /\ C!Cardinality(C!Open(c)) \in Nat
  BY <1>1, SheetCount
<1>3. Reservation * C!Cardinality(C!Open(c)) \in Nat
  BY <1>2, StudyAssumption, Products
<1>4. /\ batch[c].plan.count \in Nat /\ batch[c].plan.spent \in Nat /\ batch[c].plan.held \in Nat
      /\ spend[c].count \in Nat /\ spend[c].spent \in Nat /\ paid[c] \in Nat
  BY DEF PilotTyped, Plans
<1> DEFINE owed == Reservation * C!Cardinality(C!Open(c))
<1>5. owed \in Nat
  BY <1>3
<1>6. C!Held(c) = batch[c].plan.held + owed
  BY DEF C!Held
<1> HIDE DEF owed
<1>7. C!Held(c) \in Nat
  BY <1>4, <1>5, <1>6
<1> QED  BY <1>1, <1>2, <1>3, <1>4, <1>7 DEF C!Count, C!Spent

LEMMA PlanType ==
  ASSUME PilotTyped, NEW s \in C!Controls, C!Source(s)
  PROVE  /\ C!Plan(s) \in Plans
         /\ C!Plan(s).level = C!Level(s) + 1 /\ C!Plan(s).level > 0 /\ C!Plan(s).source = s
         /\ C!Plan(s).count = C!Count(s) /\ C!Plan(s).spent = C!Spent(s) /\ C!Plan(s).held = C!Held(s)
         /\ C!Plan(s).eligible = batch[s].plan.eligible \ C!Excluded(s)
         /\ C!Plan(s).excluded = C!Excluded(s)
<1>1. C!Level(s) \in 0..3 /\ C!Level(s) < 3 /\ s \in 0..MaxControls
  BY ReadingType DEF C!Source, C!Controls
<1>2. C!Count(s) \in Nat /\ C!Spent(s) \in Nat /\ C!Held(s) \in Nat
  BY ReadingType
<1>3. C!Excluded(s) \subseteq Sheets /\ batch[s].plan.eligible \subseteq Sheets
  <2>1. C!Claimed(s) \subseteq Sheets /\ batch[s].plan.excluded \subseteq Sheets
        /\ batch[s].plan.eligible \subseteq Sheets
    BY DEF PilotTyped, Plans, C!Claimed
  <2>2. C!Claimed(spend[s].pred) \subseteq Sheets
    BY DEF C!Claimed
  <2> QED  BY <2>1, <2>2 DEF C!Excluded
<1>4. C!Level(s) + 1 \in 0..3 /\ C!Level(s) + 1 > 0
  BY <1>1
<1> QED  BY <1>1, <1>2, <1>3, <1>4 DEF C!Plan, Plans

(* A step moves one batch, and no batch at rest.                              *)
LEMMA OneMoves ==
  ASSUME PilotInv, PilotTyped', NEW c \in C!Controls, \A d \in C!Controls \ {c} : Same(d),
         AtRest, LocksKept, InTurn(c)', Opened(c)' => Derived(c)' /\ Within(c)'
  PROVE  PilotInv'
<1>1. ASSUME NEW d \in C!Controls PROVE InTurn(d)' /\ (Opened(d)' => Derived(d)' /\ Within(d)')
  <2>1. CASE d = c
    BY <2>1
  <2>2. CASE d # c
    <3>1. Same(d)
      BY <2>2
    <3>2. InTurn(d) /\ (Opened(d) => Derived(d) /\ Within(d))
      BY DEF PilotInv
    <3>3. InTurn(d)' /\ (Opened(d)' <=> Opened(d)) /\ (Within(d)' <=> Within(d))
      BY <3>1, <3>2, SameReading
    <3>4. Opened(d) => Derived(d)'
      BY <3>1, DerivedKept DEF Same
    <3> QED  BY <3>2, <3>3, <3>4
  <2> QED  BY <2>1, <2>2
<1> QED  BY <1>1 DEF PilotInv

LEMMA FreezeKeeps == ASSUME PilotInv, NEW c \in C!Controls, C!Freeze(c) PROVE PilotInv'
<1>1. batch[c].state = "none" /\ UNCHANGED <<spend, trial, paid, locks>>
  BY DEF C!Freeze
<1>2. ~Opened(c) /\ spend[c].state = "none"
  BY <1>1 DEF PilotInv, InTurn, Opened, PilotTyped
<1>3. PICK fresh \in [state: {"none", "dirs", "frozen"}, plan: Plans, order: {"up", "down"}] :
        /\ batch' = [batch EXCEPT ![c] = fresh]
        /\ \/ fresh.plan = C!NoPlan
           \/ fresh.plan = batch[c].plan
           \/ fresh.plan.level > 0 /\ fresh.plan.source \in C!Controls
  <2> DEFINE FrozenAs(p) == \E order \in {"up", "down"} :
               batch' = [batch EXCEPT ![c] = [state |-> "frozen", plan |-> p, order |-> order]]
  <2>1. CASE FrozenAs(C!NoPlan)
    <3>1. C!NoPlan \in Plans
      BY SheetsAssumption DEF C!NoPlan, C!Nobody, Plans
    <3> QED  BY <2>1, <3>1
  <2>2. CASE batch' = [batch EXCEPT ![c].state = "dirs"]
    <3> DEFINE fresh == [batch[c] EXCEPT !.state = "dirs"]
    <3>1. fresh \in [state: {"none", "dirs", "frozen"}, plan: Plans, order: {"up", "down"}]
          /\ fresh.plan = batch[c].plan
      BY DEF PilotInv, PilotTyped
    <3>2. batch' = [batch EXCEPT ![c] = fresh]
      BY <2>2
    <3> QED  BY <3>1, <3>2
  <2>3. CASE \E s \in C!Controls : C!Source(s) /\ FrozenAs(C!Plan(s))
    <3>1. PICK s \in C!Controls : C!Source(s) /\ FrozenAs(C!Plan(s))
      BY <2>3
    <3>2. C!Plan(s) \in Plans /\ C!Plan(s).level > 0 /\ C!Plan(s).source = s
      BY <3>1, PlanType DEF PilotInv
    <3> QED  BY <3>1, <3>2
  <2> QED
    <3>1. PICK order \in {"up", "down"} :
            \/ batch' = [batch EXCEPT ![c] = [state |-> "frozen", plan |-> C!NoPlan, order |-> order]]
            \/ \E s \in C!Controls :
                 /\ C!Source(s)
                 /\ \/ batch' = [batch EXCEPT ![c] = [state |-> "frozen", plan |-> C!Plan(s), order |-> order]]
                    \/ batch' = [batch EXCEPT ![c].state = "dirs"]
      BY Zenon DEF C!Freeze
    <3> QED  BY <2>1, <2>2, <2>3, <3>1
<1>4. batch'[c] = fresh /\ \A d \in C!Controls \ {c} : Same(d)
  BY <1>1, <1>3 DEF PilotInv, PilotTyped, Same
<1>5. PilotTyped'
  BY <1>1, <1>3 DEF PilotInv, PilotTyped
<1>6. AtRest /\ LocksKept
  BY <1>1, <1>2, <1>4 DEF AtRest, LocksKept
<1>7. InTurn(c)'
  <2>1. spend[c].pred = C!Nobody /\ C!Claimed(c) = {} /\ paid[c] = 0
    BY <1>2 DEF PilotInv, InTurn
  <2>2. C!Claimed(c)' = C!Claimed(c)
    BY <1>1 DEF C!Claimed
  <2>3. C!NoPlan.level = 0
    BY DEF C!NoPlan
  <2>4. /\ C!Level(c) = 0 => batch[c].plan = C!NoPlan
        /\ C!Level(c) > 0 => batch[c].plan.source \in C!Controls
        /\ spend[c].pred = C!Nobody => spend[c].count = 0 /\ spend[c].spent = 0
    BY DEF PilotInv, InTurn
  <2> QED  BY <1>1, <1>2, <1>3, <1>4, <2>1, <2>2, <2>3, <2>4 DEF InTurn, Opened, C!Level
<1>8. ~Opened(c)'
  BY <1>1, <1>2 DEF Opened
<1> QED  BY <1>4, <1>5, <1>6, <1>7, <1>8, OneMoves

(* A cell is claimed or closed: by a batch that is not at rest.               *)
LEMMA CellMoves ==
  ASSUME PilotInv, NEW c \in C!Controls, Opened(c), ~C!Stopped(c),
         UNCHANGED <<batch, spend, locks>>,
         NEW cells \in [Sheets -> PilotStates], trial' = [trial EXCEPT ![c] = cells],
         NEW sum \in Nat, paid' = [paid EXCEPT ![c] = sum],
         Within(c)'
  PROVE  PilotInv'
<1>1. PilotTyped'
  BY DEF PilotInv, PilotTyped
<1>2. \A d \in C!Controls \ {c} : Same(d)
  BY DEF Same, PilotInv, PilotTyped
<1>3. AtRest /\ LocksKept
  BY <1>2 DEF AtRest, LocksKept
<1>4. InTurn(c)' /\ Opened(c)'
  <2>1. Opened(c)'
    BY DEF Opened
  <2> QED  BY <2>1 DEF PilotInv, InTurn, C!Level
<1>5. Derived(c)'
  BY <1>3, DerivedKept
<1> QED  BY <1>1, <1>2, <1>3, <1>4, <1>5, OneMoves

LEMMA BeginKeeps == ASSUME PilotInv, NEW c \in C!Controls, C!Begin(c) PROVE PilotInv'
<1>1. /\ Opened(c) /\ ~C!Stopped(c) /\ C!Affords(c) /\ UNCHANGED <<batch, spend, locks, paid>>
      /\ Within(c)
  <2>1. C!PolicyValid(c) /\ ~C!Halted(c) /\ C!Affords(c) /\ UNCHANGED <<batch, spend, paid, locks>>
    BY Zenon DEF C!Begin
  <2>2. Opened(c)
    BY <2>1, ReadOnlyOpen DEF PilotInv
  <2> QED  BY <2>1, <2>2 DEF C!Stopped, PilotInv
<1> DEFINE rest == batch[c].plan.eligible \ C!Claimed(c)
<1>2. PICK next \in rest : trial' = [trial EXCEPT ![c] = [trial[c] EXCEPT ![next] = "claimed"]]
  <2>1. rest # {} /\ (\/ trial' = [trial EXCEPT ![c] = [trial[c] EXCEPT ![C!Min(rest)] = "claimed"]]
                      \/ trial' = [trial EXCEPT ![c] = [trial[c] EXCEPT ![C!Max(rest)] = "claimed"]])
    BY DEF C!Begin
  <2>2. rest \in SUBSET Sheets
    BY DEF PilotInv, PilotTyped, Plans
  <2> HIDE DEF rest
  <2> QED  BY <2>1, <2>2, EndsOfOrder
<1>3. next \in Sheets /\ trial[c] \in [Sheets -> PilotStates] /\ next \notin C!Claimed(c)
  BY DEF PilotInv, PilotTyped, Plans
<1> DEFINE cells == [trial[c] EXCEPT ![next] = "claimed"]
<1>4. cells \in [Sheets -> PilotStates] /\ trial'[c] = cells
  BY <1>2, <1>3 DEF PilotInv, PilotTyped, PilotStates
<1>5. C!Claimed(c)' = C!Claimed(c) \union {next} /\ C!Open(c)' = C!Open(c) \union {next}
      /\ next \notin C!Open(c)
  BY <1>3, <1>4 DEF C!Claimed, C!Open
<1>6. /\ C!Cardinality(C!Claimed(c)') = C!Cardinality(C!Claimed(c)) + 1
      /\ C!Cardinality(C!Open(c)') = C!Cardinality(C!Open(c)) + 1
  <2>1. C!Claimed(c) \in SUBSET Sheets /\ C!Open(c) \in SUBSET Sheets
    BY ReadingType DEF PilotInv
  <2> QED  BY <1>3, <1>5, <2>1, SheetCount, FS_AddElement
<1> HIDE DEF cells
<1>7. Within(c)'
  <2>1. C!Claimed(c)' \subseteq batch'[c].plan.eligible
    BY <1>1, <1>5 DEF Within
  <2> DEFINE n == C!Cardinality(C!Claimed(c))
             m == C!Cardinality(C!Open(c))
  <2>2. C!Count(c)' <= MaxRequests
    <3>1. C!Count(c) = batch[c].plan.count + spend[c].count + n
      BY DEF C!Count
    <3>2. C!Count(c)' = batch[c].plan.count + spend[c].count + (n + 1)
      BY <1>1, <1>6 DEF C!Count
    <3>3. C!Count(c) < MaxRequests
      BY <1>1 DEF C!Affords
    <3>4. batch[c].plan.count \in Nat /\ spend[c].count \in Nat /\ n \in Nat
      BY ReadingType DEF PilotInv, PilotTyped, Plans
    <3> HIDE DEF n
    <3> QED  BY <3>1, <3>2, <3>3, <3>4, SheetsAssumption
  <2>3. C!Spent(c)' + C!Held(c)' <= Approval
    <3>1. C!Held(c) = batch[c].plan.held + Reservation * m
      BY DEF C!Held
    <3>2. C!Held(c)' = batch[c].plan.held + Reservation * (m + 1)
      BY <1>1, <1>6 DEF C!Held
    <3>3. C!Spent(c)' = C!Spent(c)
      BY <1>1 DEF C!Spent
    <3>4. C!Spent(c) + C!Held(c) + Reservation <= Approval
      BY <1>1 DEF C!Affords
    <3>5. batch[c].plan.held \in Nat /\ m \in Nat /\ Reservation \in Nat /\ C!Spent(c) \in Nat
      BY ReadingType, SheetCount, StudyAssumption DEF PilotInv, PilotTyped, Plans
    <3> HIDE DEF m
    <3>6. Reservation * (m + 1) = Reservation * m + Reservation /\ Reservation * m \in Nat
      BY <3>5, Products
    <3> QED  BY <3>1, <3>2, <3>3, <3>4, <3>5, <3>6, SheetsAssumption
  <2> QED  BY <2>1, <2>2, <2>3 DEF Within
<1>8. paid' = [paid EXCEPT ![c] = paid[c]] /\ paid[c] \in Nat
  BY <1>1 DEF PilotInv, PilotTyped
<1>9. trial' = [trial EXCEPT ![c] = cells]
  BY <1>2 DEF cells
<1> QED  BY <1>1, <1>4, <1>7, <1>8, <1>9, CellMoves

(* A frozen batch takes its lock and opens its ledger, or dies on the way.    *)
LEMMA LedgerMoves ==
  ASSUME PilotInv, NEW c \in C!Controls, batch[c].state = "frozen", spend[c].state = "none",
         UNCHANGED <<batch, trial, paid>>,
         NEW entry \in [state: {"none", "dirs", "open"}, pred: 0..MaxControls, count: Nat, spent: Nat],
         spend' = [spend EXCEPT ![c] = entry],
         locks' \in [0..3 -> 0..(MaxControls + 1)], LocksKept,
         entry.pred = C!Nobody => entry.count = 0 /\ entry.spent = 0,
         entry.state # "open" \/ C!Level(c) > 0 => entry.pred = C!Nobody,
         entry.state = "open" => Derived(c)' /\ Within(c)'
  PROVE  PilotInv'
<1>1. ~Opened(c) /\ C!Claimed(c) = {} /\ paid[c] = 0
  BY DEF PilotInv, InTurn, Opened
<1>2. spend'[c] = entry /\ \A d \in C!Controls \ {c} : Same(d)
  BY DEF PilotInv, PilotTyped, Same
<1>3. PilotTyped'
  BY DEF PilotInv, PilotTyped
<1>4. AtRest
  BY <1>1, <1>2 DEF AtRest
<1>5. C!Level(c)' = C!Level(c) /\ C!Claimed(c)' = C!Claimed(c) /\ (Opened(c)' <=> entry.state = "open")
  BY <1>2 DEF C!Level, C!Claimed, Opened
<1>6. InTurn(c)'
  <2>1. InTurn(c)
    BY DEF PilotInv
  <2> QED  BY <1>1, <1>2, <1>5, <2>1 DEF InTurn
<1> QED  BY <1>2, <1>3, <1>4, <1>5, <1>6, OneMoves

LEMMA NothingYet ==
  ASSUME PilotInv, NEW c \in C!Controls, ~Opened(c), UNCHANGED <<batch, trial, paid>>,
         spend'[c].count \in Nat, spend'[c].spent \in Nat
  PROVE  /\ C!Claimed(c)' = {} /\ C!Level(c)' = C!Level(c)
         /\ C!Count(c)' = batch[c].plan.count + spend'[c].count
         /\ C!Spent(c)' = batch[c].plan.spent + spend'[c].spent
         /\ C!Held(c)' = batch[c].plan.held
<1>1. C!Claimed(c) = {} /\ paid[c] = 0
      /\ {batch[c].plan.count, batch[c].plan.spent, batch[c].plan.held} \subseteq Nat
  BY DEF PilotInv, InTurn, PilotTyped, Plans
<1>2. C!Claimed(c)' = {} /\ C!Open(c)' = {}
  <2>1. C!Claimed(c)' = C!Claimed(c) /\ C!Open(c)' \subseteq C!Claimed(c)'
    BY DEF C!Claimed, C!Open
  <2> QED  BY <1>1, <2>1
<1>3. C!Cardinality({}) = 0 /\ Reservation * 0 = 0
  BY SheetCount, FS_EmptySet, StudyAssumption, Products
<1>4. C!Level(c)' = C!Level(c)
  BY DEF C!Level
<1>5. C!Count(c)' = batch[c].plan.count + spend'[c].count
  <2>1. C!Count(c)' = batch[c].plan.count + spend'[c].count + 0
    BY <1>2, <1>3 DEF C!Count
  <2> QED  BY <1>1, <2>1
<1>6. C!Spent(c)' = batch[c].plan.spent + spend'[c].spent
  <2>1. C!Spent(c)' = batch[c].plan.spent + spend'[c].spent + 0
    BY <1>1 DEF C!Spent
  <2> QED  BY <1>1, <2>1
<1>7. C!Held(c)' = batch[c].plan.held
  <2>1. C!Held(c)' = batch[c].plan.held + Reservation * 0
    BY <1>2, <1>3 DEF C!Held
  <2> QED  BY <1>1, <1>3, <2>1
<1> QED  BY <1>2, <1>4, <1>5, <1>6, <1>7

LEMMA LedgerOpens ==
  ASSUME PilotInv, NEW c \in C!Controls, batch[c].state = "frozen", spend[c].state = "none",
         UNCHANGED <<batch, trial, paid>>,
         NEW slot \in 0..4, slot = 4 \/ C!SlotFree(slot),
         NEW pred \in 0..MaxControls, NEW count \in Nat, NEW spent \in Nat,
         C!Level(c) > 0 => /\ slot = C!Level(c) /\ pred = C!Nobody
                           /\ C!PolicyValid(batch[c].plan.source) /\ C!Source(batch[c].plan.source)
                           /\ batch[c].plan = C!Plan(batch[c].plan.source),
         pred = C!Nobody => count = 0 /\ spent = 0,
         pred # C!Nobody => /\ slot = 0 /\ pred \in C!Controls \ {c} /\ C!Carriable(pred)
                            /\ count = C!Count(pred) /\ spent = C!Spent(pred)
                            /\ count <= MaxRequests /\ spent <= Approval,
         C!OpenLedger(c, slot, pred, count, spent)
  PROVE  PilotInv'
<1>1. ~Opened(c) /\ spend[c].pred = C!Nobody /\ spend[c].count = 0 /\ spend[c].spent = 0
  BY DEF PilotInv, InTurn, Opened
<1>2. locks \in [0..3 -> 0..(MaxControls + 1)] /\ c \in 0..(MaxControls + 1) /\ MaxControls \in Nat
      /\ MaxControls + 1 \in 0..(MaxControls + 1) /\ DOMAIN locks = 0..3 /\ slot \in 0..3 \union {4}
  BY SheetsAssumption DEF PilotInv, PilotTyped, C!Controls
<1> DEFINE taken == IF slot \in DOMAIN locks THEN [locks EXCEPT ![slot] = c] ELSE locks
<1>3. ASSUME NEW left \in 0..(MaxControls + 1), slot \in 0..3
      PROVE  /\ [locks EXCEPT ![slot] = left] \in [0..3 -> 0..(MaxControls + 1)]
             /\ \A any \in 0..3 : locks[any] \in C!Controls => [locks EXCEPT ![slot] = left][any] = locks[any]
  BY <1>2, <1>3 DEF C!SlotFree, C!Nobody, C!Controls
<1>4. /\ taken \in [0..3 -> 0..(MaxControls + 1)]
      /\ slot \in 0..3 => taken[slot] = c
      /\ \A any \in 0..3 : locks[any] \in C!Controls => taken[any] = locks[any]
  BY <1>2, <1>3
<1> HIDE DEF taken
<1>5. CASE spend' = [spend EXCEPT ![c] = [state |-> "open", pred |-> pred, count |-> count, spent |-> spent]]
           /\ locks' = taken
  <2> DEFINE entry == [state |-> "open", pred |-> pred, count |-> count, spent |-> spent]
  <2>1. entry \in [state: {"none", "dirs", "open"}, pred: 0..MaxControls, count: Nat, spent: Nat]
    OBVIOUS
  <2>2. spend'[c] = entry /\ \A d \in C!Controls \ {c} : Same(d)
    BY <1>5 DEF PilotInv, PilotTyped, Same
  <2>3. LocksKept /\ AtRest /\ locks' \in [0..3 -> 0..(MaxControls + 1)]
    <3>1. locks' = taken
      BY <1>5
    <3>2. AtRest
      BY <1>1, <2>2 DEF AtRest
    <3>3. LocksKept
      BY <1>4, <3>1 DEF LocksKept
    <3> QED  BY <1>4, <3>1, <3>2, <3>3
  <2>4. /\ C!Claimed(c)' = {} /\ C!Level(c)' = C!Level(c)
        /\ C!Count(c)' = batch[c].plan.count + count
        /\ C!Spent(c)' = batch[c].plan.spent + spent
        /\ C!Held(c)' = batch[c].plan.held
    BY <1>1, <2>2, NothingYet
  <2>5. ASSUME C!Level(c) > 0 PROVE Derived(c)' /\ Within(c)'
    <3>1. PICK source \in C!Controls : source = batch[c].plan.source
      BY <2>5 DEF PilotInv, InTurn
    <3>2. /\ slot = C!Level(c) /\ pred = C!Nobody /\ count = 0 /\ spent = 0
          /\ C!PolicyValid(source) /\ C!Source(source) /\ batch[c].plan = C!Plan(source)
      BY <2>5, <3>1
    <3>3. Opened(source)
      BY <3>2, ReadOnlyOpen DEF PilotInv
    <3>4. /\ C!Plan(source)' = C!Plan(source) /\ C!Source(source)'
          /\ C!Level(source)' = C!Level(source) /\ Opened(source)'
      BY <2>3, <3>2, <3>3, SourceRests
    <3>5. /\ batch[c].plan.count = C!Count(source) /\ batch[c].plan.spent = C!Spent(source)
          /\ batch[c].plan.held = C!Held(source) /\ C!Level(c) = C!Level(source) + 1
      BY <3>2, PlanType DEF PilotInv, C!Level
    <3>6. Recovers(c, source)'
      <4>1. locks'[slot] = c
        BY <1>4, <1>5, <2>5, <3>2, ReadingType DEF PilotInv
      <4> QED  BY <2>4, <3>2, <3>4, <3>5, <4>1 DEF Recovers
    <3>7. Derived(c)'
      BY <2>2, <2>4, <3>1, <3>2, <3>6 DEF Derived
    <3>8. Within(c)'
      <4>1. C!Count(source) <= MaxRequests /\ C!Spent(source) + C!Held(source) <= Approval
        BY <3>3 DEF PilotInv, Within
      <4>2. C!Count(source) \in Nat /\ C!Spent(source) \in Nat
        BY ReadingType DEF PilotInv
      <4>3. C!Count(c)' <= MaxRequests /\ C!Spent(c)' + C!Held(c)' <= Approval
        BY <2>4, <3>2, <3>5, <4>1, <4>2
      <4> QED  BY <2>4, <4>3 DEF Within
    <3> QED  BY <3>7, <3>8
  <2>6. ASSUME C!Level(c) = 0 PROVE Derived(c)' /\ Within(c)'
    <3>1. batch[c].plan.count = 0 /\ batch[c].plan.spent = 0 /\ batch[c].plan.held = 0
      BY <2>6 DEF PilotInv, InTurn, C!NoPlan
    <3>2. count <= MaxRequests /\ spent <= Approval
      BY SheetsAssumption
    <3>3. Within(c)'
      BY <2>4, <3>1, <3>2 DEF Within
    <3>4. ASSUME pred # C!Nobody PROVE Carries(c, pred)'
      <4>1. Opened(pred) /\ C!Stopped(pred)
        BY <3>4 DEF C!Carriable, Opened
      <4>2. Same(pred)
        BY <2>3, <3>4, <4>1 DEF AtRest
      <4>3. C!Carriable(pred)' /\ C!Count(pred)' = C!Count(pred) /\ C!Spent(pred)' = C!Spent(pred)
        BY <3>4, <4>2, SameReading
      <4>4. locks'[0] = c
        BY <1>4, <1>5, <3>4
      <4> QED  BY <2>2, <3>4, <4>3, <4>4 DEF Carries
    <3>5. Derived(c)'
      BY <2>2, <2>4, <2>6, <3>4 DEF Derived
    <3> QED  BY <3>3, <3>5
  <2>7. Derived(c)' /\ Within(c)'
    BY <2>5, <2>6, ReadingType DEF PilotInv
  <2>8. spend' = [spend EXCEPT ![c] = entry] /\ (C!Level(c) > 0 => entry.pred = C!Nobody)
        /\ (entry.pred = C!Nobody => entry.count = 0 /\ entry.spent = 0) /\ entry.state = "open"
    BY <1>5
  <2> HIDE DEF entry
  <2> QED  BY <2>1, <2>3, <2>7, <2>8, LedgerMoves
<1>6. CASE spend' = [spend EXCEPT ![c].state = "dirs"] /\ locks' = taken
  <2> DEFINE entry == [spend[c] EXCEPT !.state = "dirs"]
  <2>1. entry \in [state: {"none", "dirs", "open"}, pred: 0..MaxControls, count: Nat, spent: Nat]
        /\ entry.state = "dirs" /\ entry.pred = spend[c].pred /\ entry.count = spend[c].count
        /\ entry.spent = spend[c].spent
    BY DEF PilotInv, PilotTyped
  <2>2. spend' = [spend EXCEPT ![c] = entry]
    BY <1>6
  <2>3. LocksKept /\ locks' \in [0..3 -> 0..(MaxControls + 1)]
    <3>1. locks' = taken
      BY <1>6
    <3>2. LocksKept
      BY <1>4, <3>1 DEF LocksKept
    <3> QED  BY <1>4, <3>1, <3>2
  <2> HIDE DEF entry
  <2> QED  BY <1>1, <2>1, <2>2, <2>3, LedgerMoves
<1>7. CASE /\ slot \in DOMAIN locks
           /\ \E left \in {c, C!Torn} : locks' = [locks EXCEPT ![slot] = left]
           /\ UNCHANGED spend
  <2>1. spend[c] \in [state: {"none", "dirs", "open"}, pred: 0..MaxControls, count: Nat, spent: Nat]
        /\ spend' = [spend EXCEPT ![c] = spend[c]]
    BY <1>7 DEF PilotInv, PilotTyped
  <2>2. LocksKept /\ locks' \in [0..3 -> 0..(MaxControls + 1)]
    <3>1. PICK left \in 0..(MaxControls + 1) : locks' = [locks EXCEPT ![slot] = left]
      BY <1>2, <1>7 DEF C!Torn
    <3>2. slot \in 0..3
      BY <1>2, <1>7
    <3>3. /\ [locks EXCEPT ![slot] = left] \in [0..3 -> 0..(MaxControls + 1)]
          /\ \A any \in 0..3 : locks[any] \in C!Controls => [locks EXCEPT ![slot] = left][any] = locks[any]
      BY <1>3, <3>2
    <3> QED  BY <3>1, <3>3 DEF LocksKept
  <2> QED  BY <1>1, <2>1, <2>2, LedgerMoves
<1> QED  BY <1>5, <1>6, <1>7 DEF C!OpenLedger, taken

LEMMA InitializeKeeps == ASSUME PilotInv, NEW c \in C!Controls, C!Initialize(c) PROVE PilotInv'
<1>1. batch[c].state = "frozen" /\ spend[c].state = "none" /\ UNCHANGED <<batch, trial, paid>>
  BY DEF C!Initialize
<1>2. \/ C!Level(c) = 0 /\ C!OpenLedger(c, 4, C!Nobody, 0, 0)
      \/ /\ C!Level(c) = 0 /\ C!SlotFree(0)
         /\ \E pred \in C!Controls \ {c} :
              /\ C!Carriable(pred)
              /\ C!Count(pred) <= MaxRequests /\ C!Spent(pred) <= Approval
              /\ C!OpenLedger(c, 0, pred, C!Count(pred), C!Spent(pred))
      \/ /\ C!Level(c) > 0 /\ C!SlotFree(C!Level(c))
         /\ C!PolicyValid(batch[c].plan.source) /\ C!Source(batch[c].plan.source)
         /\ batch[c].plan = C!Plan(batch[c].plan.source)
         /\ C!OpenLedger(c, C!Level(c), C!Nobody, 0, 0)
  BY Zenon DEF C!Initialize
<1>3. C!Nobody \in 0..MaxControls /\ C!Level(c) \in 0..4
  BY ReadingType, SheetsAssumption DEF PilotInv, C!Nobody
<1>4. CASE C!Level(c) = 0 /\ C!OpenLedger(c, 4, C!Nobody, 0, 0)
  BY <1>1, <1>3, <1>4, LedgerOpens
<1>5. CASE C!Level(c) = 0 /\ C!SlotFree(0) /\
           \E pred \in C!Controls \ {c} :
              /\ C!Carriable(pred)
              /\ C!Count(pred) <= MaxRequests /\ C!Spent(pred) <= Approval
              /\ C!OpenLedger(c, 0, pred, C!Count(pred), C!Spent(pred))
  <2>1. PICK pred \in C!Controls \ {c} :
              /\ C!Carriable(pred)
              /\ C!Count(pred) <= MaxRequests /\ C!Spent(pred) <= Approval
              /\ C!OpenLedger(c, 0, pred, C!Count(pred), C!Spent(pred))
    BY <1>5
  <2>2. C!Count(pred) \in Nat /\ C!Spent(pred) \in Nat /\ pred \in 0..MaxControls /\ pred # C!Nobody
    BY ReadingType DEF PilotInv, C!Controls, C!Nobody
  <2> QED  BY <1>1, <1>5, <2>1, <2>2, LedgerOpens
<1>6. CASE /\ C!Level(c) > 0 /\ C!SlotFree(C!Level(c))
           /\ C!PolicyValid(batch[c].plan.source) /\ C!Source(batch[c].plan.source)
           /\ batch[c].plan = C!Plan(batch[c].plan.source)
           /\ C!OpenLedger(c, C!Level(c), C!Nobody, 0, 0)
  BY <1>1, <1>3, <1>6, LedgerOpens
<1> QED  BY <1>2, <1>4, <1>5, <1>6

LEMMA CloseKeeps ==
  ASSUME PilotInv, NEW c \in C!Controls, NEW s \in Sheets, C!Close(c, s)
  PROVE  PilotInv'
<1>1. trial[c][s] = "claimed" /\ UNCHANGED <<batch, spend, locks>>
  BY DEF C!Close
<1>2. trial[c] \in [Sheets -> PilotStates] /\ paid[c] \in Nat /\ Reservation \in Nat
  BY StudyAssumption DEF PilotInv, PilotTyped
<1>3. s \in C!Claimed(c) /\ s \in C!Open(c) /\ s \in C!Ended(c, "claimed")
  BY <1>1 DEF C!Claimed, C!Open, C!Ended
<1>4. Opened(c) /\ ~C!Stopped(c) /\ Within(c)
  BY <1>3 DEF PilotInv, InTurn, C!Stopped
<1>5. PICK how \in {"completed", "contract", "unknown"}, cost \in 0..Reservation :
        /\ trial' = [trial EXCEPT ![c] = [trial[c] EXCEPT ![s] = how]]
        /\ paid' = [paid EXCEPT ![c] = paid[c] + cost]
        /\ how = "unknown" => cost = 0
  <2>1. CASE \E how \in {"completed", "contract"}, cost \in Charges :
               /\ trial' = [trial EXCEPT ![c] = [trial[c] EXCEPT ![s] = how]]
               /\ paid' = [paid EXCEPT ![c] = paid[c] + cost]
    BY <2>1, StudyAssumption
  <2>2. CASE trial' = [trial EXCEPT ![c] = [trial[c] EXCEPT ![s] = "unknown"]] /\ UNCHANGED paid
    <3>1. paid' = [paid EXCEPT ![c] = paid[c] + 0]
      BY <1>2, <2>2 DEF PilotInv, PilotTyped
    <3> 0 \in 0..Reservation
      BY <1>2
    <3> WITNESS "unknown" \in {"completed", "contract", "unknown"}, 0 \in 0..Reservation
    <3> QED  BY <2>2, <3>1
  <2> QED  BY <2>1, <2>2 DEF C!Close
<1> DEFINE cells == [trial[c] EXCEPT ![s] = how]
           sum == paid[c] + cost
<1>6. cells \in [Sheets -> PilotStates] /\ sum \in Nat
  BY <1>2, <1>5 DEF PilotStates
<1>7. trial'[c] = cells /\ paid'[c] = sum
  BY <1>5 DEF PilotInv, PilotTyped
<1>8. /\ C!Claimed(c)' = C!Claimed(c)
      /\ C!Open(c)' = IF how = "unknown" THEN C!Open(c) ELSE C!Open(c) \ {s}
  BY <1>2, <1>3, <1>5, <1>7 DEF C!Claimed, C!Open
<1>9. trial' = [trial EXCEPT ![c] = cells] /\ paid' = [paid EXCEPT ![c] = sum]
  BY <1>5
<1> HIDE DEF cells
<1>10. Within(c)'
  <2>1. C!Claimed(c)' \subseteq batch'[c].plan.eligible
    BY <1>1, <1>4, <1>8 DEF Within
  <2>2. C!Count(c)' = C!Count(c)
    BY <1>1, <1>8 DEF C!Count
  <2> DEFINE n == C!Cardinality(C!Open(c)')
             m == C!Cardinality(C!Open(c))
  <2>3. n \in Nat /\ m \in Nat /\ m = (IF how = "unknown" THEN n ELSE n + 1)
    <3>1. C!Open(c) \in SUBSET Sheets /\ C!Open(c)' \in SUBSET Sheets
      BY <1>8, ReadingType DEF PilotInv
    <3>2. IsFiniteSet(C!Open(c)) /\ IsFiniteSet(C!Open(c)') /\ m \in Nat /\ n \in Nat
          /\ m = Cardinality(C!Open(c)) /\ n = Cardinality(C!Open(c)')
      BY <3>1, SheetCount
    <3>4. CASE how # "unknown"
      <4>1. Cardinality(C!Open(c) \ {s}) = Cardinality(C!Open(c)) - 1
        BY <1>3, <3>2, FS_RemoveElement
      <4> QED  BY <1>8, <3>2, <3>4, <4>1
    <3> QED  BY <1>8, <3>2, <3>4
  <2>4. C!Held(c)' = batch[c].plan.held + Reservation * n /\ C!Held(c) = batch[c].plan.held + Reservation * m
    BY <1>1 DEF C!Held
  <2>5. C!Spent(c)' = batch[c].plan.spent + spend[c].spent + (paid[c] + cost)
        /\ C!Spent(c) = batch[c].plan.spent + spend[c].spent + paid[c]
    BY <1>1, <1>7 DEF C!Spent
  <2>6. {batch[c].plan.held, batch[c].plan.spent, spend[c].spent, paid[c], cost} \subseteq Nat
        /\ cost <= Reservation
    BY <1>2, <1>5 DEF PilotInv, PilotTyped, Plans
  <2>7. C!Spent(c) + C!Held(c) <= Approval /\ Approval \in Nat
    BY <1>4, SheetsAssumption DEF Within
  <2> HIDE DEF n, m
  <2>8. cost + Reservation * n <= Reservation * m /\ Reservation * n \in Nat /\ Reservation * m \in Nat
    <3>1. Reservation * n \in Nat /\ Reservation * (n + 1) = Reservation * n + Reservation
      BY <1>2, <2>3, Products
    <3>2. CASE how = "unknown"
      <4>1. m = n /\ cost = 0
        BY <1>5, <2>3, <3>2
      <4> QED  BY <3>1, <4>1
    <3>3. CASE how # "unknown"
      <4>1. m = n + 1
        BY <2>3, <3>3
      <4> QED  BY <1>2, <2>6, <3>1, <4>1
    <3> QED  BY <3>2, <3>3
  <2>9. C!Spent(c)' + C!Held(c)' <= Approval
    <3> DEFINE rn == Reservation * n
               rm == Reservation * m
    <3>1. cost + rn <= rm /\ rn \in Nat /\ rm \in Nat
      BY <2>8
    <3>2. C!Held(c)' = batch[c].plan.held + rn /\ C!Held(c) = batch[c].plan.held + rm
      BY <2>4
    <3> HIDE DEF rn, rm
    <3> QED  BY <2>5, <2>6, <2>7, <3>1, <3>2
  <2> QED  BY <1>4, <2>1, <2>2, <2>9 DEF Within
<1> QED  BY <1>1, <1>4, <1>6, <1>9, <1>10, CellMoves

--------------------------------------------------------------------------------
(* What follows from the invariant: the line of a batch                       *)

LEMMA ContinuesWhat ==
  ASSUME PilotInv, NEW c \in C!Controls, Opened(c), C!Continues(c) # C!Nobody
  PROVE  LET s == C!Continues(c)
         IN  /\ s \in C!Controls /\ Opened(s)
             /\ C!Level(c) > 0 => Recovers(c, s)
             /\ C!Level(c) = 0 => Carries(c, s)
<1>1. InTurn(c) /\ Derived(c) /\ C!Level(c) \in 0..3
  BY ReadingType DEF PilotInv
<1>2. CASE C!Level(c) > 0
  BY <1>1, <1>2 DEF InTurn, Derived, C!Continues, Recovers
<1>3. CASE C!Level(c) = 0
  <2>1. C!Continues(c) = spend[c].pred
    BY <1>3 DEF C!Continues
  <2>2. Carries(c, spend[c].pred)
    BY <1>1, <2>1 DEF Derived
  <2> QED  BY <1>3, <2>1, <2>2 DEF Carries, C!Carriable, Opened
<1> QED  BY <1>1, <1>2, <1>3

LEMMA OneContinues == ASSUME PilotInv PROVE C!OneContinuation
<1> SUFFICES ASSUME NEW c \in C!OpenLedgers, NEW d \in C!OpenLedgers, c # d,
                    C!Continues(c) # C!Nobody, C!Continues(c) = C!Continues(d)
             PROVE  FALSE
  BY DEF C!OneContinuation
<1>1. c \in C!Controls /\ d \in C!Controls /\ Opened(c) /\ Opened(d)
  BY DEF C!OpenLedgers, Opened
<1> DEFINE s == C!Continues(c)
<1>2. /\ s \in C!Controls /\ C!Level(c) \in 0..3 /\ C!Level(d) \in 0..3 /\ C!Level(s) \in 0..3
      /\ C!Level(c) > 0 => Recovers(c, s)
      /\ C!Level(c) = 0 => Carries(c, s)
      /\ C!Level(d) > 0 => Recovers(d, s)
      /\ C!Level(d) = 0 => Carries(d, s)
  BY <1>1, ContinuesWhat, ReadingType DEF PilotInv
<1> HIDE DEF s
<1>3. ~(\E x, y \in {c, d} : Recovers(x, s) /\ Carries(y, s))
  BY DEF Recovers, Carries, C!Source, C!StoppedAs, C!Carriable
<1>4. CASE C!Level(c) > 0 /\ C!Level(d) > 0
  BY <1>2, <1>4 DEF Recovers
<1>5. CASE C!Level(c) = 0 /\ C!Level(d) = 0
  BY <1>2, <1>5 DEF Carries
<1> QED  BY <1>2, <1>3, <1>4, <1>5

LEMMA LineIsClosed ==
  ASSUME NEW c, NEW d \in C!Lineage(c), C!Continues(d) # C!Nobody, C!Continues(d) \in C!Controls
  PROVE  C!Continues(d) \in C!Lineage(c)
BY DEF C!Lineage, C!Unbroken

(* How far down the line of a batch goes.                                     *)
Depth(c) == IF C!Level(c) > 0 THEN C!Level(c) + 1 ELSE IF spend[c].pred = C!Nobody THEN 0 ELSE 1

LEMMA DepthFalls ==
  ASSUME PilotInv, NEW c \in C!Controls, Opened(c)
  PROVE  /\ Depth(c) \in 0..4
         /\ Depth(c) = 0 => C!Continues(c) = C!Nobody
         /\ C!Continues(c) # C!Nobody => Depth(C!Continues(c)) < Depth(c)
<1>1. Depth(c) \in 0..4 /\ (Depth(c) = 0 => C!Continues(c) = C!Nobody)
  BY ReadingType DEF PilotInv, Depth, C!Continues
<1>2. ASSUME C!Continues(c) # C!Nobody PROVE Depth(C!Continues(c)) < Depth(c)
  <2>1. PICK s \in C!Controls : /\ s = C!Continues(c)
                                /\ C!Level(c) > 0 => Recovers(c, s)
                                /\ C!Level(c) = 0 => Carries(c, s)
    BY <1>2, ContinuesWhat
  <2>2. C!Level(c) \in 0..3 /\ C!Level(s) \in 0..3
    BY ReadingType DEF PilotInv
  <2>3. CASE C!Level(c) > 0
    BY <2>1, <2>2, <2>3 DEF Recovers, Depth
  <2>4. CASE C!Level(c) = 0
    <3>1. C!Continues(c) = spend[c].pred
      BY <2>4 DEF C!Continues
    <3> QED  BY <1>2, <2>1, <2>4, <3>1 DEF Carries, C!Carriable, Depth
  <2> QED  BY <2>1, <2>2, <2>3, <2>4
<1> QED  BY <1>1, <1>2

LEMMA LineIs ==
  ASSUME PilotInv, NEW c \in C!Controls, Opened(c)
  PROVE  /\ C!Lineage(c) \subseteq {d \in C!Controls : Opened(d)}
         /\ C!Continues(c) = C!Nobody => C!Lineage(c) = {c}
         /\ C!Continues(c) # C!Nobody =>
              /\ c \notin C!Lineage(C!Continues(c))
              /\ C!Lineage(c) = {c} \union C!Lineage(C!Continues(c))
<1>1. ASSUME NEW line \in SUBSET C!Controls, C!Unbroken(line), NEW d \in line
      PROVE  C!Lineage(d) \subseteq line
  BY <1>1 DEF C!Lineage
<1>2. c \in C!Lineage(c)
  BY DEF C!Lineage
<1>3. C!Lineage(c) \subseteq {d \in C!Controls : Opened(d)}
  <2>1. C!Unbroken({d \in C!Controls : Opened(d)})
    BY ContinuesWhat DEF C!Unbroken
  <2> QED  BY <1>1, <2>1
<1>4. ASSUME C!Continues(c) = C!Nobody PROVE C!Lineage(c) = {c}
  <2>1. C!Unbroken({c})
    BY <1>4 DEF C!Unbroken
  <2> QED  BY <1>1, <1>2, <2>1
<1>5. ASSUME C!Continues(c) # C!Nobody
      PROVE  /\ c \notin C!Lineage(C!Continues(c))
             /\ C!Lineage(c) = {c} \union C!Lineage(C!Continues(c))
  <2>1. PICK s \in C!Controls : s = C!Continues(c) /\ Opened(s)
    BY <1>5, ContinuesWhat
  <2> DEFINE below == {d \in C!Controls : Opened(d) /\ Depth(d) < Depth(c)}
  <2>2. C!Unbroken(below)
    <3> SUFFICES ASSUME NEW d \in below, C!Continues(d) # C!Nobody PROVE C!Continues(d) \in below
      BY DEF C!Unbroken
    <3>1. PICK e \in C!Controls : e = C!Continues(d) /\ Opened(e)
      BY ContinuesWhat
    <3>2. Depth(e) < Depth(d) /\ Depth(d) < Depth(c)
          /\ Depth(e) \in 0..4 /\ Depth(d) \in 0..4 /\ Depth(c) \in 0..4
      BY <3>1, DepthFalls
    <3>3. Depth(e) < Depth(c)
      BY <3>2
    <3> QED  BY <3>1, <3>3
  <2>3. s \in below /\ c \notin below
    BY <1>5, <2>1, DepthFalls
  <2> HIDE DEF below
  <2>4. C!Lineage(s) \subseteq below
    BY <1>1, <2>2, <2>3 DEF below
  <2>5. C!Lineage(c) \subseteq {c} \union C!Lineage(s)
    <3>1. C!Unbroken({c} \union C!Lineage(s))
      <4> SUFFICES ASSUME NEW d \in {c} \union C!Lineage(s), C!Continues(d) # C!Nobody
                   PROVE  C!Continues(d) \in C!Lineage(s)
        BY DEF C!Unbroken
      <4>1. CASE d = c
        BY <2>1, <4>1 DEF C!Lineage
      <4>2. CASE d \in C!Lineage(s)
        <5>1. d \in C!Controls /\ Opened(d)
          BY <2>4, <4>2 DEF below
        <5>2. C!Continues(d) \in C!Controls
          BY <5>1, ContinuesWhat
        <5> QED  BY <4>2, <5>2, LineIsClosed
      <4> QED  BY <4>1, <4>2
    <3>2. {c} \union C!Lineage(s) \in SUBSET C!Controls
      BY DEF C!Lineage
    <3> QED  BY <1>1, <3>1, <3>2
  <2>6. C!Lineage(s) \subseteq C!Lineage(c)
    <3>1. s \in C!Lineage(c)
      BY <1>2, <1>5, <2>1, LineIsClosed
    <3>2. C!Unbroken(C!Lineage(c))
      BY <1>3, ContinuesWhat, LineIsClosed DEF C!Unbroken
    <3> QED  BY <1>1, <1>3, <3>1, <3>2
  <2> QED  BY <1>2, <2>1, <2>3, <2>4, <2>5, <2>6
<1> QED  BY <1>3, <1>4, <1>5

(* Whatever a batch of the line tried is excluded from what continues it.     *)
LEMMA LineIsExcluded ==
  ASSUME PilotInv, NEW c \in C!Controls, Opened(c), NEW d \in C!Lineage(c)
  PROVE  C!Claimed(d) \subseteq C!Excluded(c)
<1> DEFINE line == {x \in C!Controls : Opened(x) /\ C!Excluded(x) \subseteq C!Excluded(c)}
<1>1. C!Unbroken(line)
  <2> SUFFICES ASSUME NEW x \in line, C!Continues(x) # C!Nobody PROVE C!Continues(x) \in line
    BY DEF C!Unbroken
  <2>1. PICK s \in C!Controls : /\ s = C!Continues(x) /\ Opened(s)
                                /\ C!Level(x) > 0 => Recovers(x, s)
                                /\ C!Level(x) = 0 => Carries(x, s)
    BY ContinuesWhat
  <2>2. C!Excluded(s) \subseteq C!Excluded(x)
    <3>1. CASE C!Level(x) > 0
      <4>1. batch[x].plan.excluded = C!Excluded(s)
        BY <2>1, <3>1, PlanType DEF Recovers, PilotInv
      <4> QED  BY <4>1 DEF C!Excluded
    <3>2. CASE C!Level(x) = 0
      <4>1. spend[x].pred = s /\ s # C!Nobody /\ C!Carriable(s)
        BY <2>1, <3>2 DEF C!Continues, Carries
      <4>2. batch[s].plan.excluded = {} /\ spend[s].pred = C!Nobody
        BY <4>1 DEF C!Carriable, PilotInv, InTurn, C!NoPlan
      <4> QED  BY <4>1, <4>2 DEF C!Excluded
    <3> QED  BY <3>1, <3>2, ReadingType DEF PilotInv
  <2> QED  BY <2>1, <2>2
<1>2. c \in line /\ line \in SUBSET C!Controls
  OBVIOUS
<1>3. d \in line
  <2> HIDE DEF line
  <2> QED  BY <1>1, <1>2 DEF C!Lineage
<1> QED  BY <1>3 DEF C!Excluded

LEMMA NoneTriedAgain == ASSUME PilotInv PROVE C!NoCellTriedAgain
<1> SUFFICES ASSUME NEW c \in C!Controls, Opened(c), C!Level(c) > 0,
                    NEW d \in C!Lineage(c) \ {c}
             PROVE  C!Claimed(c) \intersect C!Claimed(d) = {}
  BY DEF C!NoCellTriedAgain, C!OpenLedgers, Opened
<1>1. C!Continues(c) # C!Nobody
  BY DEF C!Continues, PilotInv, InTurn, C!Controls, C!Nobody
<1>2. PICK s \in C!Controls : s = C!Continues(c) /\ Opened(s) /\ Recovers(c, s)
  BY <1>1, ContinuesWhat
<1>3. d \in C!Lineage(s)
  BY <1>1, <1>2, LineIs
<1>4. C!Claimed(d) \subseteq C!Excluded(s)
  BY <1>2, <1>3, LineIsExcluded
<1>5. batch[c].plan.eligible = batch[s].plan.eligible \ C!Excluded(s)
  BY <1>2, PlanType DEF Recovers, PilotInv
<1>6. C!Claimed(c) \subseteq batch[c].plan.eligible
  BY DEF PilotInv, Within
<1> QED  BY <1>4, <1>5, <1>6

(* A figure that every batch adds to that of the batch it continues.          *)
Cumulates(own, all) ==
  \A c \in C!Controls : Opened(c) =>
    all[c] = own[c] + (IF C!Continues(c) = C!Nobody THEN 0 ELSE all[C!Continues(c)])

LEMMA LineTotals ==
  ASSUME PilotInv, NEW own \in [C!Controls -> Nat], NEW all, Cumulates(own, all),
         NEW c \in C!Controls, Opened(c)
  PROVE  SumFunction([d \in C!Lineage(c) |-> own[d]]) = all[c]
<1> DEFINE Total(x) == SumFunction([d \in C!Lineage(x) |-> own[d]])
           At(n) == \A x \in C!Controls : Opened(x) /\ Depth(x) = n => Total(x) = all[x]
<1>1. ASSUME NEW n \in 0..4, \A m \in 0..4 : m < n => At(m) PROVE At(n)
  <2> SUFFICES ASSUME NEW x \in C!Controls, Opened(x), Depth(x) = n PROVE Total(x) = all[x]
    OBVIOUS
  <2> DEFINE line == C!Lineage(x)
             f == [d \in line |-> own[d]]
  <2>1. line \subseteq C!Controls /\ IsFiniteSet(line) /\ x \in line
    <3>1. line \subseteq C!Controls /\ x \in line
      BY DEF C!Lineage
    <3>2. IsFiniteSet(C!Controls)
      BY SheetsAssumption, FS_Interval DEF C!Controls
    <3> QED  BY <3>1, <3>2, FS_Subset
  <2> HIDE DEF line
  <2>2. f \in [line -> Nat]
    BY <2>1
  <2>3. SumFunction(f) = own[x] + SumFunction([y \in line \ {x} |-> f[y]])
    <3> HIDE DEF f
    <3>1. SumFunction(f) = f[x] + SumFunction([y \in line \ {x} |-> f[y]])
      BY <2>1, <2>2, SumRemove
    <3> QED  BY <2>1, <3>1 DEF f
  <2>4. [y \in line \ {x} |-> f[y]] = [y \in line \ {x} |-> own[y]]
    OBVIOUS
  <2>5. Total(x) = own[x] + SumFunction([y \in line \ {x} |-> own[y]])
    BY <2>3, <2>4 DEF line
  <2>6. own[x] \in Nat
    OBVIOUS
  <2> HIDE DEF f
  <2>7. CASE C!Continues(x) = C!Nobody
    <3>1. line \ {x} = {}
      BY <2>7, LineIs DEF line
    <3>2. SumFunction([y \in {} |-> own[y]]) = 0
      <4>1. SumFunction([y \in {} |-> 0]) = 0
        BY SumZero, FS_EmptySet
      <4>2. [y \in {} |-> own[y]] = [y \in {} |-> 0]
        OBVIOUS
      <4> QED  BY <4>1, <4>2
    <3>3. all[x] = own[x] + 0
      BY <2>7 DEF Cumulates
    <3> QED  BY <2>5, <3>1, <3>2, <3>3
  <2>8. CASE C!Continues(x) # C!Nobody
    <3>1. PICK s \in C!Controls : s = C!Continues(x) /\ Opened(s)
      BY <2>8, ContinuesWhat
    <3>2. line \ {x} = C!Lineage(s)
      BY <2>8, <3>1, LineIs DEF line
    <3>3. Total(s) = all[s]
      <4>1. Depth(s) < n /\ Depth(s) \in 0..4
        BY <2>8, <3>1, DepthFalls
      <4> QED  BY <1>1, <3>1, <4>1
    <3>4. all[x] = own[x] + all[s]
      BY <2>8, <3>1 DEF Cumulates
    <3> QED  BY <2>5, <3>2, <3>3, <3>4
  <2> QED  BY <2>7, <2>8
<1> HIDE DEF At
<1>2. At(0)
  BY <1>1
<1>3. At(1)
  BY <1>1, <1>2
<1>4. At(2)
  BY <1>1, <1>2, <1>3
<1>5. At(3)
  BY <1>1, <1>2, <1>3, <1>4
<1>6. At(4)
  BY <1>1, <1>2, <1>3, <1>4, <1>5
<1>7. Depth(c) \in 0..4
  BY DepthFalls
<1> QED  BY <1>2, <1>3, <1>4, <1>5, <1>6, <1>7 DEF At

LEMMA SameSumOfLine == ASSUME NEW g PROVE C!SumFunction(g) = SumFunction(g)
BY Zenon DEF C!SumFunction, SumFunction, C!SumFunctionOnSet, SumFunctionOnSet, C!FoldFunctionOnSet, FoldFunctionOnSet,
   C!MapThenFoldSet, MapThenFoldSet

(* A batch that was carried owes nothing.                                     *)
LEMMA CarriedOwesNothing ==
  ASSUME PilotInv, NEW s \in C!Controls, C!Carriable(s)
  PROVE  C!Held(s) = 0
<1>1. C!Open(s) = {}
  BY DEF C!Carriable, C!Stopped, C!Open, C!Ended
<1>2. batch[s].plan.held = 0
  BY DEF C!Carriable, PilotInv, InTurn, C!NoPlan
<1>3. C!Cardinality({}) = 0 /\ Reservation * 0 = 0
  BY SheetCount, FS_EmptySet, StudyAssumption, Products
<1>4. C!Held(s) = 0 + Reservation * 0
  BY <1>1, <1>2, <1>3 DEF C!Held
<1> QED  BY <1>3, <1>4

LEMMA ReadingAddsUp ==
  ASSUME PilotInv, NEW c \in C!Controls, Opened(c)
  PROVE  LET s == C!Continues(c)
             n == C!Cardinality(C!Claimed(c))
         IN  /\ n \in Nat /\ C!Kept(c) \in Nat
             /\ s = C!Nobody => C!Count(c) = n /\ C!Spent(c) + C!Held(c) = C!Kept(c)
             /\ s # C!Nobody => /\ C!Count(c) = n + C!Count(s)
                                /\ C!Spent(c) + C!Held(c) = C!Kept(c) + (C!Spent(s) + C!Held(s))
<1> DEFINE n == C!Cardinality(C!Claimed(c))
           owed == Reservation * C!Cardinality(C!Open(c))
<1>1. /\ n \in Nat /\ owed \in Nat /\ paid[c] \in Nat
      /\ {batch[c].plan.count, batch[c].plan.spent, batch[c].plan.held} \subseteq Nat
      /\ {spend[c].count, spend[c].spent} \subseteq Nat
      /\ C!Level(c) \in 0..3
  BY ReadingType DEF PilotInv, PilotTyped, Plans
<1>2. /\ C!Count(c) = batch[c].plan.count + spend[c].count + n
      /\ C!Spent(c) = batch[c].plan.spent + spend[c].spent + paid[c]
      /\ C!Held(c) = batch[c].plan.held + owed
      /\ C!Kept(c) = paid[c] + owed
  BY DEF C!Count, C!Spent, C!Held, C!Kept
<1>3. /\ spend[c].pred = C!Nobody => spend[c].count = 0 /\ spend[c].spent = 0
      /\ C!Level(c) = 0 => batch[c].plan.count = 0 /\ batch[c].plan.spent = 0 /\ batch[c].plan.held = 0
      /\ C!Level(c) > 0 => batch[c].plan.source \in C!Controls /\ spend[c].pred = C!Nobody
  BY DEF PilotInv, InTurn, C!NoPlan
<1> HIDE DEF n, owed
<1>4. ASSUME C!Continues(c) = C!Nobody PROVE C!Count(c) = n /\ C!Spent(c) + C!Held(c) = C!Kept(c)
  <2>1. C!Level(c) = 0 /\ spend[c].pred = C!Nobody
    BY <1>1, <1>3, <1>4 DEF C!Continues, C!Controls, C!Nobody
  <2>2. /\ batch[c].plan.count = 0 /\ batch[c].plan.spent = 0 /\ batch[c].plan.held = 0
        /\ spend[c].count = 0 /\ spend[c].spent = 0
    BY <1>3, <2>1
  <2>3. C!Count(c) = 0 + 0 + n /\ C!Spent(c) = 0 + 0 + paid[c] /\ C!Held(c) = 0 + owed
    BY <1>2, <2>2
  <2> QED  BY <1>1, <1>2, <2>3
<1>5. ASSUME C!Continues(c) # C!Nobody
      PROVE  /\ C!Count(c) = n + C!Count(C!Continues(c))
             /\ C!Spent(c) + C!Held(c) = C!Kept(c) + (C!Spent(C!Continues(c)) + C!Held(C!Continues(c)))
  <2>1. PICK s \in C!Controls : /\ s = C!Continues(c)
                                /\ C!Level(c) > 0 => Recovers(c, s)
                                /\ C!Level(c) = 0 => Carries(c, s)
    BY <1>5, ContinuesWhat
  <2>2. C!Count(s) \in Nat /\ C!Spent(s) \in Nat /\ C!Held(s) \in Nat
    BY ReadingType DEF PilotInv
  <2>3. CASE C!Level(c) > 0
    <3>1. /\ batch[c].plan.count = C!Count(s) /\ batch[c].plan.spent = C!Spent(s)
          /\ batch[c].plan.held = C!Held(s)
      BY <2>1, <2>3, PlanType DEF Recovers, PilotInv
    <3> QED  BY <1>1, <1>2, <1>3, <2>1, <2>2, <2>3, <3>1
  <2>4. CASE C!Level(c) = 0
    <3>1. spend[c].pred = s
      BY <2>1, <2>4 DEF C!Continues
    <3>2. spend[c].count = C!Count(s) /\ spend[c].spent = C!Spent(s) /\ C!Carriable(s)
      BY <2>1, <2>4 DEF Carries
    <3>3. C!Held(s) = 0
      BY <3>2, CarriedOwesNothing
    <3> QED  BY <1>1, <1>2, <1>3, <2>1, <2>2, <2>4, <3>2, <3>3
  <2> QED  BY <1>1, <2>3, <2>4
<1>6. C!Kept(c) \in Nat
  BY <1>1, <1>2
<1> QED  BY <1>1, <1>4, <1>5, <1>6 DEF n

LEMMA LineWithin == ASSUME PilotInv PROVE C!LineWithinApproval
<1> SUFFICES ASSUME NEW c \in C!Controls, Opened(c)
             PROVE  /\ C!SumFunction([d \in C!Lineage(c) |-> C!Kept(d)]) <= Approval
                    /\ C!SumFunction([d \in C!Lineage(c) |-> C!Cardinality(C!Claimed(d))]) <= MaxRequests
  BY DEF C!LineWithinApproval, C!OpenLedgers, Opened
<1> DEFINE money == [d \in C!Controls |-> IF Opened(d) THEN C!Kept(d) ELSE 0]
           total == [d \in C!Controls |-> C!Spent(d) + C!Held(d)]
           cells == [d \in C!Controls |-> IF Opened(d) THEN C!Cardinality(C!Claimed(d)) ELSE 0]
           number == [d \in C!Controls |-> C!Count(d)]
<1>1. money \in [C!Controls -> Nat] /\ cells \in [C!Controls -> Nat]
  BY ReadingAddsUp
<1>2. Cumulates(money, total) /\ Cumulates(cells, number)
  <2> SUFFICES ASSUME NEW d \in C!Controls, Opened(d)
               PROVE  /\ total[d] = money[d] + (IF C!Continues(d) = C!Nobody THEN 0 ELSE total[C!Continues(d)])
                      /\ number[d] = cells[d] + (IF C!Continues(d) = C!Nobody THEN 0 ELSE number[C!Continues(d)])
    BY DEF Cumulates
  <2>1. CASE C!Continues(d) = C!Nobody
    BY <2>1, ReadingAddsUp
  <2>2. CASE C!Continues(d) # C!Nobody
    BY <2>2, ReadingAddsUp, ContinuesWhat
  <2> QED  BY <2>1, <2>2
<1>3. /\ [d \in C!Lineage(c) |-> money[d]] = [d \in C!Lineage(c) |-> C!Kept(d)]
      /\ [d \in C!Lineage(c) |-> cells[d]] = [d \in C!Lineage(c) |-> C!Cardinality(C!Claimed(d))]
  BY LineIs
<1>4. total[c] = C!Spent(c) + C!Held(c) /\ number[c] = C!Count(c)
  OBVIOUS
<1>5. total[c] <= Approval /\ number[c] <= MaxRequests
  BY <1>4 DEF PilotInv, Within
<1> HIDE DEF money, total, cells, number
<1>6. /\ SumFunction([d \in C!Lineage(c) |-> money[d]]) = total[c]
      /\ SumFunction([d \in C!Lineage(c) |-> cells[d]]) = number[c]
  BY <1>1, <1>2, LineTotals
<1> QED  BY <1>3, <1>5, <1>6, SameSumOfLine

(* Continuing a stopped batch stays within the one approval: no batch is     *)
(* continued twice, whoever died while taking the lock; no cell is tried     *)
(* again along a line; its batches together pay and hold back no more than   *)
(* the approval and ask no more than its requests; and what was opened can   *)
(* be derived and read again - for every number of batches, every set of     *)
(* cells, every approval and reservation and every charge within it.         *)
THEOREM ContinuationsStayWithin == MCSpec => []ContinuedWithin
<1> DEFINE Inv == focus = "pilots" => PilotInv
<1>1. MCInit => Inv
  <2> SUFFICES ASSUME MCInit PROVE PilotInv
    OBVIOUS
  <2>1. /\ batch = [c \in C!Controls |-> [state |-> "none", plan |-> C!NoPlan, order |-> "up"]]
        /\ spend = [c \in C!Controls |-> [state |-> "none", pred |-> C!Nobody, count |-> 0, spent |-> 0]]
        /\ trial = [c \in C!Controls |-> [s \in Sheets |-> "none"]]
        /\ paid = [c \in C!Controls |-> 0]
        /\ locks = [slot \in 0..3 |-> C!Nobody]
    BY DEF MCInit, C!PilotsInit
  <2>2. MaxControls \in Nat /\ C!Nobody \in 0..MaxControls /\ C!NoPlan \in Plans /\ C!NoPlan.level = 0
    BY SheetsAssumption DEF C!Nobody, C!NoPlan, Plans
  <2>3. PilotTyped
    BY <2>1, <2>2 DEF PilotTyped, PilotStates
  <2>4. ASSUME NEW c \in C!Controls PROVE InTurn(c) /\ ~Opened(c)
    <3>1. C!Claimed(c) = {}
      BY <2>1 DEF C!Claimed
    <3> QED  BY <2>1, <2>2, <3>1 DEF InTurn, Opened, C!Level
  <2> QED  BY <2>3, <2>4 DEF PilotInv
<1>2. Inv /\ [MCNext]_allVars => Inv'
  <2> SUFFICES ASSUME Inv, [MCNext]_allVars, focus' = "pilots"
               PROVE  PilotInv'
    OBVIOUS
  <2>1. PilotInv /\ (C!PilotsNext \/ UNCHANGED pilotVars)
    BY FocusedStep
  <2>2. CASE UNCHANGED pilotVars
    <3>1. UNCHANGED <<batch, spend, trial, paid, locks>>
      BY <2>2 DEF pilotVars
    <3>2. PilotTyped' /\ AtRest /\ LocksKept
      BY <2>1, <3>1 DEF PilotInv, PilotTyped, AtRest, Same, LocksKept
    <3>3. ASSUME NEW c \in C!Controls PROVE InTurn(c)' /\ (Opened(c)' => Derived(c)' /\ Within(c)')
      <4>1. Same(c) /\ InTurn(c) /\ (Opened(c) => Derived(c) /\ Within(c))
        BY <2>1, <3>1 DEF Same, PilotInv
      <4>2. InTurn(c)' /\ (Opened(c)' <=> Opened(c)) /\ (Within(c)' <=> Within(c))
        BY <4>1, SameReading
      <4>3. Opened(c) => Derived(c)'
        BY <2>1, <3>1, <3>2, DerivedKept
      <4> QED  BY <4>1, <4>2, <4>3
    <3> QED  BY <3>2, <3>3 DEF PilotInv
  <2>3. ASSUME NEW c \in C!Controls,
               C!Freeze(c) \/ C!Initialize(c) \/ C!Begin(c) \/ \E s \in Sheets : C!Close(c, s)
        PROVE  PilotInv'
    BY <2>1, <2>3, FreezeKeeps, InitializeKeeps, BeginKeeps, CloseKeeps
  <2> QED  BY <2>1, <2>2, <2>3 DEF C!PilotsNext
<1>3. Inv => ContinuedWithin
  <2> SUFFICES ASSUME PilotInv PROVE C!ContinuedWithin
    BY DEF ContinuedWithin, Of
  <2>1. C!OpenedStaysReadable
    BY OpenIsReadable DEF C!OpenedStaysReadable, C!OpenLedgers, Opened
  <2> QED  BY <2>1, OneContinues, NoneTriedAgain, LineWithin DEF C!ContinuedWithin
<1> QED  BY <1>1, <1>2, <1>3, PTL DEF MCSpec

--------------------------------------------------------------------------------
(* The observed child: what a completion record proves, for every clock and *)
(* every number of polls                                                     *)

CompletionSpec == CompletionInit /\ [][CompletionNext]_completionVars

Children == [state: {"running", "ended", "reaped"}, exit: {"none", "zero", "nonzero"}, at: Nat]
Codes ==
  {"pre_wait_observation_failed", "cancelled", "deadline_before_wait", "post_wait_clock_failed",
   "wait4_failed", "live_guard_failed", "poll_pause_failed", "deadline_without_exit", "poll_limit",
   "completion_observation_after_deadline", "wait_returned_after_deadline",
   "post_wait_observation_failed", "cpu_accounting_unavailable"}
Records ==
  [polls: Nat, limit: Nat, reaped: BOOLEAN, exit: {"none", "zero", "nonzero"}, upper: Nat,
   cpu: BOOLEAN, errors: SUBSET Codes, status: {"evidence_incomplete", "observed"}]

Typed ==
  /\ instant \in Nat /\ instant <= MaxInstant
  /\ child \in Children /\ child.at <= instant
  /\ bound \in [limit: Nat, cancelled: BOOLEAN]
  /\ record \in Records

\* The exit status is with the kernel, in the hands of the observer, or kept.
Handed ==
  /\ child.state = "reaped" <=> observer = "waited" \/ record.reaped
  /\ observer \in {"start", "wait", "nothing", "waited"} => ~record.reaped
  /\ observer = "kept" => record.reaped

\* What is kept is the child's, dated by a clock that was read after its end.
Dated == record.reaped => record.exit = child.exit /\ child.at <= record.upper

CompletionInv == Typed /\ Handed /\ Dated

LEMMA CompletionInvInit ==
  ASSUME CompletionInit
  PROVE  CompletionInv
<1>1. Typed
  <2>1. bound \in [limit: Nat, cancelled: BOOLEAN]
    <3>1. bound \in [limit: Instants \ {0}, cancelled: {FALSE}]
      BY Zenon DEF CompletionInit
    <3>2. Instants \subseteq Nat
      BY CompletionAssumption DEF Instants
    <3> QED
      BY <3>1, <3>2
  <2>2. record \in Records
    BY CompletionAssumption DEF CompletionInit, Records
  <2> QED
    BY <2>1, <2>2, CompletionAssumption DEF CompletionInit, Typed, Children
<1>2. Handed /\ Dated
  BY DEF CompletionInit, Handed, Dated
<1> QED
  BY <1>1, <1>2 DEF CompletionInv

\* The clock and the caller move nothing the record depends on; a child that ends
\* was not reaped.
LEMMA WorldKeeps ==
  ASSUME CompletionInv, ChildEnds \/ TimePasses \/ CallerChanges
  PROVE  CompletionInv'
<1>1. CASE ChildEnds
  <2>1. PICK exit \in {"zero", "nonzero"} : child' = [state |-> "ended", exit |-> exit, at |-> instant]
    BY <1>1 DEF ChildEnds
  <2>2. child.state = "running" /\ UNCHANGED <<instant, bound, observer, record>>
    BY <1>1 DEF ChildEnds
  <2>3. Typed'
    BY <2>1, <2>2 DEF CompletionInv, Typed, Children
  <2>4. ~record.reaped /\ observer # "waited"
    BY <2>2 DEF CompletionInv, Handed
  <2>5. Handed' /\ Dated'
    BY <2>1, <2>2, <2>4 DEF CompletionInv, Handed, Dated
  <2> QED
    BY <2>3, <2>5 DEF CompletionInv
<1>2. CASE TimePasses
  <2>1. Typed'
    BY <1>2, CompletionAssumption DEF TimePasses, CompletionInv, Typed, Children
  <2>2. Handed' /\ Dated'
    BY <1>2 DEF TimePasses, CompletionInv, Handed, Dated
  <2> QED
    BY <2>1, <2>2 DEF CompletionInv
<1>3. CASE CallerChanges
  <2>1. bound' \in [limit: Nat, cancelled: BOOLEAN]
    <3>1. bound \in [limit: Nat, cancelled: BOOLEAN] /\ Instants \subseteq Nat
      BY CompletionAssumption DEF CompletionInv, Typed, Instants
    <3>2. CASE \E limit \in Instants \ {bound.limit} : bound' = [bound EXCEPT !.limit = limit]
      BY <3>1, <3>2
    <3>3. CASE bound' = [bound EXCEPT !.cancelled = TRUE]
      BY <3>1, <3>3
    <3> QED
      BY <1>3, <3>2, <3>3 DEF CallerChanges
  <2>2. UNCHANGED <<child, instant, observer, record>>
    BY <1>3 DEF CallerChanges
  <2> QED
    BY <2>1, <2>2 DEF CompletionInv, Typed, Handed, Dated
<1> QED
  BY <1>1, <1>2, <1>3

\* A step that keeps what the record says of an exit and goes on, or returns.
LEMMA RecordKeeps ==
  ASSUME CompletionInv, UNCHANGED <<child, instant, bound>>,
         record' \in Records, record'.reaped = record.reaped,
         record'.exit = record.exit, record'.upper = record.upper,
         observer # "waited", observer' \in {"start", "wait", "nothing", "returned"},
         observer' # "returned" => ~record.reaped
  PROVE  CompletionInv'
<1>1. Typed'
  BY DEF CompletionInv, Typed
<1>2. Handed' /\ Dated'
  BY DEF CompletionInv, Handed, Dated
<1> QED
  BY <1>1, <1>2 DEF CompletionInv

LEMMA TightenedRecord ==
  ASSUME CompletionInv
  PROVE  /\ Tightened(record) \in Records
         /\ Tightened(record).reaped = record.reaped /\ Tightened(record).exit = record.exit
         /\ Tightened(record).upper = record.upper
<1>1. Least(record.limit, bound.limit) \in Nat
  BY DEF CompletionInv, Typed, Records, Least
<1> QED
  BY <1>1 DEF CompletionInv, Typed, Records, Tightened

LEMMA ErrorRecord ==
  ASSUME NEW rec \in Records, NEW code \in Codes
  PROVE  /\ WithError(rec, code) \in Records
         /\ WithError(rec, code).reaped = rec.reaped /\ WithError(rec, code).exit = rec.exit
         /\ WithError(rec, code).upper = rec.upper
BY DEF Records, WithError

LEMMA BeforeWaitKeeps == ASSUME CompletionInv, BeforeWait PROVE CompletionInv'
<1> DEFINE rec == Tightened(record)
<1>1. /\ rec \in Records /\ rec.reaped = record.reaped /\ rec.exit = record.exit
      /\ rec.upper = record.upper
  BY TightenedRecord
<1>2. observer = "start" /\ UNCHANGED <<child, instant, bound>> /\ ~record.reaped
  BY DEF BeforeWait, CompletionInv, Handed
<1> HIDE DEF rec
<1>3. \/ record' = WithError(rec, "pre_wait_observation_failed") /\ observer' = "returned"
      \/ record' = WithError(rec, "cancelled") /\ observer' = "returned"
      \/ record' = WithError(rec, "deadline_before_wait") /\ observer' = "returned"
      \/ record' = [rec EXCEPT !.polls = @ + 1] /\ observer' = "wait"
  BY Zenon DEF BeforeWait, Return, Moved, rec
<1>4. ASSUME NEW code \in Codes, record' = WithError(rec, code), observer' = "returned"
      PROVE  CompletionInv'
  <2>1. /\ record' \in Records /\ record'.reaped = record.reaped
        /\ record'.exit = record.exit /\ record'.upper = record.upper
    BY <1>1, <1>4, ErrorRecord
  <2> QED
    BY <1>2, <1>4, <2>1, RecordKeeps
<1>5. CASE record' = [rec EXCEPT !.polls = @ + 1] /\ observer' = "wait"
  <2>1. /\ record' \in Records /\ record'.reaped = record.reaped
        /\ record'.exit = record.exit /\ record'.upper = record.upper
    BY <1>1, <1>5 DEF Records
  <2> QED
    BY <1>2, <1>5, <2>1, RecordKeeps
<1> QED
  BY <1>3, <1>4, <1>5 DEF Codes

LEMMA GuardKeeps == ASSUME CompletionInv, Guard PROVE CompletionInv'
<1> DEFINE rec == Tightened(record)
<1>1. /\ rec \in Records /\ rec.reaped = record.reaped /\ rec.exit = record.exit
      /\ rec.upper = record.upper
  BY TightenedRecord
<1>2. observer = "nothing" /\ UNCHANGED <<child, instant, bound>> /\ ~record.reaped
  BY DEF Guard, CompletionInv, Handed
<1> HIDE DEF rec
<1>3. \/ record' = WithError(rec, "live_guard_failed") /\ observer' = "returned"
      \/ record' = WithError(rec, "poll_pause_failed") /\ observer' = "returned"
      \/ record' = WithError(rec, "cancelled") /\ observer' = "returned"
      \/ record' = WithError(rec, "deadline_without_exit") /\ observer' = "returned"
      \/ record' = WithError(rec, "poll_limit") /\ observer' = "returned"
      \/ record' = rec /\ observer' = "start"
  BY Zenon DEF Guard, Return, Moved, rec
<1>4. ASSUME NEW code \in Codes, record' = WithError(rec, code), observer' = "returned"
      PROVE  CompletionInv'
  <2>1. /\ record' \in Records /\ record'.reaped = record.reaped
        /\ record'.exit = record.exit /\ record'.upper = record.upper
    BY <1>1, <1>4, ErrorRecord
  <2> QED
    BY <1>2, <1>4, <2>1, RecordKeeps
<1>5. CASE record' = rec /\ observer' = "start"
  BY <1>1, <1>2, <1>5, RecordKeeps
<1> QED
  BY <1>3, <1>4, <1>5 DEF Codes

\* The wait takes the status from the kernel into the observer's hands.
LEMMA WaitKeeps == ASSUME CompletionInv, Wait PROVE CompletionInv'
<1>1. observer = "wait" /\ UNCHANGED <<instant, bound>> /\ ~record.reaped /\ record \in Records
  BY DEF Wait, CompletionInv, Handed, Typed
<1>2. CASE child' = [child EXCEPT !.state = "reaped"] /\ observer' = "waited" /\ record' = record
  <2>1. Typed'
    BY <1>1, <1>2 DEF CompletionInv, Typed, Children
  <2>2. Handed' /\ Dated'
    BY <1>1, <1>2 DEF CompletionInv, Typed, Children, Handed, Dated
  <2> QED
    BY <2>1, <2>2 DEF CompletionInv
<1>3. CASE child' = child /\ observer' = "nothing" /\ record' = record
  BY <1>1, <1>3, RecordKeeps
<1>4. ASSUME NEW code \in Codes, child' = child, record' = WithError(record, code), observer' = "returned"
      PROVE  CompletionInv'
  <2>1. /\ record' \in Records /\ record'.reaped = record.reaped
        /\ record'.exit = record.exit /\ record'.upper = record.upper
    BY <1>1, <1>4, ErrorRecord
  <2> QED
    BY <1>1, <1>4, <2>1, RecordKeeps
<1>5. \/ child' = [child EXCEPT !.state = "reaped"] /\ observer' = "waited" /\ record' = record
      \/ child' = child /\ observer' = "nothing" /\ record' = record
      \/ child' = child /\ record' = WithError(record, "post_wait_clock_failed") /\ observer' = "returned"
      \/ child' = child /\ record' = WithError(record, "wait4_failed") /\ observer' = "returned"
  BY Zenon DEF Wait, Return, Moved
<1> QED
  BY <1>2, <1>3, <1>4, <1>5 DEF Codes

\* The record takes it over; the clock was read after the wait, or never.
LEMMA KeepExitKeeps == ASSUME CompletionInv, KeepExit PROVE CompletionInv'
<1>1. observer = "waited" /\ observer' = "kept" /\ UNCHANGED <<child, instant, bound>>
  BY DEF KeepExit, Moved
<1>2. PICK upper \in {instant, NoUpper}, errors \in SUBSET Codes :
        record' = [record EXCEPT !.reaped = TRUE, !.exit = child.exit, !.upper = upper,
                                 !.errors = @ \union errors]
  <2>1. CASE Kept(instant, {})
    <3>1. {} \in SUBSET Codes
      OBVIOUS
    <3>2. record' = [record EXCEPT !.reaped = TRUE, !.exit = child.exit, !.upper = instant,
                                   !.errors = @ \union {}]
      BY <2>1, Zenon DEF Kept
    <3> QED
      BY <3>1, <3>2
  <2>2. CASE Kept(NoUpper, {"post_wait_clock_failed"})
    BY <2>2 DEF Kept, Codes
  <2> QED
    BY <2>1, <2>2 DEF KeepExit
<1>3. upper \in Nat /\ child.at <= upper
  BY CompletionAssumption DEF CompletionInv, Typed, Children, NoUpper
<1>4. /\ record' \in Records /\ record'.reaped = TRUE /\ record'.exit = child.exit
      /\ record'.upper = upper
  BY <1>2, <1>3 DEF CompletionInv, Typed, Records, Children
<1>5. Typed'
  BY <1>1, <1>4 DEF CompletionInv, Typed
<1>6. Handed' /\ Dated'
  BY <1>1, <1>3, <1>4 DEF CompletionInv, Handed, Dated
<1> QED
  BY <1>5, <1>6 DEF CompletionInv

LEMMA JudgeExitKeeps == ASSUME CompletionInv, JudgeExit PROVE CompletionInv'
<1> DEFINE rec == Tightened(record)
<1>1. /\ rec \in Records /\ rec.reaped = record.reaped /\ rec.exit = record.exit
      /\ rec.upper = record.upper
  BY TightenedRecord
<1>2. observer = "kept" /\ observer' = "returned" /\ UNCHANGED <<child, instant, bound>>
  BY DEF JudgeExit, Return, Moved
<1> HIDE DEF rec
<1>3. PICK cpu \in BOOLEAN, bounds \in BOOLEAN :
        record' = [rec EXCEPT !.cpu = cpu, !.errors = rec.errors \union Belated(rec, bounds, cpu),
                     !.status = IF rec.errors \union Belated(rec, bounds, cpu) = {} THEN "observed" ELSE @]
  BY DEF JudgeExit, Return, rec
<1>4. Belated(rec, bounds, cpu) \subseteq Codes
  BY DEF Belated, Codes
<1>5. /\ record' \in Records /\ record'.reaped = record.reaped
      /\ record'.exit = record.exit /\ record'.upper = record.upper
  BY <1>1, <1>3, <1>4 DEF Records
<1> QED
  BY <1>2, <1>5, RecordKeeps

LEMMA CompletionInvStep ==
  ASSUME CompletionInv, [CompletionNext]_completionVars
  PROVE  CompletionInv'
<1>1. CASE UNCHANGED completionVars
  BY <1>1 DEF completionVars, CompletionInv, Typed, Handed, Dated
<1> QED
  BY <1>1, WorldKeeps, BeforeWaitKeeps, WaitKeeps, KeepExitKeeps, JudgeExitKeeps, GuardKeeps
  DEF CompletionNext

\* A completion record that qualifies under any deadline tells the truth about it, and
\* the exit status is never lost between wait4 and the record, for every clock.
THEOREM QualifiedTellsTheTruth == CompletionSpec => []QualifiedMeansExited
<1>1. CompletionInit => CompletionInv
  BY CompletionInvInit
<1>2. CompletionInv /\ [CompletionNext]_completionVars => CompletionInv'
  BY CompletionInvStep
<1>3. CompletionInv => QualifiedMeansExited
  <2> SUFFICES ASSUME CompletionInv, observer = "returned"
               PROVE  /\ \A deadline \in Instants :
                           Qualified(record, deadline) => child.exit = "zero" /\ child.at <= deadline
                      /\ child.state = "reaped" <=> record.reaped
    BY DEF QualifiedMeansExited
  <2>1. child.state = "reaped" <=> record.reaped
    BY DEF CompletionInv, Handed
  <2>2. ASSUME NEW deadline \in Instants, Qualified(record, deadline)
        PROVE  child.exit = "zero" /\ child.at <= deadline
    <3>1. record.exit = child.exit /\ child.at <= record.upper /\ record.exit = "zero"
      BY <2>2 DEF CompletionInv, Dated, Qualified
    <3>2. record.upper <= deadline
      BY <2>2, CompletionAssumption DEF CompletionInv, Typed, Records, Qualified, Least, Instants
    <3> QED
      BY <3>1, <3>2, CompletionAssumption DEF CompletionInv, Typed, Records, Children, Instants
  <2> QED
    BY <2>1, <2>2
<1> QED
  BY <1>1, <1>2, <1>3, PTL DEF CompletionSpec

=============================================================================
