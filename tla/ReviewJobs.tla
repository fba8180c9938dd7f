------------------------------ MODULE ReviewJobs ------------------------------
\* Web reviews of the trace viewer (macr/viewer.py): every upload is unpacked into a
\* working directory by its request thread and reviewed by a thread of its own, while
\* other uploads sweep what a day has passed over, and the server may be restarted.
EXTENDS Naturals, FiniteSets

CONSTANT Uploads   \* the uploads sent to the server

VARIABLES
  upload,  \* where each upload is
  job,     \* what the server tells of its job: none, queued, running, completed, failed
  dir,     \* its working directory: none, fresh or, after a day, old
  ran      \* what its review came to: none, ok, error

jobVars == <<upload, job, dir, ran>>

Working == {"unpacking", "unpacked", "queued", "reviewing", "cleaning"}

JobsInit ==
  /\ upload = [u \in Uploads |-> "new"]
  /\ job = [u \in Uploads |-> "none"]
  /\ dir = [u \in Uploads |-> "none"]
  /\ ran = [u \in Uploads |-> "none"]

\* handle_web_review up to the upload's directory: refused forms leave nothing; the
\* others first sweep every directory older than a day, in use or not.
ReceiveUpload(u) ==
  /\ upload[u] = "new"
  /\ \/ upload' = [upload EXCEPT ![u] = "refused"] /\ UNCHANGED dir
     \/ /\ upload' = [upload EXCEPT ![u] = "unpacking"]
        /\ dir' = [v \in Uploads |-> IF v = u THEN "fresh"
                                     ELSE IF dir[v] = "old" THEN "none" ELSE dir[v]]
  /\ UNCHANGED <<job, ran>>

\* _extract_uploaded_repo: an archive that breaks a limit is refused and stays on disk.
Unpack(u) ==
  /\ upload[u] = "unpacking"
  /\ \E place \in {"unpacked", "refused"} : upload' = [upload EXCEPT ![u] = place]
  /\ UNCHANGED <<job, dir, ran>>

\* A diff review without a diff is refused and cleaned up; else the job is created.
CreateJob(u) ==
  /\ upload[u] = "unpacked"
  /\ \/ /\ upload' = [upload EXCEPT ![u] = "refused"]
        /\ dir' = [dir EXCEPT ![u] = "none"] /\ UNCHANGED job
     \/ /\ upload' = [upload EXCEPT ![u] = "queued"]
        /\ job' = [job EXCEPT ![u] = "queued"] /\ UNCHANGED dir
  /\ UNCHANGED ran

\* _run_web_review_job, its try and its finally.
BeginReview(u) ==
  /\ upload[u] = "queued"
  /\ upload' = [upload EXCEPT ![u] = "reviewing"]
  /\ job' = [job EXCEPT ![u] = "running"]
  /\ UNCHANGED <<dir, ran>>
EndReview(u) ==
  /\ upload[u] = "reviewing"
  /\ \E outcome \in {"ok", "error"} :
       /\ ran' = [ran EXCEPT ![u] = outcome]
       /\ job' = [job EXCEPT ![u] = IF outcome = "ok" THEN "completed" ELSE "failed"]
  /\ upload' = [upload EXCEPT ![u] = "cleaning"]
  /\ UNCHANGED dir
\* Mutant: only a review that went well removes its directory.
CleanUp_AfterSuccess(u) ==
  /\ upload[u] = "cleaning"
  /\ upload' = [upload EXCEPT ![u] = "done"]
  /\ dir' = [dir EXCEPT ![u] = IF ran[u] = "ok" THEN "none" ELSE @]
  /\ UNCHANGED <<job, ran>>

CleanUp(u) ==
  /\ upload[u] = "cleaning"
  /\ upload' = [upload EXCEPT ![u] = "done"]
  /\ dir' = [dir EXCEPT ![u] = "none"]
  /\ UNCHANGED <<job, ran>>

\* A day passes over every directory there is.
DayPasses ==
  /\ \E u \in Uploads : dir[u] = "fresh"
  /\ dir' = [u \in Uploads |-> IF dir[u] = "fresh" THEN "old" ELSE dir[u]]
  /\ UNCHANGED <<upload, job, ran>>

\* The server stops with its daemon threads and starts again without its jobs.
ServerRestarts ==
  /\ \E u \in Uploads : upload[u] \in Working \union {"done"}
  /\ upload' = [u \in Uploads |-> IF upload[u] = "new" THEN "new" ELSE "lost"]
  /\ job' = [u \in Uploads |-> "none"]
  /\ UNCHANGED <<dir, ran>>

JobsNext ==
  \/ \E u \in Uploads : ReceiveUpload(u) \/ Unpack(u) \/ CreateJob(u) \/ BeginReview(u)
                          \/ EndReview(u) \/ CleanUp(u)
  \/ DayPasses \/ ServerRestarts

----------------------------------------------------------------------------
\* A review that was told finished ended the way it is told and leaves no copy of the
\* uploaded repository behind, and while it is told queued or running its review is not
\* over.  What stays on disk is what an unreadable archive or a restart left, and a day
\* and one more upload end that as well.
JobsLeaveNothing ==
  \A u \in Uploads :
    /\ upload[u] = "done" => dir[u] = "none"
    /\ job[u] = "completed" => ran[u] = "ok"
    /\ job[u] \in {"queued", "running"} => ran[u] = "none"
    /\ dir[u] = "old" => \A v \in Uploads : dir[v] # "fresh"
=============================================================================
