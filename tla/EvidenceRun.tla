------------------------------ MODULE EvidenceRun ------------------------------
(***************************************************************************)
(* One call of collect_evidence (src/src/macr/investigation/               *)
(* evidence_supervisor.py) with the worker process it owns                 *)
(* (evidence_worker.py), the output directory they share                   *)
(* (evidence_workspace.py) and the budget both charge (evidence_budget.py).*)
(*                                                                         *)
(* Parent and worker talk through pipes of PipeSize chunks.  The worker    *)
(* may hang, be killed, or survive SIGKILL in the kernel.  The deadline may *)
(* pass and the caller may cancel between any two steps; when the call is  *)
(* made in the main thread a KeyboardInterrupt may be raised there too.    *)
(***************************************************************************)
EXTENDS Integers

CONSTANTS
  Input,    \* chunks of the control message
  Output,   \* chunks of a worker's answer
  PipeSize  \* chunks a pipe holds

ASSUME EvidenceRunAssumption == {Input, Output, PipeSize} \subseteq Nat \ {0}

VARIABLES
  parent,    \* the section of collect_evidence to run next
  error,     \* what went wrong, or "none"
  closure,   \* closure["exit_confirmed"]: "unset", "yes", "no"
  stdin,     \* chunks sent by the parent and read by the worker; still open?
  stdout,    \* chunks written by the worker and read by the parent; registered?
  usage,     \* max_io_bytes as parent and worker count it
  moved,     \* the chunks and documents really read so far
  worker,    \* what the worker process is doing
  answer,    \* what it writes: "none", "envelope" or "failure"
  documents, \* pending/: "absent" or "staged"
  receipt,   \* COMMITTED is in the output directory
  late,      \* the deadline has passed
  cancelled, \* what cancelled() returns
  signalled, \* a signal was sent to the worker
  disturbed  \* the environment did something that excuses a failure

runVars == <<parent, error, closure, stdin, stdout, usage, moved, worker, answer,
             documents, receipt, late, cancelled, signalled, disturbed>>
parentVars == <<parent, error, closure, stdin, stdout, usage>>
workerVars == <<worker, answer, documents>>
worldVars == <<late, cancelled, disturbed>>

Busy == {"read", "prepare", "stage", "reply", "hung"}
Gone == {"none", "exit0", "exit4", "killed"}
Alive == worker \in Busy
Sections == {"new", "spawn", "talk", "judge", "verify", "commit", "replaced"}

RunInit ==
  /\ parent = "new" /\ error = "none" /\ closure = "unset"
  /\ stdin = [sent |-> 0, read |-> 0, open |-> TRUE]
  /\ stdout = [sent |-> 0, read |-> 0, open |-> TRUE]
  /\ usage = [parent |-> 0, worker |-> 0, initial |-> 0, merged |-> FALSE]
  /\ moved = 0
  /\ worker = "none" /\ answer = "none" /\ documents = "absent"
  /\ receipt = FALSE
  /\ late = FALSE /\ cancelled = FALSE /\ signalled = FALSE /\ disturbed = FALSE

-----------------------------------------------------------------------------
\* The parent

\* Raising: an open worker is closed first, then the failure is returned.
Raise(code) ==
  /\ error' = code
  /\ parent' = IF worker # "none" /\ closure # "yes" THEN "close" ELSE "returned"

\* EvidenceBudget.check: cancellation before the deadline.
Stopped == cancelled \/ late
StopCode == IF cancelled THEN "cancelled" ELSE "failed"

CheckFails ==
  /\ parent \in Sections \ {"replaced"}
  /\ Stopped
  /\ Raise(StopCode)
  /\ UNCHANGED <<closure, stdin, stdout, usage, moved, workerVars, receipt, worldVars, signalled>>

\* Pressure, RSS, free space, a storage scan, an OSError, a refused request.
GuardFails ==
  /\ parent \in Sections \ {"replaced"}
  /\ ~Stopped
  /\ \E code \in (IF parent = "new" THEN {"failed", "rejected"} ELSE {"failed"}) : Raise(code)
  /\ disturbed' = TRUE
  /\ UNCHANGED <<closure, stdin, stdout, usage, moved, workerVars, receipt, late, cancelled, signalled>>

\* The output directory is made and read once; its cost becomes initial usage.
Prepare ==
  /\ parent = "new" /\ ~Stopped
  /\ parent' = "spawn"
  /\ usage' = [usage EXCEPT !.parent = 1, !.initial = 1, !.worker = 1]
  /\ moved' = 1
  /\ UNCHANGED <<error, closure, stdin, stdout, workerVars, receipt, worldVars, signalled>>

Spawn ==
  /\ parent = "spawn" /\ ~Stopped
  /\ parent' = "talk" /\ worker' = "read"
  /\ UNCHANGED <<error, closure, stdin, stdout, usage, moved, answer, documents, receipt, worldVars, signalled>>

\* Mutant: the pipe is not closed after its last byte.
SendInput_LeavesOpen ==
  /\ parent = "talk" /\ ~Stopped /\ stdin.open /\ Alive /\ stdin.sent < Input
  /\ stdin.sent - stdin.read < PipeSize
  /\ stdin' = [stdin EXCEPT !.sent = @ + 1]
  /\ UNCHANGED <<parent, error, closure, stdout, usage, moved, workerVars, receipt, worldVars, signalled>>

SendInput ==
  /\ parent = "talk" /\ ~Stopped /\ stdin.open /\ Alive
  /\ stdin.sent - stdin.read < PipeSize
  /\ stdin' = [stdin EXCEPT !.sent = @ + 1, !.open = stdin.sent + 1 < Input]
  /\ UNCHANGED <<parent, error, closure, stdout, usage, moved, workerVars, receipt, worldVars, signalled>>

\* BrokenPipeError: nobody reads it any more.
InputBroken ==
  /\ parent = "talk" /\ ~Stopped /\ stdin.open /\ ~Alive
  /\ stdin' = [stdin EXCEPT !.open = FALSE]
  /\ UNCHANGED <<parent, error, closure, stdout, usage, moved, workerVars, receipt, worldVars, signalled>>

\* One chunk, or the end of the file once the writer is gone.
ReadOutput ==
  /\ parent = "talk" /\ ~Stopped /\ stdout.open
  /\ \/ /\ stdout.read < stdout.sent
        /\ stdout' = [stdout EXCEPT !.read = @ + 1]
        /\ usage' = [usage EXCEPT !.parent = @ + 1]
        /\ moved' = moved + 1
     \/ /\ stdout.read = stdout.sent /\ ~Alive
        /\ stdout' = [stdout EXCEPT !.open = FALSE]
        /\ UNCHANGED <<usage, moved>>
  /\ UNCHANGED <<parent, error, closure, stdin, workerVars, receipt, worldVars, signalled>>

\* The loop ends with every pipe closed and the process gone.
Reap ==
  /\ parent = "talk" /\ ~Stopped /\ ~stdin.open /\ ~stdout.open /\ ~Alive
  /\ parent' = "judge" /\ closure' = "yes"
  /\ UNCHANGED <<error, stdin, stdout, usage, moved, workerVars, receipt, worldVars, signalled>>

Complete == stdout.read = Output

\* Mutant: a worker's whole answer is believed whatever its exit status.
Publishable_AnyExit == answer = "envelope" /\ Complete

\* Exit status zero with an envelope that decodes.
Publishable == worker = "exit0" /\ answer = "envelope" /\ Complete

\* _merge_usage: the worker counted from initial, so the parent adds its rest.
MergedUsage(u) == u.worker + (u.parent - u.initial)

\* A worker that failed says why and what it used, or nothing at all.
Judge ==
  /\ parent = "judge" /\ ~Stopped
  /\ IF Publishable \/ (worker = "exit4" /\ Complete)
       THEN usage' = [usage EXCEPT !.parent = MergedUsage(usage), !.merged = TRUE]
       ELSE UNCHANGED usage
  /\ IF Publishable THEN parent' = "verify" /\ UNCHANGED error ELSE Raise("failed")
  /\ UNCHANGED <<closure, stdin, stdout, moved, workerVars, receipt, worldVars, signalled>>

\* _verify_result reads the documents and compares them with the envelope.
Verify ==
  /\ parent = "verify" /\ ~Stopped
  /\ IF documents = "staged" /\ closure = "yes"
       THEN parent' = "commit" /\ UNCHANGED error
       ELSE Raise("failed")
  /\ usage' = [usage EXCEPT !.parent = @ + 1]
  /\ moved' = moved + 1
  /\ UNCHANGED <<closure, stdin, stdout, workerVars, receipt, worldVars, signalled>>

\* commit: the last check before the name is replaced; cancellation ends here.
Replace ==
  /\ parent = "commit" /\ ~Stopped
  /\ parent' = "replaced" /\ receipt' = TRUE
  /\ UNCHANGED <<error, closure, stdin, stdout, usage, moved, workerVars, worldVars, signalled>>

\* The directory is synced and the budget checked once more, deaf to cancelled().
CommitReturns ==
  /\ parent = "replaced" /\ ~late
  /\ parent' = "returned"
  /\ UNCHANGED <<error, closure, stdin, stdout, usage, moved, workerVars, receipt, worldVars, signalled>>

\* ... or the sync fails, or the deadline has passed: the receipt goes again.
CommitRaises ==
  /\ parent = "replaced"
  /\ receipt' = FALSE
  /\ Raise("failed")
  /\ disturbed' = (disturbed \/ ~late)
  /\ UNCHANGED <<closure, stdin, stdout, usage, moved, workerVars, late, cancelled, signalled>>

\* KeyboardInterrupt in any section; in commit's try it also unlinks the receipt.
\* After commit has returned the receipt stays and the report is still a failure.
Interrupted ==
  /\ \/ parent \in Sections \ {"replaced"} /\ UNCHANGED receipt
     \/ parent = "replaced" /\ receipt' \in BOOLEAN
  /\ Raise("cancelled")
  /\ disturbed' = TRUE
  /\ UNCHANGED <<closure, stdin, stdout, usage, moved, workerVars, late, cancelled, signalled>>

-----------------------------------------------------------------------------
\* Closing the worker

Terminate ==
  /\ parent \in {"close", "kill"} /\ Alive
  /\ signalled' = TRUE
  /\ parent' = IF parent = "close" THEN "kill" ELSE "wait"
  /\ UNCHANGED <<error, closure, stdin, stdout, usage, moved, workerVars, receipt, worldVars>>

\* Mutant: a signal that was sent counts as an exit.
Confirmed_BySignal == ~Alive \/ signalled

\* Only a wait that returned confirms the exit.
Confirmed == ~Alive

\* The wait returns, or the cleanup time is over.
WaitEnds ==
  /\ parent \in {"close", "kill", "wait"}
  /\ Alive => parent = "wait"
  /\ closure' = IF Confirmed THEN "yes" ELSE "no"
  /\ parent' = "returned"
  /\ UNCHANGED <<error, stdin, stdout, usage, moved, workerVars, receipt, worldVars, signalled>>

ParentStep ==
  \/ CheckFails \/ Prepare \/ Spawn \/ SendInput \/ InputBroken \/ ReadOutput
  \/ Reap \/ Judge \/ Verify \/ Replace \/ CommitReturns
  \/ CommitRaises \/ Terminate \/ WaitEnds

-----------------------------------------------------------------------------
\* The worker

worldUntouched == <<parent, error, closure, receipt, worldVars, signalled>>

\* It reads to the end of the file, so it waits until the parent closes the pipe.
WorkerReads ==
  /\ worker = "read"
  /\ \/ /\ stdin.read < stdin.sent
        /\ stdin' = [stdin EXCEPT !.read = @ + 1]
        /\ UNCHANGED <<worker, usage, moved>>
     \/ /\ stdin.read = stdin.sent /\ ~stdin.open
        /\ worker' = "prepare"
        /\ usage' = [usage EXCEPT !.worker = @ + 1]
        /\ moved' = moved + 1
        /\ UNCHANGED stdin
  /\ UNCHANGED <<stdout, answer, documents, worldUntouched>>

WorkerPrepares ==
  /\ worker = "prepare" /\ ~late
  /\ worker' = "stage"
  /\ UNCHANGED <<stdin, stdout, usage, moved, answer, documents, worldUntouched>>

\* Mutant: the envelope is sent while the documents are still being staged.
WorkerStages_Unstaged ==
  /\ worker = "stage" /\ ~late
  /\ worker' = "reply" /\ answer' = "envelope"
  /\ usage' = [usage EXCEPT !.worker = @ + 1]
  /\ moved' = moved + 1
  /\ UNCHANGED <<stdin, stdout, documents, worldUntouched>>

\* The documents are written and read back before the envelope names them.
WorkerStages ==
  /\ worker = "stage" /\ ~late
  /\ worker' = "reply" /\ answer' = "envelope" /\ documents' = "staged"
  /\ usage' = [usage EXCEPT !.worker = @ + 1]
  /\ moved' = moved + 1
  /\ UNCHANGED <<stdin, stdout, worldUntouched>>

\* An exception becomes a failure message; one that does not fit, silence.
WorkerFails ==
  /\ worker \in {"prepare", "stage"}
  /\ \/ worker' = "reply" /\ answer' = "failure"
     \/ worker' = "exit4" /\ UNCHANGED answer
  /\ disturbed' = TRUE
  /\ documents' \in {documents, "staged"}
  /\ UNCHANGED <<stdin, stdout, usage, moved, parent, error, closure, receipt, late, cancelled, signalled>>

WorkerWrites ==
  /\ worker = "reply"
  /\ IF stdout.sent < Output
       THEN /\ stdout.sent - stdout.read < PipeSize
            /\ stdout' = [stdout EXCEPT !.sent = @ + 1]
            /\ UNCHANGED worker
       ELSE /\ worker' = IF answer = "envelope" THEN "exit0" ELSE "exit4"
            /\ UNCHANGED stdout
  /\ UNCHANGED <<stdin, usage, moved, answer, documents, worldUntouched>>

\* The machine kills it, a signal reaches it, or it never runs again.
WorkerLost ==
  /\ Alive
  /\ \/ worker' = "killed" /\ disturbed' = TRUE
     \/ worker # "hung" /\ worker' = "hung" /\ disturbed' = TRUE
  /\ UNCHANGED <<stdin, stdout, usage, moved, answer, documents, parent, error, closure,
                 receipt, late, cancelled, signalled>>

WorkerStep == WorkerReads \/ WorkerPrepares \/ WorkerStages \/ WorkerWrites

-----------------------------------------------------------------------------
\* Time and the caller

Exchange ==
  \/ parent # "talk"
  \/ worker \in {"prepare", "stage"}
  \/ worker = "read" /\ (stdin.read < stdin.sent \/ ~stdin.open)
  \/ worker = "reply" /\ stdout.sent - stdout.read < PipeSize
  \/ stdin.open /\ (~Alive \/ (stdin.sent < Input /\ stdin.sent - stdin.read < PipeSize))
  \/ stdout.read < stdout.sent \/ ~Alive

\* The deadline may overrun a busy call; it always comes to one that stands still.
Deadline ==
  /\ ~late /\ parent \in Sections
  /\ late' = TRUE
  /\ disturbed' = (disturbed \/ Exchange)
  /\ UNCHANGED <<parentVars, moved, workerVars, receipt, cancelled, signalled>>

Cancel ==
  /\ ~cancelled /\ parent # "returned"
  /\ cancelled' = TRUE /\ disturbed' = TRUE
  /\ UNCHANGED <<parentVars, moved, workerVars, receipt, late, signalled>>

RunNext ==
  \/ ParentStep \/ GuardFails \/ Interrupted
  \/ WorkerStep \/ WorkerFails \/ WorkerLost
  \/ Deadline \/ Cancel

-----------------------------------------------------------------------------
\* Properties

RunFairness ==
  /\ WF_runVars(ParentStep) /\ WF_runVars(WorkerStep) /\ WF_runVars(Deadline)

\* COMMITTED exists only after the owned worker was seen to exit with status 0
\* and with everything it announced in pending/, so nobody can still write there;
\* a call that reports publication has left it (workspace.commit: "caller must
\* first prove worker exit").  By then the budget counts every chunk and document
\* that parent and worker read exactly once, although both started from one usage.
PublishedAfterExit ==
  /\ receipt => /\ worker = "exit0" /\ closure = "yes"
                /\ documents = "staged" /\ answer = "envelope"
                /\ usage.merged /\ usage.parent = moved
  /\ parent = "returned" /\ error = "none" => receipt

\* An exit the report confirms has happened: a worker that outlives SIGKILL is
\* reported as not closed, whatever signals were sent (_close: "never infer
\* closure from a sent signal").
ClosedMeansReaped == closure = "yes" => ~Alive

\* Every call returns, also with a worker that hangs or outlives SIGKILL; and
\* one the environment left alone returns with the receipt in place, so parent
\* and worker never wait for each other on full or unclosed pipes.
RunAnswers == <>(parent = "returned" /\ (disturbed \/ receipt))

\* "If cancellation occurs after receipt replacement [...] the valid
\* receipt/source outcome remains authoritative and is not rewritten as
\* source-less/uncommitted" (docs/static-evidence.md): once the receipt is in
\* place no cancellation removes it or returns a cancelled report over it.
CancelKeepsReceipt == [][receipt /\ error' = "cancelled" => error = "cancelled"]_runVars
=============================================================================
