------------------------------- MODULE Workbench -------------------------------
(***************************************************************************)
(* The evidence workbench (src/src/macr/api/evidence_workbench.py): one    *)
(* process owns a data root, registers every submission in registry.json,  *)
(* runs at most one analysis at a time in a supervisor thread, and after a *)
(* forced death decides from the registry and the COMMITTED receipts what  *)
(* became of each run.                                                     *)
(*                                                                         *)
(* HTTP handlers run their whole body under Workbench.mutex, so each is    *)
(* one action.  The supervisor thread (_execute) interleaves with them     *)
(* between its critical sections; pc names the section it is about to      *)
(* enter.  collect_evidence runs without the mutex and is split where a    *)
(* crash or a cancellation can fall between two of its effects.            *)
(***************************************************************************)
EXTENDS Naturals, FiniteSets, Functions

CONSTANTS
  Runs,       \* identifiers uuid4 can mint
  Intents,    \* intent_id values browsers submit
  Payloads,   \* request bodies, told apart by their digest
  RunQuota,   \* EvidenceProfile.max_allocated_bytes + RESERVE_EXTRA
  RootLimit,  \* ROOT_LIMIT, in the unit of RunQuota
  None        \* Python's None, and "no such run"

ASSUME WorkbenchAssumption ==
  /\ IsFiniteSet(Runs)
  /\ RunQuota \in Nat
  /\ RootLimit \in Nat
  /\ None \notin Runs \cup {"closure_unknown", "storage_unavailable"}

VARIABLES
  (* What survives the workbench process. *)
  root,      \* the data root: "fresh", "dirs" (no registry.json yet), "registry"
  disk,      \* registry.json: run -> record
  stray,     \* a temporary file of an unfinished envelope write is in envelopes/
  receipts,  \* runs whose output directory holds COMMITTED
  worker,    \* the operating-system process of each run
  alloc,     \* bytes retained under each run's output directory
  (* What the workbench process holds. *)
  phase,     \* "down", "creating" (in __init__), "open", "refused"
  mem,       \* Workbench.registry["runs"]
  active,    \* Workbench.active
  blocked,   \* Workbench.blocked
  stopping,  \* Workbench.stopping
  event,     \* Workbench.event.is_set()
  pc,        \* where the supervisor thread is
  outcome,   \* what collect_evidence returned
  verified,  \* _execute's local of that name
  (* What the environment has been told. *)
  acked      \* intent -> run of the last positive start() reply

durable == <<root, disk, stray, receipts, worker, alloc>>
volatile == <<phase, mem, active, blocked, stopping, event, pc, outcome, verified>>
vars == <<durable, volatile, acked>>

--------------------------------------------------------------------------------
(* Records *)

Flag == {"unset", "no", "yes"}  \* None, False, True

FinalStatus == {"rejected", "failed", "cancelled"}

RunState == {"running", "cancelling", "verifying", "ready",
             "verification_failed", "closure_unknown"} \cup FinalStatus

(* A registry entry.  started, closed and bound stand for worker_started,  *)
(* worker_exit_confirmed and "binding is not None"; failure for            *)
(* "analysis_failure is not None"; "completed" also stands for "partial",  *)
(* and verification "unavailable" for every code of a failed reading.      *)
RunRecord ==
  [intent: Intents, payload: Payloads, state: RunState,
   analysis: {"unset", "completed"} \cup FinalStatus,
   publication: {"uncommitted", "committed", "unknown"},
   verification: {"not_started", "pending", "passed", "unavailable"},
   cancelled: BOOLEAN, started: Flag, closed: Flag, bound: BOOLEAN,
   failure: BOOLEAN, reserved: BOOLEAN]

ASSUME NoneIsNoRecord == None \notin RunRecord

NewRun(i, p) ==
  [intent |-> i, payload |-> p, state |-> "running", analysis |-> "unset",
   publication |-> "uncommitted", verification |-> "not_started",
   cancelled |-> FALSE, started |-> "unset", closed |-> "unset",
   bound |-> FALSE, failure |-> FALSE, reserved |-> TRUE]

Outcome ==
  [status: {"completed"} \cup FinalStatus, started: {"no", "yes"},
   closed: Flag, publication: {"uncommitted", "committed"}]

NoRuns == [r \in Runs |-> None]

Registered(registry) == {r \in Runs : registry[r] # None}

SupervisorPC == {"check", "worker", "verify", "committing"}
ThreadPC == {"idle", "record", "read", "envelope", "escape", "finish"} \cup SupervisorPC

TypeOK ==
  /\ root \in {"fresh", "dirs", "registry"}
  /\ disk \in [Runs -> RunRecord \cup {None}]
  /\ stray \in BOOLEAN
  /\ receipts \subseteq Runs
  /\ worker \in [Runs -> {"none", "live", "exited"}]
  /\ alloc \in [Runs -> 0..RunQuota]
  /\ phase \in {"down", "creating", "open", "refused"}
  /\ mem \in [Runs -> RunRecord \cup {None}]
  /\ active \in Runs \cup {None}
  /\ blocked \in {None, "closure_unknown", "storage_unavailable"}
  /\ stopping \in BOOLEAN
  /\ event \in BOOLEAN
  /\ pc \in ThreadPC
  /\ outcome \in Outcome \cup {None}
  /\ verified \in BOOLEAN
  /\ acked \in [Intents -> Runs \cup {None}]

Forget ==
  /\ mem' = NoRuns
  /\ active' = None
  /\ blocked' = None
  /\ stopping' = FALSE
  /\ event' = FALSE
  /\ pc' = "idle"
  /\ outcome' = None
  /\ verified' = FALSE

Init ==
  /\ root = "fresh"
  /\ disk = NoRuns
  /\ stray = FALSE
  /\ receipts = {}
  /\ worker = [r \in Runs |-> "none"]
  /\ alloc = [r \in Runs |-> 0]
  /\ phase = "down"
  /\ mem = NoRuns
  /\ active = None
  /\ blocked = None
  /\ stopping = FALSE
  /\ event = FALSE
  /\ pc = "idle"
  /\ outcome = None
  /\ verified = FALSE
  /\ acked = [i \in Intents |-> None]

--------------------------------------------------------------------------------
(* Storage.  A write replaces the file and returns ("stored"), replaces it *)
(* and then raises in the directory sync or the final budget check         *)
(* ("late"), or raises before the replacement ("failed").  _save first     *)
(* lists envelopes/ and raises on a name no run owns, so it cannot store   *)
(* once a stray file is there.                                             *)

SaveFates == IF stray THEN {"failed"} ELSE {"stored", "late", "failed"}

Save(registry, fate) ==
  /\ fate \in SaveFates
  /\ disk' = IF fate = "failed" THEN disk ELSE registry

Blocking(reason) == IF blocked = None THEN reason ELSE blocked

TotalAllocation == SumFunction(alloc)

--------------------------------------------------------------------------------
(* Opening the data root *)

(* The registry file is missing and the root holds nothing but owner.lock. *)
CreateRoot ==
  /\ phase = "down" /\ root = "fresh"
  /\ root' = "dirs"
  /\ phase' = "creating"
  /\ UNCHANGED <<disk, stray, receipts, worker, alloc, acked>>
  /\ UNCHANGED <<mem, active, blocked, stopping, event, pc, outcome, verified>>

CreateRegistry ==
  /\ phase = "creating"
  /\ \E fate \in SaveFates :
       /\ Save(NoRuns, fate)
       /\ root' = IF fate = "failed" THEN root ELSE "registry"
       /\ phase' = IF fate = "stored" THEN "open" ELSE "down"
  /\ UNCHANGED <<stray, receipts, worker, alloc, acked>>
  /\ UNCHANGED <<mem, active, blocked, stopping, event, pc, outcome, verified>>

(* _validate_registry, on the fields the model keeps. *)
ValidRecord(rec) ==
  /\ rec.failure => rec.analysis \in FinalStatus /\ rec.publication # "committed"
  /\ rec.state = "ready" => rec.bound /\ rec.closed = "yes"

ValidRegistry(registry) ==
  /\ \A r \in Registered(registry) : ValidRecord(registry[r])
  /\ \A r, q \in Registered(registry) :
       registry[r].intent = registry[q].intent => r = q

(* Mutant: a failed run is read again too. *)
Unread_AnyFailure(rec) ==
  rec.state \in {"running", "cancelling", "verifying", "failed"}

Unread(rec) ==
  \/ rec.state \in {"running", "cancelling", "verifying"}
  \/ /\ rec.state = "verification_failed" /\ ~rec.bound
     /\ rec.closed = "yes" /\ rec.publication = "committed"

(* Mutant: an unreadable run that is not known to be unclosed is ready. *)
Recovered_Trusting(rec, readable) ==
  IF Unread(rec)
  THEN [rec EXCEPT !.state = IF rec.closed = "no" THEN "closure_unknown" ELSE "ready",
                   !.bound = TRUE, !.publication = "committed"]
  ELSE rec

(* Mutant: a run without a readable receipt has simply failed. *)
Recovered_Failed(rec, readable) ==
  IF Unread(rec) THEN [rec EXCEPT !.state = IF readable THEN "ready" ELSE "failed"]
  ELSE rec

(* One iteration of _recover; readable says that read_committed succeeds. *)
Recovered(rec, readable) ==
  IF Unread(rec) THEN
    IF readable THEN
      [rec EXCEPT !.state = "ready", !.analysis = "completed", !.bound = TRUE,
                  !.publication = "committed", !.verification = "passed",
                  !.started = "yes", !.closed = "yes", !.reserved = FALSE]
    ELSE IF rec.closed = "yes" THEN
      [rec EXCEPT !.state = "verification_failed",
                  !.verification = "unavailable", !.reserved = FALSE]
    ELSE
      [rec EXCEPT !.state = "closure_unknown", !.publication = "unknown"]
  ELSE IF rec.started = "yes" /\ rec.closed # "yes" THEN
    [rec EXCEPT !.state = "closure_unknown"]
  ELSE rec

(* Mutant: unresolved submissions are dropped at startup. *)
Recovery_Drop(registry, readable) ==
  [r \in Runs |-> IF registry[r] = None \/ (Unread(registry[r]) /\ r \notin readable)
                  THEN None ELSE Recovered(registry[r], r \in readable)]

Recovery(registry, readable) ==
  [r \in Runs |-> IF registry[r] = None THEN None
                  ELSE Recovered(registry[r], r \in readable)]

(* Mutant: an unknown closure found at startup does not block. *)
StartupBlock_Never(registry) == None

StartupBlock(registry) ==
  IF \E r \in Registered(registry) : registry[r].state = "closure_unknown"
  THEN "closure_unknown" ELSE None

(* _recover reads what it can of the receipts (readable: a read may also   *)
(* run out of its budget), rewrites the registry and saves it.             *)
Open ==
  /\ phase = "down" /\ root = "registry" /\ ValidRegistry(disk) /\ ~stray
  /\ \E readable \in SUBSET receipts, fate \in {"stored", "late"} :
       LET registry == Recovery(disk, readable) IN
         /\ Save(registry, fate)
         /\ IF fate = "stored"
            THEN /\ phase' = "open"
                 /\ mem' = registry
                 /\ blocked' = StartupBlock(registry)
            ELSE UNCHANGED <<phase, mem, blocked>>
  /\ UNCHANGED <<root, stray, receipts, worker, alloc, acked>>
  /\ UNCHANGED <<active, stopping, event, pc, outcome, verified>>

(* The constructor raises, now and on every later attempt: the root holds  *)
(* directories and no registry, the registry does not validate, or the     *)
(* save that ends _recover meets an unregistered envelope.                 *)
OpenRefused ==
  /\ phase \in {"down", "refused"}
  /\ \/ root = "dirs"
     \/ root = "registry" /\ (~ValidRegistry(disk) \/ stray)
  /\ phase' = "refused"
  /\ UNCHANGED <<durable, acked>>
  /\ UNCHANGED <<mem, active, blocked, stopping, event, pc, outcome, verified>>

--------------------------------------------------------------------------------
(* Handlers *)

RunOf(i) == {r \in Registered(mem) : mem[r].intent = i}

(* start() for an intent the registry knows, with the same payload. *)
StartReplay(i, p) ==
  /\ phase = "open" /\ ~stopping
  /\ \E r \in RunOf(i) :
       /\ mem[r].payload = p
       /\ acked' = [acked EXCEPT ![i] = r]
  /\ UNCHANGED <<durable, volatile>>

(* start() past every check: the run is saved before its thread starts.    *)
(* A save that raises takes the run back out of memory, not out of a file  *)
(* it already replaced.                                                    *)
(* Mutant: a repeated intent is registered as another run. *)
CanRegister_Repeated(i, r) ==
  /\ phase = "open" /\ ~stopping
  /\ active = None
  /\ mem[r] = None /\ disk[r] = None /\ worker[r] = "none"

CanRegister(i, r) ==
  /\ phase = "open" /\ ~stopping
  /\ RunOf(i) = {}
  /\ active = None
  /\ mem[r] = None /\ disk[r] = None /\ worker[r] = "none"

(* Mutant: the reservation of the new run is not added. *)
Admissible_Retained(i, r) ==
  CanRegister(i, r) /\ blocked = None /\ TotalAllocation <= RootLimit

Admissible(i, r) ==
  CanRegister(i, r) /\ blocked = None /\ TotalAllocation + RunQuota <= RootLimit

StartStored(i, p, r) ==
  /\ Admissible(i, r)
  /\ LET registry == [mem EXCEPT ![r] = NewRun(i, p)] IN
       /\ Save(registry, "stored")
       /\ mem' = registry
  /\ event' = FALSE
  /\ active' = r
  /\ pc' = "check"
  /\ acked' = [acked EXCEPT ![i] = r]
  /\ UNCHANGED <<root, stray, receipts, worker, alloc>>
  /\ UNCHANGED <<phase, blocked, stopping, outcome, verified>>

StartUnsaved(i, p, r) ==
  /\ Admissible(i, r)
  /\ Save([mem EXCEPT ![r] = NewRun(i, p)], "late")
  /\ UNCHANGED <<root, stray, receipts, worker, alloc>>
  /\ UNCHANGED <<volatile, acked>>

(* threading.Thread.start raises after the first save. *)
StartThreadless(i, p, r) ==
  /\ Admissible(i, r) /\ ~stray
  /\ LET begun == [mem EXCEPT ![r] = NewRun(i, p)]
         ended == [mem EXCEPT ![r] = [NewRun(i, p) EXCEPT !.state = "failed",
                       !.analysis = "failed", !.started = "no", !.reserved = FALSE]]
     IN /\ mem' = ended
        /\ disk' \in {begun, ended}
  /\ event' = FALSE
  /\ UNCHANGED <<root, stray, receipts, worker, alloc, acked>>
  /\ UNCHANGED <<phase, active, blocked, stopping, pc, outcome, verified>>

(* Mutant: cancel() looks at the active run only. *)
Cancellable_Active(r) == phase = "open" /\ active = r /\ mem[r] # None

Cancellable(r) ==
  /\ phase = "open" /\ active = r /\ mem[r] # None
  /\ mem[r].state \in {"running", "cancelling"}
  /\ mem[r].publication # "committed"

(* cancel(): recorded only while the active run has not been settled; the  *)
(* request stands even if saving it raises.                                *)
Cancel(r) ==
  /\ Cancellable(r)
  /\ mem' = [mem EXCEPT ![r].cancelled = TRUE, ![r].state = "cancelling"]
  /\ event' = TRUE
  /\ \E fate \in SaveFates : Save(mem', fate)
  /\ UNCHANGED <<root, stray, receipts, worker, alloc, acked>>
  /\ UNCHANGED <<phase, active, blocked, stopping, pc, outcome, verified>>

(* report(): refused while a run is active; re-reads a committed run and   *)
(* records what the reading found.  A save that raises blocks the bench.   *)
Settled(rec) == rec.closed = "yes" /\ rec.publication = "committed"

Report(r) ==
  /\ phase = "open" /\ active = None /\ mem[r] # None
  /\ mem[r].bound /\ Settled(mem[r])
  /\ \/ /\ r \in receipts
        /\ mem' = [mem EXCEPT ![r].state = "ready", ![r].verification = "passed"]
     \/ mem' = [mem EXCEPT ![r].state = "verification_failed",
                           ![r].verification = "unavailable"]
  /\ \E fate \in SaveFates :
       /\ Save(mem', fate)
       /\ blocked' = IF fate = "stored" THEN blocked
                     ELSE Blocking("storage_unavailable")
  /\ UNCHANGED <<root, stray, receipts, worker, alloc, acked>>
  /\ UNCHANGED <<phase, active, stopping, event, pc, outcome, verified>>

BeginShutdown ==
  /\ phase = "open"
  /\ stopping' = TRUE
  /\ event' = TRUE
  /\ UNCHANGED <<durable, acked>>
  /\ UNCHANGED <<phase, mem, active, blocked, pc, outcome, verified>>

(* shutdown() joins the supervisor thread before it closes the lock. *)
Close ==
  /\ phase = "open" /\ stopping /\ pc = "idle"
  /\ phase' = "down"
  /\ Forget
  /\ UNCHANGED <<durable, acked>>

--------------------------------------------------------------------------------
(* collect_evidence, in the supervisor thread *)

AtSupervisor(where) == phase = "open" /\ pc = where

Returns(status, started, closed, publication) ==
  /\ outcome' = [status |-> status, started |-> started,
                 closed |-> closed, publication |-> publication]
  /\ pc' = "record"

(* Only a cancellation check raises "cancelled". *)
FailStatus == {"rejected", "failed"} \cup (IF event THEN {"cancelled"} ELSE {})

SupervisorRefuse ==
  /\ AtSupervisor("check")
  /\ \E status \in FailStatus : Returns(status, "no", "unset", "uncommitted")
  /\ UNCHANGED <<durable, acked>>
  /\ UNCHANGED <<phase, mem, active, blocked, stopping, event, verified>>

SupervisorSpawn ==
  /\ AtSupervisor("check") /\ ~event
  /\ worker' = [worker EXCEPT ![active] = "live"]
  /\ pc' = "worker"
  /\ UNCHANGED <<root, disk, stray, receipts, alloc, acked>>
  /\ UNCHANGED <<phase, mem, active, blocked, stopping, event, outcome, verified>>

(* The worker's pipes closed and wait() returned: a result to verify. *)
SupervisorCollect ==
  /\ AtSupervisor("worker") /\ ~event
  /\ worker[active] = "exited"
  /\ pc' = "verify"
  /\ UNCHANGED <<durable, acked>>
  /\ UNCHANGED <<phase, mem, active, blocked, stopping, event, outcome, verified>>

(* _close sends TERM, then KILL, and waits; the wait may time out with the *)
(* process still there.                                                    *)
StopWorker ==
  /\ \E status \in FailStatus :
       \/ /\ worker' = [worker EXCEPT ![active] = "exited"]
          /\ Returns(status, "yes", "yes", "uncommitted")
       \/ /\ worker[active] = "live"
          /\ UNCHANGED worker
          /\ Returns(status, "yes", "no", "uncommitted")
  /\ UNCHANGED <<root, disk, stray, receipts, alloc, acked>>
  /\ UNCHANGED <<phase, mem, active, blocked, stopping, event, verified>>

(* Mutant: only a cancellation ends the communication, no deadline does. *)
SupervisorAbort_NoDeadline == AtSupervisor("worker") /\ event /\ StopWorker

(* Mutant: the communication loop never looks at the event. *)
SupervisorAbort_Deaf == AtSupervisor("worker") /\ ~event /\ StopWorker

(* A monitor, the deadline or a cancellation ends the communication, or    *)
(* the worker failed.                                                      *)
SupervisorAbort == AtSupervisor("worker") /\ StopWorker

(* _verify_result or a check before the publication raises. *)
SupervisorDiscard ==
  /\ AtSupervisor("verify")
  /\ \E status \in FailStatus : Returns(status, "yes", "yes", "uncommitted")
  /\ UNCHANGED <<durable, acked>>
  /\ UNCHANGED <<phase, mem, active, blocked, stopping, event, verified>>

(* EvidenceWorkspace.commit: the last cancellation check precedes the      *)
(* replacement that makes COMMITTED visible.                               *)
CommitReplace ==
  /\ AtSupervisor("verify") /\ ~event
  /\ receipts' = receipts \cup {active}
  /\ pc' = "committing"
  /\ UNCHANGED <<root, disk, stray, worker, alloc, acked>>
  /\ UNCHANGED <<phase, mem, active, blocked, stopping, event, outcome, verified>>

CommitDone ==
  /\ AtSupervisor("committing")
  /\ Returns("completed", "yes", "yes", "committed")
  /\ UNCHANGED <<durable, acked>>
  /\ UNCHANGED <<phase, mem, active, blocked, stopping, event, verified>>

(* The directory sync or the final budget check raises: the receipt is     *)
(* unlinked again, or the unlink raises too and leaves it.                 *)
CommitUndone ==
  /\ AtSupervisor("committing")
  /\ receipts' \in {receipts, receipts \ {active}}
  /\ \E status \in {"rejected", "failed"} :
       Returns(status, "yes", "yes", "uncommitted")
  /\ UNCHANGED <<root, disk, stray, worker, alloc, acked>>
  /\ UNCHANGED <<phase, mem, active, blocked, stopping, event, verified>>

(* An exception leaves collect_evidence; its finally clause has tried to   *)
(* close a worker it had not.                                              *)
SupervisorEscape ==
  /\ phase = "open" /\ pc \in SupervisorPC
  /\ \/ UNCHANGED worker
     \/ pc = "worker" /\ worker' = [worker EXCEPT ![active] = "exited"]
  /\ pc' = "escape"
  /\ UNCHANGED <<root, disk, stray, receipts, alloc, acked>>
  /\ UNCHANGED <<phase, mem, active, blocked, stopping, event, outcome, verified>>

--------------------------------------------------------------------------------
(* The critical sections of _execute *)

UnknownClosure(o) == o.started = "yes" /\ o.closed # "yes"

(* The registry entry after the first update of the section. *)
Noted(rec, o, failure) ==
  [rec EXCEPT !.analysis = o.status, !.started = o.started, !.closed = o.closed,
              !.publication = o.publication, !.failure = failure]

(* _failure_summary drops a summary that does not validate. *)
Failures(o) == IF o.publication = "committed" THEN {FALSE} ELSE BOOLEAN

RecordUnknown ==
  /\ AtSupervisor("record") /\ UnknownClosure(outcome)
  /\ \E failure \in Failures(outcome) :
       mem' = [mem EXCEPT ![active] =
                 [Noted(@, outcome, failure) EXCEPT !.state = "closure_unknown"]]
  /\ blocked' = "closure_unknown"
  /\ pc' = "envelope"
  /\ UNCHANGED <<durable, acked>>
  /\ UNCHANGED <<phase, active, stopping, event, outcome, verified>>

RecordFailure ==
  /\ AtSupervisor("record") /\ ~UnknownClosure(outcome)
  /\ outcome.publication # "committed"
  /\ \E failure \in Failures(outcome) :
       mem' = [mem EXCEPT ![active] =
                 [Noted(@, outcome, failure) EXCEPT !.state = outcome.status]]
  /\ pc' = "envelope"
  /\ UNCHANGED <<durable, acked>>
  /\ UNCHANGED <<phase, active, blocked, stopping, event, outcome, verified>>

(* A committed outcome is bound to its receipt and saved at once; a save   *)
(* that raises only blocks the bench, a binding that raises leaves the     *)
(* section through the except clause.                                      *)
RecordCommitted ==
  /\ AtSupervisor("record") /\ ~UnknownClosure(outcome)
  /\ outcome.publication = "committed"
  /\ \/ /\ mem' = [mem EXCEPT ![active] =
                     [Noted(@, outcome, FALSE) EXCEPT !.state = "verifying",
                        !.verification = "pending", !.bound = TRUE]]
        /\ \E fate \in SaveFates :
             /\ Save(mem', fate)
             /\ blocked' = IF fate = "stored" THEN blocked
                           ELSE Blocking("storage_unavailable")
        /\ pc' = "read"
     \/ /\ mem' = [mem EXCEPT ![active] =
                     [Noted(@, outcome, FALSE) EXCEPT !.state = "verifying",
                        !.verification = "pending"]]
        /\ pc' = "escape"
        /\ UNCHANGED <<disk, blocked>>
  /\ UNCHANGED <<root, stray, receipts, worker, alloc, acked>>
  /\ UNCHANGED <<phase, active, stopping, event, outcome, verified>>

(* read_committed, without the mutex. *)
ReadCommitted ==
  /\ AtSupervisor("read")
  /\ \/ pc' = "envelope" /\ verified' = TRUE /\ active \in receipts
     \/ pc' = "escape" /\ UNCHANGED verified
  /\ UNCHANGED <<durable, acked>>
  /\ UNCHANGED <<phase, mem, active, blocked, stopping, event, outcome>>

(* The final envelope is written; a failure is only noted, but a temporary *)
(* file the write had begun stays in envelopes/.                           *)
WriteEnvelope ==
  /\ AtSupervisor("envelope")
  /\ stray' \in {stray, TRUE}
  /\ mem' = IF mem[active].state = "closure_unknown" THEN mem
            ELSE [mem EXCEPT ![active].reserved = FALSE]
  /\ pc' = "finish"
  /\ UNCHANGED <<root, disk, receipts, worker, alloc, acked>>
  /\ UNCHANGED <<phase, active, blocked, stopping, event, outcome, verified>>

(* Mutant: a worker nothing is known of counts as closed. *)
Escaped_Optimistic(rec) ==
  [rec EXCEPT !.state = IF rec.closed = "no" THEN "closure_unknown" ELSE "failed"]

(* except BaseException: what is known of the worker decides. *)
Escaped(rec) ==
  IF rec.started = "no" \/ rec.closed = "yes" THEN
    IF rec.publication = "committed"
    THEN [rec EXCEPT !.state = "verification_failed",
                     !.verification = "unavailable", !.reserved = FALSE]
    ELSE [rec EXCEPT !.state = "failed", !.reserved = FALSE]
  ELSE [rec EXCEPT !.state = "closure_unknown", !.publication = "unknown"]

ThreadEscape ==
  /\ AtSupervisor("escape")
  /\ mem' = [mem EXCEPT ![active] = Escaped(@)]
  /\ blocked' = IF mem'[active].state = "closure_unknown"
                THEN "closure_unknown" ELSE blocked
  /\ pc' = "finish"
  /\ UNCHANGED <<durable, acked>>
  /\ UNCHANGED <<phase, active, stopping, event, outcome, verified>>

(* finally: the run becomes ready, the registry is saved, the bench idle. *)
Concluded(rec) ==
  IF verified /\ rec.state = "verifying"
  THEN [rec EXCEPT !.state = "ready", !.verification = "passed"]
  ELSE rec

Finish ==
  /\ AtSupervisor("finish")
  /\ mem' = [mem EXCEPT ![active] = Concluded(@)]
  /\ \E fate \in SaveFates :
       /\ Save(mem', fate)
       /\ blocked' = IF fate = "stored" THEN blocked
                     ELSE Blocking("storage_unavailable")
  /\ active' = None
  /\ pc' = "idle"
  /\ outcome' = None
  /\ verified' = FALSE
  /\ UNCHANGED <<root, stray, receipts, worker, alloc, acked>>
  /\ UNCHANGED <<phase, stopping, event>>

--------------------------------------------------------------------------------
(* The environment *)

(* Mutant: nothing watches what the worker writes. *)
WorkerWrite_Unwatched(r) ==
  /\ worker[r] = "live"
  /\ alloc' = [alloc EXCEPT ![r] = @ + 1]
  /\ UNCHANGED <<root, disk, stray, receipts, worker, acked, volatile>>

(* A worker writes below its output directory, up to its quota, whether or *)
(* not the process that started it is still there.                         *)
WorkerWrite(r) ==
  /\ worker[r] = "live" /\ alloc[r] < RunQuota
  /\ alloc' = [alloc EXCEPT ![r] = @ + 1]
  /\ UNCHANGED <<root, disk, stray, receipts, worker, acked, volatile>>

WorkerExit(r) ==
  /\ worker[r] = "live"
  /\ worker' = [worker EXCEPT ![r] = "exited"]
  /\ UNCHANGED <<root, disk, stray, receipts, alloc, acked, volatile>>

(* Forced death of the workbench process.  The kernel releases its lock;   *)
(* a temporary file being written stays.                                   *)
Crash ==
  /\ phase \in {"creating", "open"}
  /\ phase' = "down"
  /\ stray' \in IF pc = "envelope" THEN {stray, TRUE} ELSE {stray}
  /\ Forget
  /\ UNCHANGED <<root, disk, receipts, worker, alloc, acked>>

--------------------------------------------------------------------------------

Supervisor ==
  \/ SupervisorRefuse \/ SupervisorSpawn \/ SupervisorCollect \/ SupervisorAbort
  \/ SupervisorDiscard \/ CommitReplace \/ CommitDone \/ CommitUndone

Progress ==
  \/ Supervisor
  \/ RecordUnknown \/ RecordFailure \/ RecordCommitted \/ ReadCommitted
  \/ WriteEnvelope \/ ThreadEscape \/ Finish

Submit ==
  \E i \in Intents, p \in Payloads :
    \/ StartReplay(i, p)
    \/ \E r \in Runs :
         StartStored(i, p, r) \/ StartUnsaved(i, p, r) \/ StartThreadless(i, p, r)

Next ==
  \/ CreateRoot \/ CreateRegistry \/ Open \/ OpenRefused
  \/ Submit
  \/ \E r \in Runs : Cancel(r) \/ Report(r) \/ WorkerWrite(r) \/ WorkerExit(r)
  \/ BeginShutdown \/ Close \/ Crash
  \/ Progress \/ SupervisorEscape

Spec == Init /\ [][Next]_vars

(* The supervisor thread is an ordinary thread and every wait inside       *)
(* collect_evidence has a deadline, so it takes its next step; that a step *)
(* raises is never owed.  run_cli calls shutdown() in its finally clause.  *)
FairSpec == Spec /\ WF_vars(Progress) /\ WF_vars(Close)

--------------------------------------------------------------------------------
(* Properties *)

(* docs/architecture.md: the owner permits one active analysis.  No two    *)
(* workers are ever alive together, a worker left behind by a dead         *)
(* workbench process included.                                             *)
AtMostOneWorker ==
  \A r, q \in Runs : worker[r] = "live" /\ worker[q] = "live" => r = q

(* What a run is reported as, in memory or in the registry a restart will  *)
(* read, is never ahead of its process: a run with a terminal state other  *)
(* than closure_unknown, or with worker_exit_confirmed, has no live worker.*)
SettledStates == {"ready", "verification_failed"} \cup FinalStatus

SettledMeansClosed ==
  \A r \in Runs : \A rec \in {mem[r], disk[r]} \ {None} :
    rec.closed = "yes" \/ rec.state \in SettledStates => worker[r] # "live"

(* A run shown as ready had its COMMITTED receipt published, was bound to  *)
(* it, and keeps it.                                                       *)
ReadyMeansCommitted ==
  \A r \in Runs : \A rec \in {mem[r], disk[r]} \ {None} :
    rec.state = "ready" =>
      r \in receipts /\ rec.bound /\ rec.publication = "committed"

(* A cancellation that arrives after the publication does not undo it: an  *)
(* idle bench shows a committed run as ready or verification_failed, never *)
(* as cancelled, and releases its reservation.                             *)
CommittedSurvives ==
  \A r \in Runs :
    mem[r] # None /\ active # r /\ mem[r].publication = "committed" =>
      mem[r].state \in {"ready", "verification_failed"} /\ ~mem[r].reserved

(* A submission answered with a run stays that run's for ever: the reply   *)
(* is only given once the registry on disk holds it, and no later save,    *)
(* crash or recovery loses it.                                             *)
AckedDurable ==
  \A i \in Intents :
    acked[i] # None => disk[acked[i]] # None /\ disk[acked[i]].intent = i

(* No sequence of operations, failed saves and crashes leaves a registry   *)
(* that the next start would refuse to validate.                           *)
RegistryReopens == ValidRegistry(disk)

(* The bytes retained under the data root stay below ROOT_LIMIT, although  *)
(* start() looks at them only once and a worker writes afterwards.         *)
StorageBound == TotalAllocation <= RootLimit

(* docs/evidence-workbench.md: unknown closure blocks another analysis and *)
(* is retained across startup.  Once the registry on disk says             *)
(* closure_unknown of some run, no worker is ever started again.           *)
NoDispatchAfterUnknown ==
  [][(\E q \in Registered(disk) : disk[q].state = "closure_unknown") =>
       \A r \in Runs : worker[r] = "none" => worker'[r] = "none"]_vars

(* A verdict written to the registry is final: later saves, readings and   *)
(* recoveries, of whatever life of the process, never turn a failed or     *)
(* unresolved run into another result, nor forget it.                      *)
VerdictStable ==
  [][\A r \in Runs :
       disk[r] # None /\ disk[r].state \in FinalStatus \cup {"closure_unknown"} =>
         disk'[r] # None /\ disk'[r].state = disk[r].state]_vars

(* Whatever the supervisor does, the bench becomes idle again (or dies).   *)
RunEnds == active # None ~> active = None

(* A requested shutdown completes: the lock is closed, or the process died.*)
ShutdownCompletes == stopping ~> phase # "open"

(* docs/evidence-workbench.md:23: after forced process death "startup      *)
(* inspects the owned registry/receipts and isolates unresolved runs": a   *)
(* data root with a registry is never refused.                             *)
StartupIsolates == root = "registry" => phase # "refused"

================================================================================
