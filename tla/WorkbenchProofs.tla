---------------------------- MODULE WorkbenchProofs ----------------------------
(***************************************************************************)
(* Proofs about Workbench, for every set of runs, intents and payloads.    *)
(*                                                                         *)
(* ThreadOK gives TypeOK the facts about the supervisor thread it needs.   *)
(* LiveOK ties every live worker to the registry: as long as a worker is   *)
(* alive its entry is pending on disk, and the bench that is open either   *)
(* supervises it or is blocked.                                            *)
(*                                                                         *)
(* RegInv says what the registry holds: entries that agree with themselves *)
(* and with the receipts, every reply and every verdict of the memory on   *)
(* disk, and the entry of the run whose thread is alive.  StorageInv keeps *)
(* room for the quota of the one worker that may still write.              *)
(***************************************************************************)
EXTENDS Workbench, SumFacts

(* The supervisor thread works for a registered run, on a real outcome.    *)
ThreadOK ==
  /\ pc # "idle" =>
       phase = "open" /\ active \in Runs /\ mem[active] \in RunRecord
  /\ pc = "record" =>
       /\ outcome \in Outcome
       /\ outcome.publication = "uncommitted" => outcome.status # "completed"

(* An entry that neither startup nor the except clause takes for closed.   *)
Pending(rec) ==
  /\ rec \in RunRecord
  /\ rec.state \in {"running", "cancelling", "closure_unknown"}
  /\ rec.started # "no"
  /\ rec.closed # "yes"

Live(r) == worker[r] = "live"

RootOK ==
  /\ phase = "creating" => root # "registry"
  /\ phase = "open" => root = "registry"
  /\ phase # "open" => mem = NoRuns
  /\ root # "registry" => \A r \in Runs : ~Live(r)

(* What the registry says of a live worker. *)
LiveOnDisk ==
  \A r \in Runs : Live(r) => r \notin receipts /\ Pending(disk[r])

Isolated(r) == mem[r].state = "closure_unknown" /\ blocked = "closure_unknown"

LiveInMemory ==
  phase = "open" =>
    \A r \in Runs : Live(r) => Pending(mem[r]) /\ (active = r \/ Isolated(r))

(* Where the supervisor thread is, against the worker of its run. *)
LiveSupervised ==
  /\ pc = "check" =>
       /\ \A r \in Runs : ~Live(r)
       /\ active \notin receipts /\ Pending(disk[active]) /\ Pending(mem[active])
  /\ pc = "verify" => worker[active] = "exited"
  /\ pc \in {"committing", "read"} => ~Live(active)
  /\ pc = "record" /\ Live(active) => UnknownClosure(outcome)
  /\ pc \in {"envelope", "finish"} /\ Live(active) => Isolated(active)

(* Only a started worker can have had its output committed. *)
ReceiptOK == \A r \in receipts : worker[r] # "none"

LiveOK ==
  /\ RootOK
  /\ ReceiptOK
  /\ LiveOnDisk
  /\ LiveInMemory
  /\ LiveSupervised
  /\ AtMostOneWorker

TypeInv == TypeOK /\ ThreadOK

IInv == TypeInv /\ LiveOK

--------------------------------------------------------------------------------
(* Helpers *)

(* A fresh entry is a record, and pending. *)
LEMMA NewRunType ==
  ASSUME NEW i \in Intents, NEW p \in Payloads
  PROVE  NewRun(i, p) \in RunRecord
  BY DEF NewRun, RunRecord, RunState, FinalStatus, Flag

(* _recover keeps records. *)
LEMMA RecoveredType ==
  ASSUME NEW rec \in RunRecord, NEW readable
  PROVE  Recovered(rec, readable) \in RunRecord
<1>1. [rec EXCEPT !.state = "ready", !.analysis = "completed", !.bound = TRUE,
                  !.publication = "committed", !.verification = "passed",
                  !.started = "yes", !.closed = "yes", !.reserved = FALSE] \in RunRecord
  BY DEF RunRecord, RunState, FinalStatus, Flag
<1>2. [rec EXCEPT !.state = "verification_failed",
                  !.verification = "unavailable", !.reserved = FALSE] \in RunRecord
  BY DEF RunRecord, RunState, FinalStatus, Flag
<1>3. [rec EXCEPT !.state = "closure_unknown", !.publication = "unknown"] \in RunRecord
  BY DEF RunRecord, RunState, FinalStatus, Flag
<1>4. [rec EXCEPT !.state = "closure_unknown"] \in RunRecord
  BY DEF RunRecord, RunState, FinalStatus, Flag
<1> QED  BY <1>1, <1>2, <1>3, <1>4, Zenon DEF Recovered

LEMMA RecoveryType ==
  ASSUME NEW registry \in [Runs -> RunRecord \cup {None}], NEW readable
  PROVE  Recovery(registry, readable) \in [Runs -> RunRecord \cup {None}]
  BY RecoveredType DEF Recovery

(* The first update of a section keeps records. *)
LEMMA NotedType ==
  ASSUME NEW rec \in RunRecord, NEW o \in Outcome, NEW failure \in BOOLEAN
  PROVE  Noted(rec, o, failure) \in RunRecord
<1>1. /\ o.status \in {"unset", "completed"} \cup FinalStatus
      /\ o.started \in Flag /\ o.closed \in Flag
      /\ o.publication \in {"uncommitted", "committed", "unknown"}
  BY DEF Outcome, Flag
<1>2. ASSUME NEW a \in {"unset", "completed"} \cup FinalStatus, NEW b \in Flag,
             NEW c \in Flag, NEW u \in {"uncommitted", "committed", "unknown"}
      PROVE  [rec EXCEPT !.analysis = a, !.started = b, !.closed = c,
                         !.publication = u, !.failure = failure] \in RunRecord
  BY <1>2 DEF RunRecord
<1> QED  BY <1>1, <1>2 DEF Noted

LEMMA EscapedType ==
  ASSUME NEW rec \in RunRecord
  PROVE  Escaped(rec) \in RunRecord
<1>1. [rec EXCEPT !.state = "verification_failed", !.verification = "unavailable",
                  !.reserved = FALSE] \in RunRecord
  BY DEF RunRecord, RunState
<1>2. [rec EXCEPT !.state = "failed", !.reserved = FALSE] \in RunRecord
  BY DEF RunRecord, RunState, FinalStatus
<1>3. [rec EXCEPT !.state = "closure_unknown", !.publication = "unknown"] \in RunRecord
  BY DEF RunRecord, RunState
<1> QED  BY <1>1, <1>2, <1>3, Zenon DEF Escaped

LEMMA ConcludedType ==
  ASSUME NEW rec \in RunRecord
  PROVE  Concluded(rec) \in RunRecord
<1>1. [rec EXCEPT !.state = "ready", !.verification = "passed"] \in RunRecord
  BY DEF RunRecord, RunState
<1> QED  BY <1>1, Zenon DEF Concluded

(* _save changes no type. *)
LEMMA SaveType ==
  ASSUME disk \in [Runs -> RunRecord \cup {None}],
         NEW registry \in [Runs -> RunRecord \cup {None}],
         NEW fate, Save(registry, fate)
  PROVE  disk' \in [Runs -> RunRecord \cup {None}]
  BY DEF Save

--------------------------------------------------------------------------------
(* Types *)

LEMMA TypeInit == Init => TypeInv
<1> SUFFICES ASSUME Init PROVE TypeInv
  OBVIOUS
<1>1. NoRuns \in [Runs -> RunRecord \cup {None}]
  BY DEF NoRuns
<1>2. 0 \in 0..RunQuota
  BY WorkbenchAssumption
<1>3. TypeOK
  BY <1>1, <1>2 DEF Init, TypeOK, ThreadPC
<1> QED  BY <1>3 DEF Init, TypeInv, ThreadOK

LEMMA TypeStep ==
  ASSUME TypeInv, [Next]_vars
  PROVE  TypeInv'
<1> USE DEF TypeInv
<1>1. CASE CreateRoot
  BY <1>1 DEF CreateRoot, TypeOK, ThreadOK
<1>2. CASE CreateRegistry
  <2>1. NoRuns \in [Runs -> RunRecord \cup {None}]
    BY DEF NoRuns
  <2>2. disk' \in [Runs -> RunRecord \cup {None}]
    BY <1>2, <2>1, SaveType DEF CreateRegistry, TypeOK
  <2> QED  BY <1>2, <2>2 DEF CreateRegistry, TypeOK, ThreadOK
<1>3. CASE Open
  <2>1. PICK readable \in SUBSET receipts, fate \in {"stored", "late"} :
          /\ Save(Recovery(disk, readable), fate)
          /\ IF fate = "stored"
             THEN /\ phase' = "open"
                  /\ mem' = Recovery(disk, readable)
                  /\ blocked' = StartupBlock(Recovery(disk, readable))
             ELSE UNCHANGED <<phase, mem, blocked>>
    BY <1>3 DEF Open
  <2>2. Recovery(disk, readable) \in [Runs -> RunRecord \cup {None}]
    BY RecoveryType DEF TypeOK
  <2>3. disk' \in [Runs -> RunRecord \cup {None}]
    BY <2>1, <2>2, SaveType DEF TypeOK
  <2>4. /\ mem' \in [Runs -> RunRecord \cup {None}]
        /\ blocked' \in {None, "closure_unknown", "storage_unavailable"}
        /\ phase' \in {"down", "creating", "open", "refused"}
        /\ phase' = phase \/ phase' = "open"
    BY <2>1, <2>2 DEF TypeOK, StartupBlock
  <2>5. pc = "idle"
    BY <1>3 DEF Open, ThreadOK
  <2> QED  BY <1>3, <2>3, <2>4, <2>5 DEF Open, TypeOK, ThreadOK
<1>4. CASE OpenRefused
  BY <1>4 DEF OpenRefused, TypeOK, ThreadOK, durable
<1>5. CASE Submit
  <2> PICK i \in Intents, p \in Payloads, r \in Runs :
         \/ StartReplay(i, p)
         \/ StartStored(i, p, r) \/ StartUnsaved(i, p, r) \/ StartThreadless(i, p, r)
    BY <1>5 DEF Submit, StartReplay, RunOf, Registered
  <2>1. /\ NewRun(i, p) \in RunRecord
        /\ [mem EXCEPT ![r] = NewRun(i, p)] \in [Runs -> RunRecord \cup {None}]
    BY NewRunType DEF TypeOK
  <2>2. CASE StartReplay(i, p)
    BY <2>2 DEF StartReplay, RunOf, Registered, TypeOK, ThreadOK, durable, volatile
  <2>3. CASE StartStored(i, p, r)
    <3>1. disk' \in [Runs -> RunRecord \cup {None}]
      BY <2>1, <2>3, SaveType DEF StartStored, TypeOK
    <3>2. mem' \in [Runs -> RunRecord \cup {None}] /\ mem'[r] \in RunRecord
      BY <2>1, <2>3 DEF StartStored, TypeOK
    <3>3. phase = "open"
      BY <2>3 DEF StartStored, Admissible, CanRegister
    <3> QED
      BY <2>3, <3>1, <3>2, <3>3
      DEF StartStored, TypeOK, ThreadOK, ThreadPC, SupervisorPC
  <2>4. CASE StartUnsaved(i, p, r)
    <3>1. disk' \in [Runs -> RunRecord \cup {None}]
      BY <2>1, <2>4, SaveType DEF StartUnsaved, TypeOK
    <3> QED  BY <2>4, <3>1 DEF StartUnsaved, TypeOK, ThreadOK, volatile
  <2>5. CASE StartThreadless(i, p, r)
    <3>1. [NewRun(i, p) EXCEPT !.state = "failed", !.analysis = "failed",
                               !.started = "no", !.reserved = FALSE] \in RunRecord
      BY <2>1 DEF RunRecord, RunState, FinalStatus, Flag
    <3>2. /\ mem' \in [Runs -> RunRecord \cup {None}]
          /\ disk' \in [Runs -> RunRecord \cup {None}]
          /\ mem[active] \in RunRecord /\ active \in Runs => mem'[active] \in RunRecord
      BY <2>1, <2>5, <3>1 DEF StartThreadless, TypeOK
    <3> QED  BY <2>5, <3>2 DEF StartThreadless, TypeOK, ThreadOK
  <2> QED  BY <2>2, <2>3, <2>4, <2>5
<1>6. ASSUME NEW r \in Runs, Cancel(r)
      PROVE  TypeInv'
  <2>1. mem[r] \in RunRecord
    BY <1>6 DEF Cancel, Cancellable, TypeOK
  <2>2. [mem[r] EXCEPT !.cancelled = TRUE, !.state = "cancelling"] \in RunRecord
    BY <2>1 DEF RunRecord, RunState
  <2>3. mem' = [mem EXCEPT ![r] = [mem[r] EXCEPT !.cancelled = TRUE, !.state = "cancelling"]]
    BY <1>6 DEF Cancel, TypeOK
  <2>4. /\ mem' \in [Runs -> RunRecord \cup {None}]
        /\ active \in Runs /\ mem[active] \in RunRecord => mem'[active] \in RunRecord
    BY <2>2, <2>3 DEF TypeOK
  <2>5. disk' \in [Runs -> RunRecord \cup {None}]
    BY <1>6, <2>4, SaveType DEF Cancel, TypeOK
  <2> QED  BY <1>6, <2>4, <2>5 DEF Cancel, TypeOK, ThreadOK
<1>7. ASSUME NEW r \in Runs, Report(r)
      PROVE  TypeInv'
  <2>1. mem[r] \in RunRecord
    BY <1>7 DEF Report, TypeOK
  <2>2. /\ [mem[r] EXCEPT !.state = "ready", !.verification = "passed"] \in RunRecord
        /\ [mem[r] EXCEPT !.state = "verification_failed",
                          !.verification = "unavailable"] \in RunRecord
    BY <2>1 DEF RunRecord, RunState
  <2>3. PICK rec \in RunRecord : mem' = [mem EXCEPT ![r] = rec]
    <3>1. CASE mem' = [mem EXCEPT ![r].state = "ready", ![r].verification = "passed"]
      <4> mem' = [mem EXCEPT ![r] =
                    [mem[r] EXCEPT !.state = "ready", !.verification = "passed"]]
        BY <3>1 DEF TypeOK
      <4> QED  BY <2>2
    <3>2. CASE mem' = [mem EXCEPT ![r].state = "verification_failed",
                                  ![r].verification = "unavailable"]
      <4> mem' = [mem EXCEPT ![r] =
                    [mem[r] EXCEPT !.state = "verification_failed",
                                   !.verification = "unavailable"]]
        BY <3>2 DEF TypeOK
      <4> QED  BY <2>2
    <3> QED  BY <1>7, <3>1, <3>2 DEF Report
  <2>4. /\ mem' \in [Runs -> RunRecord \cup {None}]
        /\ active \in Runs /\ mem[active] \in RunRecord => mem'[active] \in RunRecord
    BY <2>3 DEF TypeOK
  <2>5. disk' \in [Runs -> RunRecord \cup {None}]
    BY <1>7, <2>4, SaveType DEF Report, TypeOK
  <2>6. blocked' \in {None, "closure_unknown", "storage_unavailable"}
    BY <1>7 DEF Report, Blocking, TypeOK
  <2> QED  BY <1>7, <2>4, <2>5, <2>6 DEF Report, TypeOK, ThreadOK
<1>8. ASSUME NEW r \in Runs, WorkerWrite(r)
      PROVE  TypeInv'
  <2>1. alloc' \in [Runs -> 0..RunQuota]
    BY <1>8, WorkbenchAssumption DEF WorkerWrite, TypeOK
  <2> QED  BY <1>8, <2>1 DEF WorkerWrite, TypeOK, ThreadOK, volatile
<1>9. ASSUME NEW r \in Runs, WorkerExit(r)
      PROVE  TypeInv'
  BY <1>9 DEF WorkerExit, TypeOK, ThreadOK, volatile
<1>10. CASE BeginShutdown
  BY <1>10 DEF BeginShutdown, TypeOK, ThreadOK, durable
<1>11. CASE Close
  BY <1>11 DEF Close, Forget, NoRuns, TypeOK, ThreadOK, ThreadPC, durable
<1>12. CASE Crash
  BY <1>12 DEF Crash, Forget, NoRuns, TypeOK, ThreadOK, ThreadPC
<1>13. CASE Supervisor
  <2> USE DEF AtSupervisor, ThreadPC, SupervisorPC
  <2>1. ASSUME NEW status \in FailStatus, NEW started \in {"no", "yes"},
               NEW closed \in Flag, Returns(status, started, closed, "uncommitted")
        PROVE  outcome' \in Outcome /\ outcome'.status # "completed"
    BY <2>1 DEF Returns, Outcome, FailStatus, FinalStatus
  <2>2. CASE SupervisorRefuse
    <3>1. outcome' \in Outcome /\ outcome'.status # "completed" /\ pc' = "record"
      BY <2>1, <2>2 DEF SupervisorRefuse, Flag, Returns
    <3> QED  BY <2>2, <3>1 DEF SupervisorRefuse, TypeOK, ThreadOK, durable
  <2>3. CASE SupervisorSpawn
    BY <2>3 DEF SupervisorSpawn, TypeOK, ThreadOK
  <2>4. CASE SupervisorCollect
    BY <2>4 DEF SupervisorCollect, TypeOK, ThreadOK, durable
  <2>5. CASE SupervisorAbort
    <3>1. outcome' \in Outcome /\ outcome'.status # "completed" /\ pc' = "record"
      BY <2>1, <2>5 DEF SupervisorAbort, StopWorker, Flag, Returns
    <3>2. worker' \in [Runs -> {"none", "live", "exited"}]
      BY <2>5 DEF SupervisorAbort, StopWorker, TypeOK
    <3> QED  BY <2>5, <3>1, <3>2 DEF SupervisorAbort, StopWorker, TypeOK, ThreadOK
  <2>6. CASE SupervisorDiscard
    <3>1. outcome' \in Outcome /\ outcome'.status # "completed" /\ pc' = "record"
      BY <2>1, <2>6 DEF SupervisorDiscard, Flag, Returns
    <3> QED  BY <2>6, <3>1 DEF SupervisorDiscard, TypeOK, ThreadOK, durable
  <2>7. CASE CommitReplace
    BY <2>7 DEF CommitReplace, TypeOK, ThreadOK
  <2>8. CASE CommitDone
    BY <2>8 DEF CommitDone, Returns, TypeOK, ThreadOK, durable, Outcome, Flag
  <2>9. CASE CommitUndone
    <3>1. outcome' \in Outcome /\ outcome'.status # "completed" /\ pc' = "record"
      BY <2>1, <2>9 DEF CommitUndone, FailStatus, Flag, Returns
    <3> QED  BY <2>9, <3>1 DEF CommitUndone, TypeOK, ThreadOK
  <2> QED
    BY <1>13, <2>2, <2>3, <2>4, <2>5, <2>6, <2>7, <2>8, <2>9 DEF Supervisor
<1>14. CASE SupervisorEscape
  BY <1>14 DEF SupervisorEscape, TypeOK, ThreadOK, ThreadPC, SupervisorPC
<1>15. CASE RecordUnknown \/ RecordFailure \/ RecordCommitted
  <2>1. /\ phase = "open" /\ active \in Runs /\ mem[active] \in RunRecord
        /\ outcome \in Outcome
    BY <1>15 DEF RecordUnknown, RecordFailure, RecordCommitted, AtSupervisor, ThreadOK
  <2>2. \A failure \in BOOLEAN : Noted(mem[active], outcome, failure) \in RunRecord
    BY <2>1, NotedType
  <2>3. Failures(outcome) \subseteq BOOLEAN
    BY DEF Failures
  <2>4. CASE RecordUnknown
    <3>1. PICK failure \in BOOLEAN :
            mem' = [mem EXCEPT ![active] =
              [Noted(mem[active], outcome, failure) EXCEPT !.state = "closure_unknown"]]
      BY <2>1, <2>3, <2>4 DEF RecordUnknown, TypeOK
    <3>2. [Noted(mem[active], outcome, failure) EXCEPT !.state = "closure_unknown"] \in RunRecord
      BY <2>2 DEF RunRecord, RunState
    <3>3. mem' \in [Runs -> RunRecord \cup {None}] /\ mem'[active] \in RunRecord
      BY <2>1, <3>1, <3>2 DEF TypeOK
    <3> QED  BY <2>1, <2>4, <3>3 DEF RecordUnknown, TypeOK, ThreadOK, ThreadPC, durable
  <2>5. CASE RecordFailure
    <3>1. PICK failure \in BOOLEAN :
            mem' = [mem EXCEPT ![active] =
              [Noted(mem[active], outcome, failure) EXCEPT !.state = outcome.status]]
      BY <2>1, <2>3, <2>5 DEF RecordFailure, TypeOK
    <3>2. outcome.status \in RunState
      BY <2>1, <2>5 DEF RecordFailure, AtSupervisor, ThreadOK, Outcome, RunState
    <3>3. [Noted(mem[active], outcome, failure) EXCEPT !.state = outcome.status] \in RunRecord
      BY <2>2, <3>2 DEF RunRecord
    <3>4. mem' \in [Runs -> RunRecord \cup {None}] /\ mem'[active] \in RunRecord
      BY <2>1, <3>1, <3>3 DEF TypeOK
    <3> QED  BY <2>1, <2>5, <3>4 DEF RecordFailure, TypeOK, ThreadOK, ThreadPC, durable
  <2>6. CASE RecordCommitted
    <3>1. PICK rec \in RunRecord : mem' = [mem EXCEPT ![active] = rec]
      <4>1. /\ [Noted(mem[active], outcome, FALSE) EXCEPT !.state = "verifying",
                  !.verification = "pending", !.bound = TRUE] \in RunRecord
            /\ [Noted(mem[active], outcome, FALSE) EXCEPT !.state = "verifying",
                  !.verification = "pending"] \in RunRecord
        BY <2>2 DEF RunRecord, RunState
      <4> QED  BY <2>1, <2>6, <4>1 DEF RecordCommitted, TypeOK
    <3>2. mem' \in [Runs -> RunRecord \cup {None}] /\ mem'[active] \in RunRecord
      BY <2>1, <3>1 DEF TypeOK
    <3>3. /\ disk' \in [Runs -> RunRecord \cup {None}]
          /\ blocked' \in {None, "closure_unknown", "storage_unavailable"}
      BY <2>6, <3>2, SaveType DEF RecordCommitted, Blocking, TypeOK
    <3> QED  BY <2>1, <2>6, <3>2, <3>3 DEF RecordCommitted, TypeOK, ThreadOK, ThreadPC
  <2> QED  BY <1>15, <2>4, <2>5, <2>6
<1>16. CASE ReadCommitted
  BY <1>16 DEF ReadCommitted, AtSupervisor, TypeOK, ThreadOK, ThreadPC, durable
<1>17. CASE WriteEnvelope
  <2>1. phase = "open" /\ active \in Runs /\ mem[active] \in RunRecord
    BY <1>17 DEF WriteEnvelope, AtSupervisor, ThreadOK
  <2>2. [mem[active] EXCEPT !.reserved = FALSE] \in RunRecord
    BY <2>1 DEF RunRecord
  <2>3. mem' = mem \/ mem' = [mem EXCEPT ![active] = [mem[active] EXCEPT !.reserved = FALSE]]
    BY <1>17, <2>1 DEF WriteEnvelope, TypeOK
  <2>4. mem' \in [Runs -> RunRecord \cup {None}] /\ mem'[active] \in RunRecord
    BY <2>1, <2>2, <2>3 DEF TypeOK
  <2> QED  BY <1>17, <2>1, <2>4 DEF WriteEnvelope, TypeOK, ThreadOK, ThreadPC
<1>18. CASE ThreadEscape
  <2>1. phase = "open" /\ active \in Runs /\ mem[active] \in RunRecord
    BY <1>18 DEF ThreadEscape, AtSupervisor, ThreadOK
  <2>2. mem' = [mem EXCEPT ![active] = Escaped(mem[active])]
    BY <1>18, <2>1 DEF ThreadEscape, TypeOK
  <2>3. mem' \in [Runs -> RunRecord \cup {None}] /\ mem'[active] \in RunRecord
    BY <2>1, <2>2, EscapedType DEF TypeOK
  <2>4. blocked' \in {None, "closure_unknown", "storage_unavailable"}
    BY <1>18 DEF ThreadEscape, TypeOK
  <2> QED  BY <1>18, <2>1, <2>3, <2>4 DEF ThreadEscape, TypeOK, ThreadOK, ThreadPC, durable
<1>19. CASE Finish
  <2>1. phase = "open" /\ active \in Runs /\ mem[active] \in RunRecord
    BY <1>19 DEF Finish, AtSupervisor, ThreadOK
  <2>2. mem' = [mem EXCEPT ![active] = Concluded(mem[active])]
    BY <1>19, <2>1 DEF Finish, TypeOK
  <2>3. mem' \in [Runs -> RunRecord \cup {None}]
    BY <2>1, <2>2, ConcludedType DEF TypeOK
  <2>4. /\ disk' \in [Runs -> RunRecord \cup {None}]
        /\ blocked' \in {None, "closure_unknown", "storage_unavailable"}
    BY <1>19, <2>3, SaveType DEF Finish, Blocking, TypeOK
  <2> QED  BY <1>19, <2>3, <2>4 DEF Finish, TypeOK, ThreadOK, ThreadPC
<1>20. CASE UNCHANGED vars
  BY <1>20 DEF TypeOK, ThreadOK, vars, durable, volatile
<1> QED
  BY <1>1, <1>2, <1>3, <1>4, <1>5, <1>6, <1>7, <1>8, <1>9, <1>10, <1>11, <1>12,
     <1>13, <1>14, <1>15, <1>16, <1>17, <1>18, <1>19, <1>20
  DEF Next, Progress

LEMMA TypeInvariant == Spec => []TypeInv
<1> QED  BY TypeInit, TypeStep, PTL DEF Spec

(* The registry, in memory and on disk, the outcome of the supervisor and  *)
(* every other variable keep their types.                                  *)
THEOREM TypeCorrect == Spec => []TypeOK
<1>1. TypeInv => TypeOK
  BY DEF TypeInv
<1> QED  BY <1>1, TypeInvariant, PTL

--------------------------------------------------------------------------------
(* Live workers *)

(* Startup without a receipt keeps a pending entry pending, and isolates it. *)
LEMMA PendingRecovered ==
  ASSUME NEW rec, Pending(rec)
  PROVE  Pending(Recovered(rec, FALSE)) /\ Recovered(rec, FALSE).state = "closure_unknown"
<1>1. Recovered(rec, FALSE) \in RunRecord
  BY RecoveredType DEF Pending
<1>2. \/ Recovered(rec, FALSE) =
           [rec EXCEPT !.state = "closure_unknown", !.publication = "unknown"]
      \/ Recovered(rec, FALSE) = [rec EXCEPT !.state = "closure_unknown"]
      \/ Recovered(rec, FALSE) = rec /\ rec.state = "closure_unknown"
  BY DEF Pending, Recovered, Unread
<1> QED  BY <1>1, <1>2 DEF Pending, RunRecord

(* The except clause isolates a pending entry. *)
LEMMA PendingEscaped ==
  ASSUME NEW rec, Pending(rec)
  PROVE  Pending(Escaped(rec)) /\ Escaped(rec).state = "closure_unknown"
<1>1. Escaped(rec) = [rec EXCEPT !.state = "closure_unknown", !.publication = "unknown"]
  BY DEF Pending, Escaped
<1>2. Escaped(rec) \in RunRecord
  BY EscapedType DEF Pending
<1> QED  BY <1>1, <1>2 DEF Pending, RunRecord

(* A save of a registry in which the live runs are pending keeps LiveOnDisk. *)
LEMMA SaveLive ==
  ASSUME LiveOnDisk, NEW registry, NEW fate, Save(registry, fate),
         \A r \in Runs : Live(r)' => Live(r) /\ Pending(registry[r]),
         receipts' = receipts
  PROVE  LiveOnDisk'
  BY DEF Save, LiveOnDisk, Pending

LEMMA LiveInit == Init => LiveOK
  BY DEF Init, LiveOK, RootOK, ReceiptOK, LiveOnDisk, LiveInMemory, LiveSupervised,
         AtMostOneWorker, Live

LEMMA LiveStep ==
  ASSUME IInv, TypeInv', [Next]_vars
  PROVE  LiveOK'
<1> USE DEF IInv, TypeInv, LiveOK
<1>1. CASE CreateRoot
  BY <1>1 DEF CreateRoot, RootOK, ReceiptOK, LiveOnDisk, LiveInMemory, LiveSupervised,
              AtMostOneWorker, Live, Isolated, Pending
<1>2. CASE CreateRegistry
  <2>1. (\A r \in Runs : ~Live(r)) /\ worker' = worker /\ mem = NoRuns
    BY <1>2 DEF CreateRegistry, RootOK, ReceiptOK
  <2>2. RootOK' /\ ReceiptOK'
    BY <1>2, <2>1 DEF CreateRegistry, RootOK, ReceiptOK, Live, SaveFates
  <2> QED
    BY <1>2, <2>1, <2>2 DEF LiveOnDisk, LiveInMemory, LiveSupervised,
                            AtMostOneWorker, Live, CreateRegistry, ThreadOK
<1>3. CASE Open
  <2>1. PICK readable \in SUBSET receipts, fate \in {"stored", "late"} :
          /\ Save(Recovery(disk, readable), fate)
          /\ IF fate = "stored"
             THEN /\ phase' = "open"
                  /\ mem' = Recovery(disk, readable)
                  /\ blocked' = StartupBlock(Recovery(disk, readable))
             ELSE UNCHANGED <<phase, mem, blocked>>
    BY <1>3 DEF Open
  <2>2. /\ phase = "down" /\ root = "registry" /\ pc = "idle" /\ mem = NoRuns
        /\ UNCHANGED <<root, receipts, worker, pc, active>>
    BY <1>3 DEF Open, ThreadOK, RootOK, ReceiptOK
  <2>3. \A r \in Runs : Live(r) =>
          /\ Pending(Recovery(disk, readable)[r])
          /\ Recovery(disk, readable)[r].state = "closure_unknown"
    <3> SUFFICES ASSUME NEW r \in Runs, Live(r)
                 PROVE  /\ Pending(Recovery(disk, readable)[r])
                        /\ Recovery(disk, readable)[r].state = "closure_unknown"
      OBVIOUS
    <3>1. Pending(disk[r]) /\ r \notin readable
      BY DEF LiveOnDisk
    <3>2. disk[r] # None
      BY <3>1, NoneIsNoRecord DEF Pending
    <3>3. (r \in readable) = FALSE
      BY <3>1
    <3>4. Recovery(disk, readable)[r] = Recovered(disk[r], FALSE)
      BY <3>2, <3>3 DEF Recovery
    <3> QED  BY <3>1, <3>4, PendingRecovered
  <2>4. LiveOnDisk'
    BY <2>1, <2>2, <2>3, SaveLive DEF Live
  <2>5. RootOK' /\ ReceiptOK'
    BY <2>1, <2>2 DEF RootOK, ReceiptOK, Live
  <2>6. LiveInMemory'
    <3>1. CASE fate = "late"
      BY <2>1, <2>2, <3>1 DEF LiveInMemory
    <3>2. ASSUME fate = "stored", NEW r \in Runs, Live(r)
          PROVE  StartupBlock(Recovery(disk, readable)) = "closure_unknown"
      <4>1. r \in Registered(Recovery(disk, readable))
        BY <2>3, <3>2, NoneIsNoRecord DEF Registered, Pending
      <4> QED  BY <2>3, <3>2, <4>1 DEF StartupBlock
    <3>3. CASE fate = "stored"
      BY <2>1, <2>2, <2>3, <3>2, <3>3 DEF LiveInMemory, Live, Isolated
    <3> QED  BY <3>1, <3>3
  <2> QED
    BY <2>2, <2>4, <2>5, <2>6 DEF LiveSupervised, AtMostOneWorker
<1>4. CASE OpenRefused
  BY <1>4 DEF OpenRefused, durable, RootOK, ReceiptOK, LiveOnDisk, LiveInMemory, LiveSupervised,
              AtMostOneWorker, Live, Isolated, Pending
<1>5. CASE Submit
  <2> PICK i \in Intents, p \in Payloads, r \in Runs :
         \/ StartReplay(i, p)
         \/ StartStored(i, p, r) \/ StartUnsaved(i, p, r) \/ StartThreadless(i, p, r)
    BY <1>5 DEF Submit, StartReplay, RunOf, Registered
  <2>1. CASE StartReplay(i, p)
    BY <2>1 DEF StartReplay, durable, volatile, RootOK, ReceiptOK, LiveOnDisk, LiveInMemory,
                LiveSupervised, AtMostOneWorker, Live, Isolated, UnknownClosure
  <2> SUFFICES ASSUME \/ StartStored(i, p, r) \/ StartUnsaved(i, p, r)
                      \/ StartThreadless(i, p, r)
               PROVE  LiveOK'
    BY <2>1
  <2>2. /\ Admissible(i, r)
        /\ UNCHANGED <<root, receipts, worker, phase, blocked>>
    BY DEF StartStored, StartUnsaved, StartThreadless, volatile
  <2>3. \A q \in Runs : ~Live(q)
    BY <2>2, WorkbenchAssumption
    DEF Admissible, CanRegister, LiveInMemory, Isolated
  <2>4. (\A q \in Runs : ~Live(q)') /\ phase' = "open" /\ root' = "registry"
    BY <2>2, <2>3 DEF Live, Admissible, CanRegister, RootOK, ReceiptOK
  <2>5. pc = "idle" /\ r \notin receipts
    BY <2>2, WorkbenchAssumption DEF Admissible, CanRegister, ThreadOK, ReceiptOK
  <2>6. CASE StartStored(i, p, r)
    <3>1. Pending(NewRun(i, p))
      BY NewRunType DEF Pending, NewRun
    <3>2. Pending(disk'[r]) /\ Pending(mem'[r]) /\ active' = r
      BY <2>6, <3>1 DEF StartStored, Save, TypeOK
    <3> QED
      BY <2>2, <2>4, <2>5, <2>6, <3>2
      DEF RootOK, ReceiptOK, LiveOnDisk, LiveInMemory, LiveSupervised,
          AtMostOneWorker, Live, StartStored
  <2>7. CASE pc' = "idle"
    BY <2>2, <2>4, <2>7
    DEF RootOK, ReceiptOK, LiveOnDisk, LiveInMemory, LiveSupervised, AtMostOneWorker, Live
  <2> QED  BY <2>5, <2>6, <2>7 DEF StartUnsaved, StartThreadless, volatile
<1>6. ASSUME NEW r \in Runs, Cancel(r)
      PROVE  LiveOK'
  <2>1. /\ active = r /\ mem[r] \in RunRecord /\ phase = "open"
        /\ mem[r].state \in {"running", "cancelling"}
        /\ UNCHANGED <<root, receipts, worker, phase, active, blocked, pc, outcome>>
    BY <1>6 DEF Cancel, Cancellable, TypeOK
  <2>2. mem' = [mem EXCEPT ![r] = [mem[r] EXCEPT !.cancelled = TRUE, !.state = "cancelling"]]
    BY <1>6 DEF Cancel, TypeOK
  <2>3. \A q \in Runs : q # r => mem'[q] = mem[q]
    BY <2>2 DEF TypeOK
  <2>4. Pending(mem[r]) => Pending(mem'[r])
    BY <2>1, <2>2 DEF Pending, RunRecord, RunState, TypeOK
  <2>5. \A q \in Runs : Live(q) => Pending(mem'[q])
    BY <2>1, <2>3, <2>4 DEF LiveInMemory
  <2>6. LiveOnDisk'
    <3> PICK fate \in SaveFates : Save(mem', fate)
      BY <1>6 DEF Cancel
    <3> QED  BY <2>1, <2>5, SaveLive DEF Live
  <2>7. LiveInMemory'
    BY <2>1, <2>3, <2>5 DEF LiveInMemory, Live, Isolated
  <2>8. LiveSupervised'
    <3>1. pc = "check" => Pending(mem'[r]) /\ Pending(disk'[r])
      BY <1>6, <2>1, <2>4 DEF LiveSupervised, Cancel, Save
    <3>2. Isolated(active) => Isolated(active)'
      BY <2>1 DEF Isolated
    <3> QED  BY <2>1, <3>1, <3>2 DEF LiveSupervised, Live, UnknownClosure
  <2>9. RootOK' /\ ReceiptOK' /\ AtMostOneWorker'
    BY <2>1 DEF RootOK, ReceiptOK, AtMostOneWorker, Live
  <2> QED  BY <2>6, <2>7, <2>8, <2>9
<1>7. ASSUME NEW r \in Runs, Report(r)
      PROVE  LiveOK'
  <2>1. /\ active = None /\ mem[r].closed = "yes" /\ phase = "open"
        /\ UNCHANGED <<root, receipts, worker, phase, active, pc, outcome>>
        /\ blocked' = blocked \/ blocked = None
    BY <1>7 DEF Report, Settled, Blocking
  <2>2. pc = "idle"
    BY <2>1, WorkbenchAssumption DEF ThreadOK
  <2>3. \A q \in Runs : q # r => mem'[q] = mem[q]
    BY <1>7 DEF Report, TypeOK
  <2>4. \A q \in Runs : Live(q) => q # r /\ Pending(mem[q]) /\ Isolated(q)
    BY <2>1, WorkbenchAssumption DEF LiveInMemory, Pending
  <2>5. \A q \in Runs : Live(q) => Pending(mem'[q]) /\ Isolated(q)'
    BY <2>1, <2>3, <2>4, WorkbenchAssumption DEF Isolated
  <2>6. LiveOnDisk'
    <3> PICK fate \in SaveFates : Save(mem', fate)
      BY <1>7 DEF Report
    <3> QED  BY <2>1, <2>5, SaveLive DEF Live
  <2>7. LiveInMemory'
    BY <2>1, <2>5 DEF LiveInMemory, Live
  <2> QED
    BY <2>1, <2>2, <2>6, <2>7 DEF RootOK, ReceiptOK, AtMostOneWorker, LiveSupervised, Live
<1>8. ASSUME NEW r \in Runs, WorkerWrite(r)
      PROVE  LiveOK'
  BY <1>8 DEF WorkerWrite, volatile, RootOK, ReceiptOK, LiveOnDisk, LiveInMemory, LiveSupervised,
              AtMostOneWorker, Live, Isolated, Pending
<1>9. ASSUME NEW r \in Runs, WorkerExit(r)
      PROVE  LiveOK'
  <2>1. /\ \A q \in Runs : Live(q)' => Live(q)
        /\ UNCHANGED <<root, disk, receipts, volatile>>
    BY <1>9 DEF WorkerExit, Live, TypeOK
  <2>2. pc # "idle" => active \in Runs
    BY DEF ThreadOK
  <2>3. RootOK' /\ LiveOnDisk' /\ AtMostOneWorker'
    BY <2>1 DEF RootOK, LiveOnDisk, AtMostOneWorker, Live, volatile
  <2>6. /\ \A q \in Runs : worker'[q] = "none" => worker[q] = "none"
        /\ \A q \in Runs : worker[q] = "exited" => worker'[q] = "exited"
    BY <1>9 DEF WorkerExit, TypeOK
  <2>7. ReceiptOK'
    BY <2>1, <2>6 DEF ReceiptOK, TypeOK
  <2>4. LiveInMemory'
    BY <2>1 DEF LiveInMemory, Isolated, volatile
  <2>5. LiveSupervised'
    BY <2>1, <2>2, <2>6 DEF LiveSupervised, Isolated, UnknownClosure, volatile
  <2> QED  BY <2>3, <2>4, <2>5, <2>7
<1>10. CASE BeginShutdown
  BY <1>10 DEF BeginShutdown, durable, RootOK, ReceiptOK, LiveOnDisk, LiveInMemory, LiveSupervised,
               AtMostOneWorker, Live, Isolated, Pending
<1>11. CASE Close
  BY <1>11 DEF Close, Forget, durable, RootOK, ReceiptOK, LiveOnDisk, LiveInMemory, LiveSupervised,
               AtMostOneWorker, Live, Pending
<1>12. CASE Crash
  BY <1>12 DEF Crash, Forget, RootOK, ReceiptOK, LiveOnDisk, LiveInMemory, LiveSupervised,
               AtMostOneWorker, Live, Pending
<1>13. CASE Supervisor
  <2> USE DEF AtSupervisor
  <2>1. /\ pc \in SupervisorPC \cup {"record"} /\ phase = "open" /\ active \in Runs
        /\ UNCHANGED <<root, disk, phase, mem, active, blocked>>
    BY <1>13 DEF Supervisor, SupervisorRefuse, SupervisorSpawn, SupervisorCollect,
         SupervisorAbort, StopWorker, SupervisorDiscard, CommitReplace, CommitDone,
         CommitUndone, ThreadOK, SupervisorPC, durable
  <2>2. RootOK' /\ ReceiptOK'
    <3>1. \A r \in Runs : worker'[r] = "none" => worker[r] = "none"
      BY <1>13 DEF Supervisor, SupervisorRefuse, SupervisorSpawn, SupervisorCollect,
           SupervisorAbort, StopWorker, SupervisorDiscard, CommitReplace, CommitDone,
           CommitUndone, durable, TypeOK
    <3>2. \/ receipts' \subseteq receipts
          \/ receipts' = receipts \cup {active} /\ worker[active] = "exited"
      BY <1>13 DEF Supervisor, SupervisorRefuse, SupervisorSpawn, SupervisorCollect,
           SupervisorAbort, StopWorker, SupervisorDiscard, CommitReplace, CommitDone,
           CommitUndone, durable, LiveSupervised
    <3>3. RootOK'
      <4>1. root # "registry" => phase # "open"
        BY DEF RootOK
      <4> QED  BY <2>1, <4>1 DEF RootOK
    <3> QED  BY <2>1, <3>1, <3>2, <3>3 DEF ReceiptOK, TypeOK
  <2>3. ASSUME UNCHANGED <<receipts, worker>>
        PROVE  LiveOnDisk' /\ LiveInMemory' /\ AtMostOneWorker'
    BY <2>1, <2>3 DEF LiveOnDisk, LiveInMemory, AtMostOneWorker, Live, Isolated
  <2>4. ASSUME pc' = "record", Live(active)' => UnknownClosure(outcome)'
        PROVE  LiveSupervised'
    BY <2>1, <2>4 DEF LiveSupervised
  <2>5. CASE SupervisorRefuse
    <3>1. ~Live(active)' /\ pc' = "record" /\ UNCHANGED <<receipts, worker>>
      BY <2>1, <2>5 DEF SupervisorRefuse, Returns, LiveSupervised, Live, durable
    <3> QED  BY <2>2, <2>3, <2>4, <3>1
  <2>6. CASE SupervisorSpawn
    <3>1. /\ pc = "check" /\ pc' = "worker" /\ receipts' = receipts
          /\ worker' = [worker EXCEPT ![active] = "live"]
      BY <2>6 DEF SupervisorSpawn
    <3>2. worker'[active] = "live" /\ \A r \in Runs : Live(r)' => r = active
      BY <2>1, <3>1 DEF Live, LiveSupervised, TypeOK
    <3>3. LiveOnDisk' /\ LiveInMemory' /\ AtMostOneWorker'
      BY <2>1, <3>1, <3>2
      DEF LiveOnDisk, LiveInMemory, LiveSupervised, AtMostOneWorker, Live
    <3> QED  BY <2>2, <3>1, <3>3 DEF LiveSupervised
  <2>7. CASE SupervisorCollect
    <3>1. /\ worker'[active'] = "exited" /\ pc' = "verify"
          /\ UNCHANGED <<receipts, worker>>
      BY <2>1, <2>7 DEF SupervisorCollect, durable
    <3> QED  BY <2>2, <2>3, <3>1 DEF LiveSupervised
  <2>8. CASE SupervisorAbort
    <3>1. /\ \A r \in Runs : Live(r)' => Live(r)
          /\ pc' = "record" /\ receipts' = receipts
          /\ Live(active)' => UnknownClosure(outcome')
      BY <2>1, <2>8 DEF SupervisorAbort, StopWorker, Returns, Live, TypeOK, UnknownClosure
    <3>2. LiveOnDisk' /\ LiveInMemory' /\ AtMostOneWorker'
      BY <2>1, <3>1 DEF LiveOnDisk, LiveInMemory, AtMostOneWorker, Live, Isolated
    <3>3. LiveSupervised'
      BY <2>4, <3>1 DEF UnknownClosure
    <3> QED  BY <2>2, <3>2, <3>3
  <2>9. CASE SupervisorDiscard
    <3>1. ~Live(active)' /\ pc' = "record" /\ UNCHANGED <<receipts, worker>>
      BY <2>1, <2>9 DEF SupervisorDiscard, Returns, LiveSupervised, Live, durable
    <3> QED  BY <2>2, <2>3, <2>4, <3>1
  <2>10. CASE CommitReplace
    <3>1. /\ ~Live(active)' /\ pc' = "committing" /\ UNCHANGED worker
          /\ receipts' = receipts \cup {active}
      BY <2>1, <2>10 DEF CommitReplace, LiveSupervised, Live
    <3> QED
      BY <2>1, <2>2, <3>1
      DEF LiveSupervised, LiveOnDisk, LiveInMemory, AtMostOneWorker, Live, Isolated
  <2>11. CASE CommitDone
    <3>1. ~Live(active)' /\ pc' = "record" /\ UNCHANGED <<receipts, worker>>
      BY <2>1, <2>11 DEF CommitDone, Returns, LiveSupervised, Live, durable
    <3> QED  BY <2>2, <2>3, <2>4, <3>1
  <2>12. CASE CommitUndone
    <3>1. /\ ~Live(active)' /\ pc' = "record" /\ UNCHANGED worker
          /\ receipts' \subseteq receipts
      BY <2>1, <2>12 DEF CommitUndone, Returns, LiveSupervised, Live
    <3>2. LiveOnDisk' /\ LiveInMemory' /\ AtMostOneWorker'
      BY <2>1, <3>1 DEF LiveOnDisk, LiveInMemory, AtMostOneWorker, Live, Isolated
    <3> QED  BY <2>2, <2>4, <3>1, <3>2
  <2> QED
    BY <1>13, <2>5, <2>6, <2>7, <2>8, <2>9, <2>10, <2>11, <2>12 DEF Supervisor
<1>14. CASE SupervisorEscape
  <2>1. /\ \A r \in Runs : Live(r)' => Live(r)
        /\ \A r \in Runs : worker'[r] = "none" => worker[r] = "none"
        /\ pc' = "escape" /\ receipts \subseteq Runs
        /\ UNCHANGED <<root, disk, receipts, phase, mem, active, blocked>>
    BY <1>14 DEF SupervisorEscape, Live, TypeOK
  <2> QED
    BY <2>1 DEF RootOK, ReceiptOK, LiveOnDisk, LiveInMemory, LiveSupervised, AtMostOneWorker,
                Live, Isolated
<1>15. CASE RecordUnknown \/ RecordFailure \/ RecordCommitted
  <2>1. /\ pc = "record" /\ phase = "open" /\ active \in Runs
        /\ mem[active] \in RunRecord /\ outcome \in Outcome
        /\ UNCHANGED <<root, receipts, worker, phase, active>>
    BY <1>15 DEF RecordUnknown, RecordFailure, RecordCommitted, AtSupervisor,
                 ThreadOK, durable
  <2>2. RootOK' /\ ReceiptOK' /\ AtMostOneWorker'
    BY <1>15, <2>1
    DEF RootOK, ReceiptOK, AtMostOneWorker, Live, RecordUnknown, RecordFailure, RecordCommitted
  <2>3. CASE RecordUnknown
    <3>1. PICK failure \in BOOLEAN :
            mem' = [mem EXCEPT ![active] =
              [Noted(mem[active], outcome, failure) EXCEPT !.state = "closure_unknown"]]
      BY <2>1, <2>3 DEF RecordUnknown, Failures, TypeOK
    <3>2. /\ Noted(mem[active], outcome, failure) \in RunRecord
          /\ Noted(mem[active], outcome, failure).started = "yes"
          /\ Noted(mem[active], outcome, failure).closed # "yes"
      BY <2>1, <2>3, NotedType DEF RecordUnknown, Noted, RunRecord, UnknownClosure
    <3>3. Pending(mem'[active]) /\ mem'[active].state = "closure_unknown"
      BY <2>1, <3>1, <3>2 DEF Pending, TypeOK, RunRecord, RunState
    <3>4. \A r \in Runs : r # active => mem'[r] = mem[r]
      BY <3>1 DEF TypeOK
    <3>5. blocked' = "closure_unknown" /\ pc' = "envelope" /\ disk' = disk
      BY <2>3 DEF RecordUnknown, durable
    <3> QED
      BY <2>1, <2>2, <3>3, <3>4, <3>5
      DEF LiveOnDisk, LiveInMemory, LiveSupervised, Live, Isolated
  <2>4. CASE RecordFailure \/ RecordCommitted
    <3>1. ~Live(active)
      BY <2>1, <2>4 DEF LiveSupervised, RecordFailure, RecordCommitted
    <3>2. \A r \in Runs : r # active => mem'[r] = mem[r]
      BY <2>4 DEF RecordFailure, RecordCommitted, TypeOK
    <3>3. blocked' = blocked \/ blocked = None
      BY <2>4 DEF RecordFailure, RecordCommitted, Blocking
    <3>4. \A r \in Runs : Live(r) => Pending(mem'[r]) /\ Isolated(r)'
      BY <2>1, <3>1, <3>2, <3>3, WorkbenchAssumption DEF LiveInMemory, Isolated
    <3>5. LiveOnDisk'
      <4>1. CASE disk' = disk
        BY <2>1, <4>1 DEF LiveOnDisk, Live
      <4>2. ASSUME NEW fate \in SaveFates, Save(mem', fate)
            PROVE  LiveOnDisk'
        BY <2>1, <3>4, <4>2, SaveLive DEF Live
      <4> QED  BY <2>4, <4>1, <4>2 DEF RecordFailure, RecordCommitted, durable
    <3>6. LiveInMemory'
      BY <2>1, <3>4 DEF LiveInMemory, Live
    <3>7. ~Live(active)' /\ pc' \in {"read", "escape", "envelope"}
      BY <2>1, <2>4, <3>1 DEF Live, RecordFailure, RecordCommitted
    <3>8. LiveSupervised'
      BY <3>7 DEF LiveSupervised
    <3> QED  BY <2>2, <3>5, <3>6, <3>8
  <2> QED  BY <1>15, <2>3, <2>4
<1>16. CASE ReadCommitted
  <2>1. /\ pc = "read" /\ pc' \in {"envelope", "escape"}
        /\ UNCHANGED <<root, disk, receipts, worker, phase, mem, active, blocked>>
    BY <1>16 DEF ReadCommitted, AtSupervisor, durable
  <2> QED
    BY <2>1 DEF RootOK, ReceiptOK, LiveOnDisk, LiveInMemory, LiveSupervised, AtMostOneWorker,
                Live, Isolated
<1>17. CASE WriteEnvelope
  <2>1. /\ pc = "envelope" /\ pc' = "finish" /\ phase = "open" /\ active \in Runs
        /\ UNCHANGED <<root, disk, receipts, worker, phase, active, blocked>>
    BY <1>17 DEF WriteEnvelope, AtSupervisor, ThreadOK
  <2>2. \A r \in Runs : Live(r) => mem'[r] = mem[r]
    <3>1. CASE Live(active)
      BY <1>17, <2>1, <3>1 DEF WriteEnvelope, LiveSupervised, Isolated
    <3>2. CASE ~Live(active)
      BY <1>17, <2>1, <3>2 DEF WriteEnvelope, TypeOK
    <3> QED  BY <3>1, <3>2
  <2> QED
    BY <2>1, <2>2 DEF RootOK, ReceiptOK, LiveOnDisk, LiveInMemory, LiveSupervised,
                      AtMostOneWorker, Live, Isolated
<1>18. CASE ThreadEscape
  <2>1. /\ phase = "open" /\ pc' = "finish" /\ active \in Runs
        /\ UNCHANGED <<root, disk, receipts, worker, phase, active>>
        /\ blocked' = blocked \/ blocked' = "closure_unknown"
    BY <1>18 DEF ThreadEscape, AtSupervisor, ThreadOK, durable
  <2>2. mem' = [mem EXCEPT ![active] = Escaped(mem[active])]
    BY <1>18 DEF ThreadEscape, TypeOK
  <2>3. ASSUME Live(active)
        PROVE  Pending(mem'[active]) /\ Isolated(active)'
    <3>1. Pending(mem[active])
      BY <2>1, <2>3 DEF LiveInMemory
    <3>2. mem'[active] = Escaped(mem[active])
      BY <2>1, <2>2 DEF TypeOK
    <3> QED  BY <1>18, <2>1, <3>1, <3>2, PendingEscaped DEF ThreadEscape, Isolated
  <2>4. \A r \in Runs : r # active => mem'[r] = mem[r]
    BY <2>2 DEF TypeOK
  <2> QED
    BY <2>1, <2>3, <2>4 DEF RootOK, ReceiptOK, LiveOnDisk, LiveInMemory, LiveSupervised,
                            AtMostOneWorker, Live, Isolated
<1>19. CASE Finish
  <2>1. /\ pc = "finish" /\ phase = "open" /\ active \in Runs
        /\ pc' = "idle" /\ active' = None
        /\ UNCHANGED <<root, receipts, worker, phase>>
        /\ blocked' = blocked \/ blocked = None
    BY <1>19 DEF Finish, AtSupervisor, ThreadOK, Blocking
  <2>2. mem' = [mem EXCEPT ![active] = Concluded(mem[active])]
    BY <1>19 DEF Finish, TypeOK
  <2>3. \A r \in Runs : Live(r) => Pending(mem[r]) /\ Isolated(r)
    BY <2>1 DEF LiveInMemory, LiveSupervised
  <2>4. \A r \in Runs : Live(r) => mem'[r] = mem[r]
    BY <2>1, <2>2, <2>3 DEF Isolated, Concluded, TypeOK
  <2>5. \A r \in Runs : Live(r) => Pending(mem'[r]) /\ Isolated(r)'
    BY <2>1, <2>3, <2>4, WorkbenchAssumption DEF Isolated
  <2>6. LiveOnDisk'
    <3> PICK fate \in SaveFates : Save(mem', fate)
      BY <1>19 DEF Finish
    <3> QED  BY <2>1, <2>5, SaveLive DEF Live
  <2> QED
    BY <2>1, <2>5, <2>6 DEF RootOK, ReceiptOK, LiveInMemory, LiveSupervised, AtMostOneWorker, Live
<1>20. CASE UNCHANGED vars
  BY <1>20 DEF vars, durable, volatile, RootOK, ReceiptOK, LiveOnDisk, LiveInMemory, LiveSupervised,
               AtMostOneWorker, Live, Isolated, Pending, UnknownClosure
<1> QED
  BY <1>1, <1>2, <1>3, <1>4, <1>5, <1>6, <1>7, <1>8, <1>9, <1>10, <1>11, <1>12,
     <1>13, <1>14, <1>15, <1>16, <1>17, <1>18, <1>19, <1>20
  DEF Next, Progress

LEMMA LiveInvariant == Spec => []IInv
<1>1. Init => IInv
  BY TypeInit, LiveInit DEF IInv
<1>2. IInv /\ [Next]_vars => IInv'
  BY TypeStep, LiveStep DEF IInv
<1> QED  BY <1>1, <1>2, PTL DEF Spec

(* No two workers are ever alive together, one left behind by a dead       *)
(* workbench process included.                                             *)
THEOREM OneWorker == Spec => []AtMostOneWorker
<1>1. IInv => AtMostOneWorker
  BY DEF IInv, LiveOK
<1> QED  BY <1>1, LiveInvariant, PTL

(* No registry, in memory or on disk, settles a run whose worker lives.    *)
THEOREM SettledIsClosed == Spec => []SettledMeansClosed
<1>1. ASSUME IInv
      PROVE  SettledMeansClosed
  <2> SUFFICES ASSUME NEW r \in Runs, NEW rec \in {mem[r], disk[r]} \ {None}, Live(r)
               PROVE  rec.closed # "yes" /\ rec.state \notin SettledStates
    BY DEF SettledMeansClosed, Live
  <2>1. Pending(rec)
    <3>1. CASE rec = disk[r]
      BY <1>1, <3>1 DEF IInv, LiveOK, LiveOnDisk
    <3>2. CASE rec = mem[r]
      <4>1. phase = "open"
        BY <1>1, <3>2 DEF IInv, LiveOK, RootOK, NoRuns
      <4> QED  BY <1>1, <3>2, <4>1 DEF IInv, LiveOK, LiveInMemory
    <3> QED  BY <3>1, <3>2
  <2> QED  BY <2>1 DEF Pending, SettledStates, FinalStatus
<1> QED  BY <1>1, LiveInvariant, PTL

--------------------------------------------------------------------------------
(* Dispatch after an unknown closure *)

HoldsUnknown(registry) ==
  \E q \in Registered(registry) : registry[q].state = "closure_unknown"

DispatchOK ==
  /\ phase = "open" /\ HoldsUnknown(mem) => blocked = "closure_unknown"
  /\ pc = "check" => ~HoldsUnknown(mem) /\ ~HoldsUnknown(disk)
  /\ pc = "worker" => worker[active] # "none"

(* Replacing an entry by one that is not unknown adds no unknown one. *)
LEMMA UnknownUpdate ==
  ASSUME NEW registry \in [Runs -> RunRecord \cup {None}], NEW r, NEW rec,
         rec.state # "closure_unknown",
         HoldsUnknown([registry EXCEPT ![r] = rec])
  PROVE  HoldsUnknown(registry)
  BY DEF HoldsUnknown, Registered

LEMMA DispatchStep ==
  ASSUME IInv, DispatchOK, [Next]_vars
  PROVE  DispatchOK'
<1> USE DEF IInv, TypeInv
<1>1. CASE CreateRoot \/ OpenRefused \/ BeginShutdown
  BY <1>1 DEF CreateRoot, OpenRefused, BeginShutdown, DispatchOK, ThreadOK,
              HoldsUnknown, Registered, durable
<1>2. CASE CreateRegistry \/ Close \/ Crash
  <2>1. mem' = NoRuns /\ pc' = "idle"
    BY <1>2 DEF CreateRegistry, Close, Crash, Forget, ThreadOK, LiveOK, RootOK
  <2>2. ~HoldsUnknown(NoRuns)
    BY DEF HoldsUnknown, Registered, NoRuns
  <2> QED  BY <2>1, <2>2 DEF DispatchOK, HoldsUnknown, Registered
<1>3. CASE Open
  BY <1>3 DEF Open, DispatchOK, ThreadOK, HoldsUnknown, Registered, StartupBlock
<1>4. CASE Submit
  <2> PICK i \in Intents, p \in Payloads, r \in Runs :
         \/ StartReplay(i, p)
         \/ StartStored(i, p, r) \/ StartUnsaved(i, p, r) \/ StartThreadless(i, p, r)
    BY <1>4 DEF Submit, StartReplay, RunOf, Registered
  <2>1. CASE StartReplay(i, p) \/ StartUnsaved(i, p, r)
    <3>1. CASE StartReplay(i, p)
      BY <3>1 DEF StartReplay, volatile, durable, DispatchOK, HoldsUnknown, Registered
    <3>2. CASE StartUnsaved(i, p, r)
      <4>1. pc = "idle"
        BY <3>2, WorkbenchAssumption DEF StartUnsaved, Admissible, CanRegister, ThreadOK
      <4> QED
        BY <3>2, <4>1 DEF StartUnsaved, volatile, DispatchOK, HoldsUnknown, Registered
    <3> QED  BY <2>1, <3>1, <3>2
  <2>2. CASE StartStored(i, p, r) \/ StartThreadless(i, p, r)
    <3>1. ~HoldsUnknown(mem) /\ pc = "idle"
      BY <2>2, WorkbenchAssumption
      DEF StartStored, StartThreadless, Admissible, CanRegister, DispatchOK, ThreadOK
    <3>2. PICK rec : mem' = [mem EXCEPT ![r] = rec] /\ rec.state # "closure_unknown"
      <4>1. NewRun(i, p).state = "running"
        BY DEF NewRun
      <4>2. [NewRun(i, p) EXCEPT !.state = "failed", !.analysis = "failed",
               !.started = "no", !.reserved = FALSE].state = "failed"
        BY DEF NewRun
      <4> QED  BY <2>2, <4>1, <4>2 DEF StartStored, StartThreadless
    <3>3. ~HoldsUnknown(mem')
      BY <3>1, <3>2, UnknownUpdate DEF TypeOK
    <3>4. pc' = "check" => disk' = mem'
      BY <2>2, <3>1 DEF StartStored, StartThreadless, Save
    <3>5. pc' # "worker"
      BY <2>2, <3>1 DEF StartStored, StartThreadless
    <3> QED  BY <3>3, <3>4, <3>5 DEF DispatchOK, HoldsUnknown, Registered
  <2> QED  BY <2>1, <2>2
<1>5. ASSUME NEW r \in Runs, Cancel(r)
      PROVE  DispatchOK'
  <2>1. mem[r] \in RunRecord
    BY <1>5 DEF Cancel, Cancellable, TypeOK
  <2>2. PICK rec : mem' = [mem EXCEPT ![r] = rec] /\ rec.state # "closure_unknown"
    <3>1. [mem[r] EXCEPT !.cancelled = TRUE, !.state = "cancelling"].state = "cancelling"
      BY <2>1 DEF RunRecord
    <3>2. mem' = [mem EXCEPT ![r] = [mem[r] EXCEPT !.cancelled = TRUE,
                                                   !.state = "cancelling"]]
      BY <1>5 DEF Cancel, TypeOK
    <3> QED  BY <3>1, <3>2
  <2>3. HoldsUnknown(mem') => HoldsUnknown(mem)
    BY <2>2, UnknownUpdate DEF TypeOK
  <2>4. disk' = disk \/ disk' = mem'
    BY <1>5 DEF Cancel, Save
  <2> QED  BY <1>5, <2>3, <2>4 DEF Cancel, DispatchOK, HoldsUnknown, Registered
<1>6. ASSUME NEW r \in Runs, Report(r)
      PROVE  DispatchOK'
  <2>1. mem[r] \in RunRecord /\ pc = "idle" /\ pc' = "idle"
    BY <1>6, WorkbenchAssumption DEF Report, TypeOK, ThreadOK
  <2>2. PICK rec : mem' = [mem EXCEPT ![r] = rec] /\ rec.state # "closure_unknown"
    <3>1. CASE mem' = [mem EXCEPT ![r].state = "ready", ![r].verification = "passed"]
      <4>1. [mem[r] EXCEPT !.state = "ready", !.verification = "passed"].state = "ready"
        BY <2>1 DEF RunRecord
      <4> QED  BY <3>1, <4>1 DEF TypeOK
    <3>2. CASE mem' = [mem EXCEPT ![r].state = "verification_failed",
                                  ![r].verification = "unavailable"]
      <4>1. [mem[r] EXCEPT !.state = "verification_failed",
               !.verification = "unavailable"].state = "verification_failed"
        BY <2>1 DEF RunRecord
      <4> QED  BY <3>2, <4>1 DEF TypeOK
    <3> QED  BY <1>6, <3>1, <3>2 DEF Report
  <2>3. HoldsUnknown(mem') => HoldsUnknown(mem)
    BY <2>2, UnknownUpdate DEF TypeOK
  <2>4. blocked' = blocked \/ blocked = None
    BY <1>6 DEF Report, Blocking
  <2> QED
    BY <1>6, <2>1, <2>3, <2>4, WorkbenchAssumption
    DEF Report, DispatchOK, HoldsUnknown, Registered
<1>7. ASSUME NEW r \in Runs, WorkerWrite(r) \/ WorkerExit(r)
      PROVE  DispatchOK'
  <2>1. \A q \in Runs : worker'[q] = "none" => worker[q] = "none"
    BY <1>7 DEF WorkerWrite, WorkerExit, TypeOK
  <2>2. UNCHANGED <<disk, volatile>>
    BY <1>7 DEF WorkerWrite, WorkerExit
  <2>3. pc = "worker" => active \in Runs
    BY DEF ThreadOK
  <2> QED
    BY <2>1, <2>2, <2>3 DEF DispatchOK, HoldsUnknown, Registered, volatile
<1>8. CASE Supervisor \/ SupervisorEscape
  <2>1. /\ phase = "open" /\ active \in Runs
        /\ UNCHANGED <<disk, phase, mem, active, blocked>>
        /\ pc' # "check"
        /\ pc' = "worker" => worker' = [worker EXCEPT ![active] = "live"]
    BY <1>8 DEF Supervisor, SupervisorRefuse, SupervisorSpawn, SupervisorCollect,
         SupervisorAbort, StopWorker, SupervisorDiscard, CommitReplace, CommitDone,
         CommitUndone, SupervisorEscape, ThreadOK, SupervisorPC, durable, Returns,
         AtSupervisor
  <2> QED  BY <2>1 DEF DispatchOK, HoldsUnknown, Registered, TypeOK
<1>9. CASE RecordUnknown
  <2>1. blocked' = "closure_unknown" /\ pc' = "envelope"
    BY <1>9 DEF RecordUnknown
  <2> QED  BY <2>1 DEF DispatchOK
<1>10. CASE ThreadEscape
  <2>1. mem[active] \in RunRecord /\ active \in Runs /\ pc' = "finish"
    BY <1>10 DEF ThreadEscape, AtSupervisor, ThreadOK
  <2>2. mem' = [mem EXCEPT ![active] = Escaped(mem[active])]
    BY <1>10 DEF ThreadEscape, TypeOK
  <2>3. CASE Escaped(mem[active]).state = "closure_unknown"
    BY <1>10, <2>1, <2>2, <2>3 DEF ThreadEscape, DispatchOK, TypeOK
  <2>4. CASE Escaped(mem[active]).state # "closure_unknown"
    <3>1. HoldsUnknown(mem') => HoldsUnknown(mem)
      BY <2>2, <2>4, UnknownUpdate DEF TypeOK
    <3> QED  BY <1>10, <2>1, <3>1 DEF ThreadEscape, DispatchOK, HoldsUnknown, Registered
  <2> QED  BY <2>3, <2>4
<1>11. CASE RecordFailure \/ RecordCommitted
  <2>1. /\ mem[active] \in RunRecord /\ outcome \in Outcome
        /\ pc' \notin {"check", "worker"} /\ phase' = phase
        /\ blocked' = blocked \/ blocked = None
    BY <1>11 DEF RecordFailure, RecordCommitted, AtSupervisor, ThreadOK, Blocking
  <2>2. \A failure \in BOOLEAN : Noted(mem[active], outcome, failure) \in RunRecord
    BY <2>1, NotedType
  <2>3. PICK rec : mem' = [mem EXCEPT ![active] = rec] /\ rec.state # "closure_unknown"
    <3>1. CASE RecordFailure
      <4>1. PICK failure \in BOOLEAN :
              mem' = [mem EXCEPT ![active] =
                [Noted(mem[active], outcome, failure) EXCEPT !.state = outcome.status]]
        BY <3>1 DEF RecordFailure, Failures, TypeOK
      <4>2. [Noted(mem[active], outcome, failure) EXCEPT !.state = outcome.status].state
              = outcome.status
        BY <2>2 DEF RunRecord
      <4>3. outcome.status # "closure_unknown"
        BY <2>1 DEF Outcome, FinalStatus
      <4> QED  BY <4>1, <4>2, <4>3
    <3>2. CASE RecordCommitted
      <4>1. /\ [Noted(mem[active], outcome, FALSE) EXCEPT !.state = "verifying",
                  !.verification = "pending", !.bound = TRUE].state = "verifying"
            /\ [Noted(mem[active], outcome, FALSE) EXCEPT !.state = "verifying",
                  !.verification = "pending"].state = "verifying"
        BY <2>2 DEF RunRecord
      <4> QED  BY <3>2, <4>1 DEF RecordCommitted, TypeOK
    <3> QED  BY <1>11, <3>1, <3>2
  <2>4. HoldsUnknown(mem') => HoldsUnknown(mem)
    BY <2>3, UnknownUpdate DEF TypeOK
  <2> QED  BY <2>1, <2>4, WorkbenchAssumption DEF DispatchOK
<1>12. CASE ReadCommitted
  BY <1>12 DEF ReadCommitted, DispatchOK, HoldsUnknown, Registered
<1>13. CASE WriteEnvelope \/ Finish
  <2>1. /\ mem[active] \in RunRecord /\ pc' \notin {"check", "worker"}
        /\ phase' = phase /\ (blocked' = blocked \/ blocked = None)
    BY <1>13 DEF WriteEnvelope, Finish, AtSupervisor, ThreadOK, Blocking
  <2>2. HoldsUnknown(mem') => HoldsUnknown(mem)
    <3>1. CASE mem' = mem
      BY <3>1
    <3>2. CASE /\ mem[active].state # "closure_unknown"
               /\ mem' = [mem EXCEPT ![active] = [mem[active] EXCEPT !.reserved = FALSE]]
      <4>1. [mem[active] EXCEPT !.reserved = FALSE].state # "closure_unknown"
        BY <2>1, <3>2 DEF RunRecord
      <4> QED  BY <3>2, <4>1, UnknownUpdate DEF TypeOK
    <3>3. CASE /\ verified /\ mem[active].state = "verifying"
               /\ mem' = [mem EXCEPT ![active] =
                            [mem[active] EXCEPT !.state = "ready", !.verification = "passed"]]
      <4>1. [mem[active] EXCEPT !.state = "ready", !.verification = "passed"].state = "ready"
        BY <2>1 DEF RunRecord
      <4> QED  BY <3>3, <4>1, UnknownUpdate DEF TypeOK
    <3>4. \/ mem' = mem
          \/ /\ mem[active].state # "closure_unknown"
             /\ mem' = [mem EXCEPT ![active] = [mem[active] EXCEPT !.reserved = FALSE]]
          \/ /\ verified /\ mem[active].state = "verifying"
             /\ mem' = [mem EXCEPT ![active] =
                          [mem[active] EXCEPT !.state = "ready", !.verification = "passed"]]
      BY <1>13 DEF WriteEnvelope, Finish, Concluded, TypeOK
    <3> QED  BY <3>1, <3>2, <3>3, <3>4
  <2> QED  BY <2>1, <2>2, WorkbenchAssumption DEF DispatchOK
<1>20. CASE UNCHANGED vars
  BY <1>20 DEF vars, durable, volatile, DispatchOK, HoldsUnknown, Registered
<1> QED
  BY <1>1, <1>2, <1>3, <1>4, <1>5, <1>6, <1>7, <1>8, <1>9, <1>10,
     <1>11, <1>12, <1>13, <1>20
  DEF Next, Progress

LEMMA DispatchInvariant == Spec => [](IInv /\ DispatchOK)
<1>1. Init => DispatchOK
  BY DEF Init, DispatchOK, HoldsUnknown, Registered, NoRuns
<1>2. IInv /\ DispatchOK /\ [Next]_vars => DispatchOK'
  BY DispatchStep
<1> QED  BY <1>1, <1>2, LiveInvariant, PTL DEF Spec

(* Once the registry on disk holds an unknown closure no worker is started *)
(* again, whatever fails and whoever restarts.                             *)
THEOREM UnknownBlocksDispatch == Spec => NoDispatchAfterUnknown
<1>1. ASSUME IInv, DispatchOK, [Next]_vars, HoldsUnknown(disk),
             NEW r \in Runs, worker[r] = "none"
      PROVE  worker'[r] = "none"
  <2>1. pc # "check"
    BY <1>1 DEF DispatchOK
  <2>2. CASE worker' = worker
    BY <1>1, <2>2
  <2>3. CASE SupervisorAbort \/ SupervisorEscape
    <3>1. worker' = worker \/ (pc = "worker" /\ worker' = [worker EXCEPT ![active] = "exited"])
      BY <2>3 DEF SupervisorAbort, StopWorker, AtSupervisor, SupervisorEscape
    <3> QED  BY <1>1, <3>1 DEF DispatchOK, IInv, TypeInv, TypeOK
  <2>4. ASSUME NEW q \in Runs, WorkerExit(q)
        PROVE  worker'[r] = "none"
    BY <1>1, <2>4 DEF WorkerExit, IInv, TypeInv, TypeOK
  <2> QED
    BY <1>1, <2>1, <2>2, <2>3, <2>4
    DEF Next, Progress, Supervisor, Submit, CreateRoot, CreateRegistry, Open, OpenRefused,
        StartReplay, StartStored, StartUnsaved, StartThreadless, Cancel, Report,
        WorkerWrite, BeginShutdown, Close, Crash, SupervisorRefuse, SupervisorSpawn,
        SupervisorCollect, SupervisorDiscard, CommitReplace, CommitDone, CommitUndone,
        RecordUnknown, RecordFailure, RecordCommitted, ReadCommitted, WriteEnvelope,
        ThreadEscape, Finish, AtSupervisor, vars, durable, volatile
<1>2. IInv /\ DispatchOK /\ [Next]_vars =>
        [(\E q \in Registered(disk) : disk[q].state = "closure_unknown") =>
           \A r \in Runs : worker[r] = "none" => worker'[r] = "none"]_vars
  BY <1>1 DEF HoldsUnknown
<1> QED  BY <1>2, DispatchInvariant, PTL DEF Spec, NoDispatchAfterUnknown

--------------------------------------------------------------------------------
(* The registry *)

Verdicts == FinalStatus \cup {"closure_unknown"}
Begun == {"running", "cancelling"}
Published == {"verifying", "ready", "verification_failed"}

(* What every entry says of itself, in memory and on disk: how far the     *)
(* analysis got fixes what is known of its worker and of its receipt.      *)
EntryOK(rec) ==
  /\ rec.state \in Begun =>
       /\ rec.started = "unset" /\ rec.closed = "unset"
       /\ rec.publication = "uncommitted" /\ ~rec.bound /\ ~rec.failure
  /\ rec.state \in FinalStatus =>
       /\ rec.publication = "uncommitted"
       /\ rec.started = "yes" => rec.closed = "yes"
  /\ rec.state = "closure_unknown" =>
       rec.closed # "yes" /\ rec.publication # "committed"
  /\ rec.state \in Published =>
       /\ rec.started = "yes" /\ rec.closed = "yes"
       /\ rec.publication = "committed" /\ ~rec.failure
  /\ rec.state \in {"ready", "verification_failed"} => ~rec.reserved
  /\ rec.state = "ready" => rec.bound
  /\ rec.failure => rec.analysis \in FinalStatus

RegistryOK(registry, committed) ==
  /\ \A r \in Registered(registry) :
       EntryOK(registry[r]) /\ (registry[r].state = "ready" => r \in committed)
  /\ \A r, q \in Registered(registry) :
       registry[r].intent = registry[q].intent => r = q

Known(registry, r, i) == registry[r] # None /\ registry[r].intent = i

(* What the registry on disk keeps of the replies and of the memory. *)
KeptOnDisk ==
  /\ \A i \in Intents : acked[i] # None => Known(disk, acked[i], i)
  /\ root # "registry" => disk = NoRuns
  /\ phase = "open" =>
       /\ \A r \in Registered(mem) : Known(disk, r, mem[r].intent)
       /\ \A i \in Intents : acked[i] # None => Known(mem, acked[i], i)
       /\ \A r \in Registered(disk) : disk[r].state \in Verdicts =>
            mem[r] # None /\ mem[r].state = disk[r].state

(* Where the supervisor thread is, against the entry of its run. *)
ThreadEntry ==
  /\ \A r \in Registered(mem) : active # r => mem[r].state \notin Begun \cup {"verifying"}
  /\ pc \in SupervisorPC \cup {"record"} =>
       mem[active].state \in Begun /\ disk[active] # None /\ disk[active].state \in Begun
  /\ pc = "record" /\ outcome.publication = "committed" =>
       outcome.started = "yes" /\ outcome.closed = "yes"
  /\ pc = "read" => mem[active].state = "verifying" /\ mem[active].bound
  /\ pc = "escape" => mem[active].state \in Begun \cup {"verifying"}
  /\ pc \in {"envelope", "finish"} =>
       /\ mem[active].state \notin Begun
       /\ mem[active].state = "verifying" => verified
  /\ pc = "finish" /\ mem[active].state = "verifying" => ~mem[active].reserved
  /\ verified => pc \in {"envelope", "finish"} /\ active \in receipts /\ mem[active].bound

RegInv == RegistryOK(mem, receipts) /\ RegistryOK(disk, receipts) /\ KeptOnDisk /\ ThreadEntry

--------------------------------------------------------------------------------
LEMMA NewRunOK ==
  ASSUME NEW i \in Intents, NEW p \in Payloads
  PROVE  EntryOK(NewRun(i, p)) /\ NewRun(i, p).intent = i
  BY DEF NewRun, EntryOK, Begun, FinalStatus, Published

(* Startup keeps entries well formed, keeps every verdict and intent, and  *)
(* leaves no run under way.                                                *)
LEMMA RecoveredOK ==
  ASSUME NEW rec \in RunRecord, EntryOK(rec), NEW readable \in BOOLEAN
  PROVE  LET new == Recovered(rec, readable) IN
         /\ EntryOK(new) /\ new.intent = rec.intent
         /\ new.state \notin Begun \cup {"verifying"}
         /\ rec.state \in Verdicts => new.state = rec.state
         /\ new.state = "ready" => rec.state = "ready" \/ readable
<1> DEFINE new == Recovered(rec, readable)
<1> SUFFICES /\ EntryOK(new) /\ new.intent = rec.intent
             /\ new.state \notin Begun \cup {"verifying"}
             /\ rec.state \in Verdicts => new.state = rec.state
             /\ new.state = "ready" => rec.state = "ready" \/ readable
  OBVIOUS
<1>1. CASE Unread(rec) /\ readable
  <2>1. new = [rec EXCEPT !.state = "ready", !.analysis = "completed", !.bound = TRUE,
                  !.publication = "committed", !.verification = "passed",
                  !.started = "yes", !.closed = "yes", !.reserved = FALSE]
    BY <1>1 DEF Recovered
  <2>2. ~rec.failure /\ rec.state \notin Verdicts
    BY <1>1 DEF Unread, EntryOK, Begun, Published, Verdicts, FinalStatus
  <2> HIDE DEF new
  <2> QED  BY <1>1, <2>1, <2>2
           DEF RunRecord, EntryOK, Begun, Published, Verdicts, FinalStatus
<1>2. CASE Unread(rec) /\ ~readable /\ rec.closed = "yes"
  <2>1. new = [rec EXCEPT !.state = "verification_failed",
                  !.verification = "unavailable", !.reserved = FALSE]
    BY <1>2 DEF Recovered
  <2>2. rec.state \in Published
    BY <1>2 DEF Unread, EntryOK, Begun, Published
  <2> HIDE DEF new
  <2> QED  BY <1>2, <2>1, <2>2
           DEF RunRecord, EntryOK, Begun, Published, Verdicts, FinalStatus
<1>3. CASE Unread(rec) /\ ~readable /\ rec.closed # "yes"
  <2>1. new = [rec EXCEPT !.state = "closure_unknown", !.publication = "unknown"]
    BY <1>3 DEF Recovered
  <2>2. rec.state \in Begun
    BY <1>3 DEF Unread, EntryOK, Begun, Published
  <2> HIDE DEF new
  <2> QED  BY <1>3, <2>1, <2>2
           DEF RunRecord, EntryOK, Begun, Published, Verdicts, FinalStatus
<1>4. CASE ~Unread(rec) /\ rec.started = "yes" /\ rec.closed # "yes"
  <2>1. new = [rec EXCEPT !.state = "closure_unknown"]
    BY <1>4 DEF Recovered
  <2>2. rec.state = "closure_unknown"
    BY <1>4 DEF Unread, EntryOK, Begun, Published, FinalStatus, RunRecord, RunState
  <2> HIDE DEF new
  <2> QED  BY <1>4, <2>1, <2>2
           DEF RunRecord, EntryOK, Begun, Published, Verdicts, FinalStatus
<1>5. CASE ~Unread(rec) /\ ~(rec.started = "yes" /\ rec.closed # "yes")
  <2>1. new = rec
    BY <1>5 DEF Recovered
  <2>2. rec.state \notin Begun \cup {"verifying"}
    BY <1>5 DEF Unread, Begun
  <2> QED  BY <2>1, <2>2
<1> HIDE DEF new
<1> QED  BY <1>1, <1>2, <1>3, <1>4, <1>5

(* Replacing one registered entry by a well-formed one, saved or not. *)
LEMMA EntryUpdate ==
  ASSUME TypeInv, RegInv, phase = "open",
         NEW r \in Runs, mem[r] # None, NEW rec \in RunRecord, EntryOK(rec),
         rec.intent = mem[r].intent, rec.state = "ready" => r \in receipts,
         mem[r].state \in Verdicts => rec.state = mem[r].state,
         mem' = [mem EXCEPT ![r] = rec], disk' = disk \/ disk' = mem',
         UNCHANGED <<root, receipts, phase, acked>>
  PROVE  RegistryOK(mem', receipts') /\ RegistryOK(disk', receipts') /\ KeptOnDisk'
<1> USE DEF TypeInv, TypeOK, RegInv
<1>1. /\ mem'[r] = rec /\ rec # None
      /\ \A q \in Runs : q # r => mem'[q] = mem[q]
      /\ \A q \in Runs : mem'[q] # None <=> mem[q] # None
      /\ \A q \in Registered(mem) : mem'[q].intent = mem[q].intent
      /\ \A q \in Registered(mem) : mem[q].state \in Verdicts => mem'[q].state = mem[q].state
  BY NoneIsNoRecord DEF Registered
<1>2. Registered(mem') = Registered(mem)
  BY <1>1 DEF Registered
<1>3. RegistryOK(mem', receipts')
  <2>1. \A q \in Registered(mem') :
          EntryOK(mem'[q]) /\ (mem'[q].state = "ready" => q \in receipts')
    BY <1>1, <1>2 DEF RegistryOK, Registered
  <2>2. \A q, s \in Registered(mem') : mem'[q].intent = mem'[s].intent => q = s
    BY <1>1, <1>2 DEF RegistryOK
  <2> QED  BY <2>1, <2>2 DEF RegistryOK
<1>4. RegistryOK(disk', receipts')
  BY <1>3 DEF RegistryOK
<1>6. root # "registry" => Registered(mem) = {} /\ disk = NoRuns
  <2> SUFFICES ASSUME root # "registry"
               PROVE  Registered(mem) = {} /\ disk = NoRuns
    OBVIOUS
  <2>1. disk = NoRuns
    BY DEF KeptOnDisk
  <2>2. \A q \in Runs : disk[q] = None
    BY <2>1 DEF NoRuns
  <2> QED  BY <2>1, <2>2 DEF KeptOnDisk, Known, Registered
<1>7. root' = "registry"
  BY <1>6 DEF Registered
<1>8. \A i \in Intents : acked'[i] # None => Known(mem', acked'[i], i)
  <2> SUFFICES ASSUME NEW i \in Intents, acked[i] # None
               PROVE  Known(mem', acked[i], i)
    OBVIOUS
  <2>1. acked[i] \in Registered(mem) /\ mem[acked[i]].intent = i
    BY DEF KeptOnDisk, Known, Registered
  <2> QED  BY <1>1, <2>1 DEF Known, Registered
<1>9. ASSUME disk' = mem'
      PROVE  KeptOnDisk'
  <2>1. \A q \in Registered(mem') : Known(disk', q, mem'[q].intent)
    BY <1>9 DEF Known, Registered
  <2>2. \A q \in Registered(disk') : disk'[q].state \in Verdicts =>
            mem'[q] # None /\ mem'[q].state = disk'[q].state
    BY <1>9 DEF Registered
  <2>3. \A i \in Intents : acked'[i] # None => Known(disk', acked'[i], i)
    BY <1>8, <1>9
  <2> HIDE DEF TypeInv, TypeOK, RegInv
  <2> QED  BY <1>7, <1>8, <2>1, <2>2, <2>3 DEF KeptOnDisk
<1>10. ASSUME disk' = disk
       PROVE  KeptOnDisk'
  <2>1. \A q \in Registered(mem') : Known(disk', q, mem'[q].intent)
    BY <1>1, <1>2, <1>10 DEF KeptOnDisk
  <2>2. \A q \in Registered(disk') : disk'[q].state \in Verdicts =>
            mem'[q] # None /\ mem'[q].state = disk'[q].state
    <3> SUFFICES ASSUME NEW q \in Registered(disk), disk[q].state \in Verdicts
                 PROVE  mem'[q] # None /\ mem'[q].state = disk[q].state
      BY <1>10
    <3>1. q \in Registered(mem) /\ mem[q].state = disk[q].state
      BY DEF KeptOnDisk, Registered
    <3> QED  BY <1>1, <3>1 DEF Registered
  <2>3. \A i \in Intents : acked'[i] # None => Known(disk', acked'[i], i)
    BY <1>10 DEF KeptOnDisk
  <2> HIDE DEF TypeInv, TypeOK, RegInv
  <2> QED  BY <1>7, <1>8, <2>1, <2>2, <2>3 DEF KeptOnDisk
<1> QED  BY <1>3, <1>4, <1>9, <1>10

(* Steps that touch no entry, and take no receipt from a ready run. *)
LEMMA RegistryKept ==
  ASSUME RegInv, UNCHANGED <<disk, mem, acked>>, phase' = "open" => phase = "open",
         root' # "registry" => root # "registry",
         \A q \in receipts \ receipts' :
           /\ mem[q] = None \/ mem[q].state # "ready"
           /\ disk[q] = None \/ disk[q].state # "ready"
  PROVE  RegistryOK(mem', receipts') /\ RegistryOK(disk', receipts') /\ KeptOnDisk'
<1>1. RegistryOK(mem', receipts') /\ RegistryOK(disk', receipts')
  BY DEF RegInv, RegistryOK, Registered
<1>2. KeptOnDisk'
  BY DEF RegInv, KeptOnDisk, Known, Registered
<1> QED  BY <1>1, <1>2

LEMMA ThreadKept ==
  ASSUME ThreadEntry, UNCHANGED <<receipts, disk, mem, active, pc, outcome, verified>>
  PROVE  ThreadEntry'
  BY DEF ThreadEntry, Registered

LEMMA RegInit == Init => RegInv
<1> SUFFICES ASSUME Init PROVE RegInv
  OBVIOUS
<1>1. Registered(NoRuns) = {}
  BY DEF Registered, NoRuns
<1>2. RegistryOK(mem, receipts) /\ RegistryOK(disk, receipts)
  BY <1>1 DEF Init, RegistryOK
<1>3. KeptOnDisk
  BY DEF Init, KeptOnDisk
<1>4. ThreadEntry
  BY <1>1 DEF Init, ThreadEntry, SupervisorPC
<1> QED  BY <1>2, <1>3, <1>4 DEF RegInv

(* While no registry was ever written, nothing was replied. *)
LEMMA NothingYet ==
  ASSUME TypeInv, KeptOnDisk, root # "registry"
  PROVE  disk = NoRuns /\ \A i \in Intents : acked[i] = None
  BY DEF KeptOnDisk, Known, NoRuns, TypeInv, TypeOK

LEMMA RegStep ==
  ASSUME IInv, RegInv, TypeInv', [Next]_vars
  PROVE  RegInv'
<1> USE DEF IInv, TypeInv
<1>a. Registered(NoRuns) = {}
  BY DEF Registered, NoRuns
<1>b. RegistryOK(NoRuns, receipts')
  BY <1>a DEF RegistryOK
<1>1. CASE CreateRoot \/ OpenRefused
  <2>1. RegistryOK(mem', receipts') /\ RegistryOK(disk', receipts') /\ KeptOnDisk'
    BY <1>1, RegistryKept DEF CreateRoot, OpenRefused, durable
  <2>2. ThreadEntry'
    BY <1>1, ThreadKept DEF CreateRoot, OpenRefused, durable, RegInv
  <2> QED  BY <2>1, <2>2 DEF RegInv
<1>2. CASE CreateRegistry
  <2>1. /\ disk' = NoRuns /\ mem' = NoRuns /\ acked' = acked /\ pc' = "idle"
        /\ \A i \in Intents : acked[i] = None
        /\ verified' = verified /\ pc = "idle"
    <3>1. root # "registry" /\ phase = "creating" /\ mem = NoRuns
      BY <1>2 DEF CreateRegistry, LiveOK, RootOK
    <3> QED  BY <1>2, <3>1, NothingYet DEF CreateRegistry, Save, RegInv, ThreadOK
  <2>2. KeptOnDisk'
    BY <1>a, <2>1 DEF KeptOnDisk
  <2>3. ThreadEntry'
    BY <1>a, <2>1 DEF ThreadEntry, SupervisorPC, RegInv
  <2> QED  BY <1>b, <2>1, <2>2, <2>3 DEF RegInv
<1>3. CASE Open
  <2>1. PICK readable \in SUBSET receipts, fate \in {"stored", "late"} :
          /\ Save(Recovery(disk, readable), fate)
          /\ IF fate = "stored"
             THEN /\ phase' = "open"
                  /\ mem' = Recovery(disk, readable)
                  /\ blocked' = StartupBlock(Recovery(disk, readable))
             ELSE UNCHANGED <<phase, mem, blocked>>
    BY <1>3 DEF Open
  <2> DEFINE new == Recovery(disk, readable)
  <2>2. /\ phase = "down" /\ root = "registry" /\ pc = "idle" /\ mem = NoRuns
        /\ UNCHANGED <<root, receipts, pc, active, acked, verified>>
        /\ disk' = new
    BY <1>3, <2>1 DEF Open, ThreadOK, LiveOK, RootOK, Save
  <2>3. \A r \in Runs :
          IF disk[r] = None THEN new[r] = None
          ELSE /\ new[r] # None /\ EntryOK(new[r]) /\ new[r].intent = disk[r].intent
               /\ new[r].state \notin Begun \cup {"verifying"}
               /\ disk[r].state \in Verdicts => new[r].state = disk[r].state
               /\ new[r].state = "ready" => r \in receipts
    <3> SUFFICES ASSUME NEW r \in Runs, disk[r] # None
                 PROVE  /\ new[r] # None /\ EntryOK(new[r]) /\ new[r].intent = disk[r].intent
                        /\ new[r].state \notin Begun \cup {"verifying"}
                        /\ disk[r].state \in Verdicts => new[r].state = disk[r].state
                        /\ new[r].state = "ready" => r \in receipts
      BY DEF Recovery
    <3>1. /\ new[r] = Recovered(disk[r], r \in readable)
          /\ disk[r] \in RunRecord /\ (r \in readable) \in BOOLEAN
      BY DEF Recovery, TypeOK
    <3>2. EntryOK(disk[r]) /\ (disk[r].state = "ready" => r \in receipts)
      BY DEF RegInv, RegistryOK, Registered
    <3>3. Recovered(disk[r], r \in readable) \in RunRecord
      BY <3>1, RecoveredType
    <3>4. LET rec == Recovered(disk[r], r \in readable) IN
          /\ EntryOK(rec) /\ rec.intent = disk[r].intent
          /\ rec.state \notin Begun \cup {"verifying"}
          /\ disk[r].state \in Verdicts => rec.state = disk[r].state
          /\ rec.state = "ready" => disk[r].state = "ready" \/ r \in readable
      BY <3>1, <3>2, RecoveredOK
    <3> HIDE DEF new
    <3> QED  BY <3>1, <3>2, <3>3, <3>4, NoneIsNoRecord
  <2> HIDE DEF new
  <2>4. Registered(new) = Registered(disk)
    BY <2>3 DEF Registered
  <2>5. RegistryOK(new, receipts')
    <3>1. \A r, q \in Registered(new) : new[r].intent = new[q].intent => r = q
      BY <2>3, <2>4 DEF RegInv, RegistryOK, Registered
    <3>2. \A r \in Registered(new) : EntryOK(new[r]) /\ (new[r].state = "ready" => r \in receipts)
      BY <2>3, <2>4 DEF Registered
    <3> QED  BY <2>2, <3>1, <3>2 DEF RegistryOK
  <2>6. \A i \in Intents : acked[i] # None => Known(new, acked[i], i)
    BY <2>3 DEF RegInv, KeptOnDisk, Known, TypeOK
  <2>7. (mem' = mem /\ phase' = "down") \/ (mem' = new /\ phase' = "open")
    <3>a. Recovery(disk, readable) = new
      BY DEF new
    <3>1. CASE fate = "stored"
      BY <2>1, <3>1, <3>a
    <3>2. CASE fate # "stored"
      BY <2>1, <2>2, <3>2
    <3> QED  BY <3>1, <3>2
  <2>8. KeptOnDisk'
    <3>1. \A r \in Registered(new) : Known(new, r, new[r].intent)
      BY DEF Registered, Known
    <3>2. \A r \in Registered(new) : new[r] # None
      BY DEF Registered
    <3> QED  BY <2>2, <2>6, <2>7, <3>1, <3>2 DEF KeptOnDisk
  <2>9. ThreadEntry'
    <3>1. \A r \in Registered(mem') : mem'[r].state \notin Begun \cup {"verifying"}
      BY <1>a, <2>2, <2>3, <2>4, <2>7 DEF Registered
    <3> QED  BY <2>2, <3>1 DEF ThreadEntry, SupervisorPC, RegInv
  <2> QED  BY <1>b, <2>2, <2>5, <2>7, <2>8, <2>9 DEF RegInv
<1>5. CASE Submit
  <2> PICK i \in Intents, p \in Payloads, r \in Runs :
         \/ StartReplay(i, p)
         \/ StartStored(i, p, r) \/ StartUnsaved(i, p, r) \/ StartThreadless(i, p, r)
    BY <1>5 DEF Submit, StartReplay, RunOf, Registered
  <2>1. CASE StartReplay(i, p)
    <3>1. PICK q \in RunOf(i) : acked' = [acked EXCEPT ![i] = q]
      BY <2>1 DEF StartReplay
    <3>2. Known(mem, q, i) /\ Known(disk, q, i) /\ q \in Runs /\ phase = "open"
      BY <2>1, <3>1 DEF StartReplay, RunOf, Registered, Known, RegInv, KeptOnDisk
    <3>3. \A j \in Intents : acked'[j] = acked[j] \/ (j = i /\ acked'[j] = q)
      BY <3>1 DEF TypeOK
    <3>4. UNCHANGED <<root, disk, mem, phase, receipts, active, pc, outcome, verified>>
      BY <2>1 DEF StartReplay, durable, volatile
    <3>5. \A j \in Intents : acked'[j] # None =>
            Known(disk, acked'[j], j) /\ Known(mem, acked'[j], j)
      BY <3>2, <3>3 DEF RegInv, KeptOnDisk
    <3>6. KeptOnDisk'
      BY <3>2, <3>4, <3>5 DEF RegInv, KeptOnDisk
    <3>7. RegistryOK(mem', receipts') /\ RegistryOK(disk', receipts')
      BY <3>4 DEF RegInv, RegistryOK
    <3>8. ThreadEntry'
      BY <3>4 DEF RegInv, ThreadEntry
    <3> QED  BY <3>6, <3>7, <3>8 DEF RegInv
  <2> SUFFICES ASSUME \/ StartStored(i, p, r) \/ StartUnsaved(i, p, r)
                      \/ StartThreadless(i, p, r)
               PROVE  RegInv'
    BY <2>1
  <2>2. /\ phase = "open" /\ RunOf(i) = {} /\ active = None
        /\ mem[r] = None /\ disk[r] = None /\ pc = "idle"
        /\ UNCHANGED <<root, receipts, phase, verified>>
    BY WorkbenchAssumption DEF StartStored, StartUnsaved, StartThreadless, volatile,
       Admissible, CanRegister, ThreadOK
  <2>3. root = "registry"
    BY <2>2 DEF LiveOK, RootOK
  <2>4. ~verified
    BY <2>2 DEF RegInv, ThreadEntry
  <2>5. ASSUME NEW rec \in RunRecord, EntryOK(rec), rec.intent = i, rec.state # "ready"
        PROVE  LET new == [mem EXCEPT ![r] = rec] IN
               /\ RegistryOK(new, receipts') /\ Known(new, r, i)
               /\ \A q \in Registered(mem) : new[q] = mem[q]
               /\ \A q \in Registered(new) : q = r \/ (q \in Registered(mem) /\ new[q] = mem[q])
    <3> DEFINE new == [mem EXCEPT ![r] = rec]
    <3>1. /\ new[r] = rec /\ rec # None
          /\ \A q \in Runs : q # r => new[q] = mem[q]
      BY NoneIsNoRecord DEF TypeOK
    <3> HIDE DEF new
    <3>2. \A q \in Registered(mem) : q # r /\ mem[q].intent # i
      BY <2>2 DEF RunOf, Registered
    <3>3. Registered(new) = Registered(mem) \cup {r}
      BY <3>1 DEF Registered
    <3>4. \A q \in Registered(new) :
            EntryOK(new[q]) /\ (new[q].state = "ready" => q \in receipts)
      BY <2>5, <3>1, <3>3 DEF RegInv, RegistryOK, Registered
    <3>5. \A q, s \in Registered(new) : new[q].intent = new[s].intent => q = s
      BY <2>5, <3>1, <3>2, <3>3 DEF RegInv, RegistryOK, Registered
    <3>6. RegistryOK(new, receipts')
      BY <2>2, <3>4, <3>5 DEF RegistryOK
    <3> QED  BY <2>5, <3>1, <3>2, <3>3, <3>6 DEF new, Known, Registered
  <2>6. /\ NewRun(i, p) \in RunRecord /\ EntryOK(NewRun(i, p))
        /\ NewRun(i, p).intent = i /\ NewRun(i, p).state = "running"
    BY NewRunType, NewRunOK DEF NewRun
  <2> DEFINE begun == [mem EXCEPT ![r] = NewRun(i, p)]
  <2>7. /\ RegistryOK(begun, receipts') /\ Known(begun, r, i) /\ begun[r] = NewRun(i, p)
        /\ \A q \in Registered(mem) : begun[q] = mem[q]
        /\ \A q \in Registered(begun) : q = r \/ (q \in Registered(mem) /\ begun[q] = mem[q])
    BY <2>5, <2>6 DEF TypeOK
  <2>8. begun[r].state \notin Verdicts /\ begun[r].state \in Begun
    BY <2>6, <2>7 DEF Verdicts, FinalStatus, Begun
  <2>9. \A j \in Intents : acked[j] # None =>
          acked[j] \in Registered(mem) /\ mem[acked[j]].intent = j
    BY <2>2 DEF RegInv, KeptOnDisk, Known, Registered, TypeOK
  <2>10. \A q \in Registered(mem) : mem[q].state \notin Begun \cup {"verifying"}
    BY <2>2, WorkbenchAssumption DEF RegInv, ThreadEntry, Registered
  <2> HIDE DEF begun
  <2>11. CASE StartStored(i, p, r)
    <3>1. /\ mem' = begun /\ disk' = begun /\ acked' = [acked EXCEPT ![i] = r]
          /\ active' = r /\ pc' = "check"
      BY <2>11 DEF StartStored, Save, begun
    <3>2. \A j \in Intents : acked'[j] # None => Known(begun, acked'[j], j)
      BY <2>7, <2>9, <3>1 DEF Known, Registered, TypeOK
    <3>3. \A q \in Registered(begun) : Known(begun, q, begun[q].intent)
      BY DEF Known, Registered
    <3>4. \A q \in Registered(begun) : begun[q] # None
      BY DEF Registered
    <3>5. KeptOnDisk'
      BY <2>2, <2>3, <3>1, <3>2, <3>3, <3>4 DEF KeptOnDisk
    <3>6. ThreadEntry'
      BY <2>2, <2>4, <2>7, <2>8, <2>10, <3>1 DEF ThreadEntry, SupervisorPC, Known
    <3> QED  BY <2>7, <3>1, <3>5, <3>6 DEF RegInv
  <2>12. CASE StartUnsaved(i, p, r)
    <3>1. mem' = mem /\ disk' = begun /\ UNCHANGED <<acked, active, pc, outcome>>
      BY <2>12 DEF StartUnsaved, Save, begun, volatile
    <3>2. \A j \in Intents : acked[j] # None => Known(begun, acked[j], j)
      BY <2>7, <2>9 DEF Known, Registered
    <3>3. \A q \in Registered(mem) : Known(begun, q, mem[q].intent)
      BY <2>7 DEF Known, Registered
    <3>4. \A q \in Registered(begun) : begun[q].state \in Verdicts =>
            mem[q] # None /\ mem[q].state = begun[q].state
      BY <2>7, <2>8 DEF Registered
    <3>5. KeptOnDisk'
      BY <2>2, <2>3, <3>1, <3>2, <3>3, <3>4 DEF RegInv, KeptOnDisk
    <3>6. ThreadEntry'
      BY <2>2, <2>4, <2>10, <3>1 DEF ThreadEntry, SupervisorPC
    <3>7. RegistryOK(mem', receipts')
      BY <2>2, <3>1 DEF RegInv, RegistryOK
    <3> QED  BY <2>7, <3>1, <3>5, <3>6, <3>7 DEF RegInv
  <2>13. CASE StartThreadless(i, p, r)
    <3> DEFINE end == [NewRun(i, p) EXCEPT !.state = "failed",
                           !.analysis = "failed", !.started = "no", !.reserved = FALSE]
               ended == [mem EXCEPT ![r] = end]
    <3>1. end \in RunRecord /\ end.intent = i /\ end.state = "failed" /\ EntryOK(end)
      <4>1. end = [NewRun(i, p) EXCEPT !.state = "failed",
                           !.analysis = "failed", !.started = "no", !.reserved = FALSE]
        OBVIOUS
      <4> HIDE DEF end
      <4> QED  BY <4>1 DEF NewRun, RunRecord, RunState, FinalStatus, Flag, EntryOK, Begun, Published
    <3> HIDE DEF end
    <3>2. /\ RegistryOK(ended, receipts') /\ Known(ended, r, i) /\ ended[r] = end
          /\ \A q \in Registered(mem) : ended[q] = mem[q]
          /\ \A q \in Registered(ended) : q = r \/ (q \in Registered(mem) /\ ended[q] = mem[q])
      BY <2>5, <3>1 DEF TypeOK
    <3>3. mem' = ended /\ disk' \in {begun, ended} /\ UNCHANGED <<acked, active, pc, outcome>>
      BY <2>13 DEF StartThreadless, begun, end
    <3> HIDE DEF ended
    <3>4. \A j \in Intents : acked[j] # None =>
            Known(begun, acked[j], j) /\ Known(ended, acked[j], j)
      BY <2>7, <2>9, <3>2 DEF Known, Registered
    <3>5. \A q \in Registered(ended) :
            Known(begun, q, ended[q].intent) /\ Known(ended, q, ended[q].intent)
      BY <2>7, <3>1, <3>2 DEF Known, Registered
    <3>6. \A q \in Registered(disk') : disk'[q].state \in Verdicts =>
            mem'[q] # None /\ mem'[q].state = disk'[q].state
      <4>1. CASE disk' = begun
        BY <2>7, <2>8, <3>2, <3>3, <4>1 DEF Registered
      <4>2. CASE disk' = ended
        BY <3>3, <4>2 DEF Registered
      <4> QED  BY <3>3, <4>1, <4>2
    <3>7. KeptOnDisk'
      BY <2>2, <2>3, <3>3, <3>4, <3>5, <3>6 DEF KeptOnDisk
    <3>8. ThreadEntry'
      BY <2>2, <2>4, <2>10, <3>1, <3>2, <3>3 DEF ThreadEntry, SupervisorPC, Begun
    <3> QED  BY <2>7, <3>2, <3>3, <3>7, <3>8 DEF RegInv
  <2> QED  BY <2>11, <2>12, <2>13
<1>6. ASSUME NEW r \in Runs, Cancel(r)
      PROVE  RegInv'
  <2>1. /\ active = r /\ mem[r] \in RunRecord /\ mem[r] # None /\ phase = "open"
        /\ mem[r].state \in Begun
        /\ UNCHANGED <<root, receipts, phase, acked, active, pc, outcome, verified>>
    BY <1>6, NoneIsNoRecord DEF Cancel, Cancellable, TypeOK, Begun
  <2> DEFINE rec == [mem[r] EXCEPT !.cancelled = TRUE, !.state = "cancelling"]
  <2>2. mem' = [mem EXCEPT ![r] = rec] /\ (disk' = disk \/ disk' = mem')
    BY <1>6 DEF Cancel, Save, TypeOK
  <2>3. /\ rec \in RunRecord /\ EntryOK(rec) /\ rec.intent = mem[r].intent
        /\ rec.state = "cancelling" /\ rec.bound = mem[r].bound
    <3>1. EntryOK(mem[r])
      BY <2>1 DEF RegInv, RegistryOK, Registered
    <3> QED  BY <2>1, <3>1 DEF EntryOK, RunRecord, RunState, Begun, FinalStatus, Published
  <2>4. mem'[r] = rec /\ \A q \in Runs : q # r => mem'[q] = mem[q]
    BY <2>2 DEF TypeOK
  <2> HIDE DEF rec
  <2>5. RegistryOK(mem', receipts') /\ RegistryOK(disk', receipts') /\ KeptOnDisk'
    BY <2>1, <2>2, <2>3, EntryUpdate DEF Begun, Verdicts, FinalStatus
  <2>6. rec # None
    BY <2>3, NoneIsNoRecord
  <2>7. disk'[r] = disk[r] \/ disk'[r] = rec
    BY <2>2, <2>4
  <2>8. ThreadEntry'
    BY <2>1, <2>3, <2>4, <2>6, <2>7 DEF RegInv, ThreadEntry, Begun, Registered
  <2> QED  BY <2>5, <2>8 DEF RegInv
<1>7. ASSUME NEW r \in Runs, Report(r)
      PROVE  RegInv'
  <2>1. /\ active = None /\ mem[r] \in RunRecord /\ mem[r] # None /\ phase = "open"
        /\ mem[r].bound /\ mem[r].closed = "yes" /\ mem[r].publication = "committed"
        /\ UNCHANGED <<root, receipts, phase, acked, active, pc, outcome, verified>>
        /\ pc = "idle"
    BY <1>7, WorkbenchAssumption DEF Report, TypeOK, Settled, ThreadOK
  <2>2. EntryOK(mem[r]) /\ ~verified
    BY <2>1 DEF RegInv, RegistryOK, Registered, ThreadEntry
  <2>3. mem[r].state \in {"ready", "verification_failed"}
    <3>1. mem[r].state \in Published
      BY <2>1, <2>2
      DEF EntryOK, RunRecord, RunState, Begun, FinalStatus, Published
    <3>2. mem[r].state # "verifying"
      BY <2>1, WorkbenchAssumption DEF RegInv, ThreadEntry, Registered
    <3> QED  BY <3>1, <3>2 DEF Published
  <2>4. PICK rec \in RunRecord :
          /\ mem' = [mem EXCEPT ![r] = rec]
          /\ EntryOK(rec) /\ rec.intent = mem[r].intent
          /\ rec.state \in {"ready", "verification_failed"}
          /\ rec.state = "ready" => r \in receipts
    <3> DEFINE good == [mem[r] EXCEPT !.state = "ready", !.verification = "passed"]
               bad == [mem[r] EXCEPT !.state = "verification_failed",
                                     !.verification = "unavailable"]
    <3>1. /\ good \in RunRecord /\ EntryOK(good) /\ good.intent = mem[r].intent
          /\ good.state = "ready"
      BY <2>1, <2>2, <2>3 DEF EntryOK, RunRecord, RunState, Begun, FinalStatus, Published
    <3>2. /\ bad \in RunRecord /\ EntryOK(bad) /\ bad.intent = mem[r].intent
          /\ bad.state = "verification_failed"
      BY <2>1, <2>2, <2>3 DEF EntryOK, RunRecord, RunState, Begun, FinalStatus, Published
    <3>3. \/ r \in receipts /\ mem' = [mem EXCEPT ![r] = good]
          \/ mem' = [mem EXCEPT ![r] = bad]
      BY <1>7 DEF Report, TypeOK
    <3> HIDE DEF good, bad
    <3> QED  BY <3>1, <3>2, <3>3
  <2>5. disk' = disk \/ disk' = mem'
    BY <1>7 DEF Report, Save
  <2>6. RegistryOK(mem', receipts') /\ RegistryOK(disk', receipts') /\ KeptOnDisk'
    BY <2>1, <2>3, <2>4, <2>5, EntryUpdate DEF Verdicts, FinalStatus
  <2>7. \A q \in Registered(mem') : mem'[q].state \notin Begun \cup {"verifying"}
    <3>1. \A q \in Runs : mem'[q] = IF q = r THEN rec ELSE mem[q]
      BY <2>4 DEF TypeOK
    <3> QED
      BY <2>1, <2>4, <3>1, WorkbenchAssumption DEF RegInv, ThreadEntry, Registered, Begun
  <2>8. ThreadEntry'
    BY <2>1, <2>2, <2>7 DEF ThreadEntry, SupervisorPC
  <2> QED  BY <2>6, <2>8 DEF RegInv
<1>8. ASSUME NEW r \in Runs, WorkerWrite(r) \/ WorkerExit(r)
      PROVE  RegInv'
  <2>1. UNCHANGED <<root, disk, receipts, acked, phase, mem, active, pc, outcome, verified>>
    BY <1>8 DEF WorkerWrite, WorkerExit, volatile
  <2> QED  BY <2>1, RegistryKept, ThreadKept DEF RegInv
<1>9. CASE BeginShutdown
  <2>1. UNCHANGED <<root, disk, receipts, acked, phase, mem, active, pc, outcome, verified>>
    BY <1>9 DEF BeginShutdown, durable
  <2> QED  BY <2>1, RegistryKept, ThreadKept DEF RegInv
<1>10. CASE Close \/ Crash
  <2>1. /\ mem' = NoRuns /\ pc' = "idle" /\ verified' = FALSE /\ phase' = "down"
        /\ UNCHANGED <<root, disk, receipts, acked>>
    BY <1>10 DEF Close, Crash, Forget, durable
  <2>2. RegistryOK(disk', receipts') /\ KeptOnDisk'
    BY <2>1 DEF RegInv, RegistryOK, KeptOnDisk
  <2>3. ThreadEntry'
    BY <1>a, <2>1 DEF ThreadEntry, SupervisorPC
  <2> QED  BY <1>b, <2>1, <2>2, <2>3 DEF RegInv
<1>11. CASE Supervisor \/ SupervisorEscape
  <2>1. /\ phase = "open" /\ pc \in SupervisorPC /\ active \in Runs /\ mem[active] # None
        /\ UNCHANGED <<root, disk, phase, mem, active, acked, verified>>
        /\ receipts \ receipts' \subseteq {active}
    BY <1>11, NoneIsNoRecord
    DEF Supervisor, SupervisorRefuse, SupervisorSpawn, SupervisorCollect,
        SupervisorAbort, StopWorker, SupervisorDiscard, CommitReplace, CommitDone,
        CommitUndone, SupervisorEscape, AtSupervisor, ThreadOK, SupervisorPC, durable
  <2>2. mem[active].state \in Begun /\ disk[active].state \in Begun /\ ~verified
    BY <2>1 DEF RegInv, ThreadEntry, SupervisorPC
  <2>3. RegistryOK(mem', receipts') /\ RegistryOK(disk', receipts') /\ KeptOnDisk'
    BY <2>1, <2>2, RegistryKept DEF Begun
  <2>4. /\ pc' \in SupervisorPC \cup {"record", "escape"}
        /\ pc' = "record" /\ outcome'.publication = "committed" =>
             outcome'.started = "yes" /\ outcome'.closed = "yes"
    BY <1>11 DEF Supervisor, SupervisorRefuse, SupervisorSpawn, SupervisorCollect,
        SupervisorAbort, StopWorker, SupervisorDiscard, CommitReplace, CommitDone,
        CommitUndone, SupervisorEscape, Returns, SupervisorPC
  <2>5. ThreadEntry'
    BY <2>1, <2>2, <2>4 DEF RegInv, ThreadEntry, SupervisorPC, Registered
  <2> QED  BY <2>3, <2>5 DEF RegInv
<1>12. CASE RecordUnknown \/ RecordFailure \/ RecordCommitted
  <2>1. /\ pc = "record" /\ phase = "open" /\ active \in Runs /\ mem[active] \in RunRecord
        /\ outcome \in Outcome
        /\ outcome.publication = "uncommitted" => outcome.status # "completed"
        /\ UNCHANGED <<root, receipts, phase, active, acked, outcome, verified>>
    BY <1>12 DEF RecordUnknown, RecordFailure, RecordCommitted, AtSupervisor, ThreadOK, durable
  <2>2. /\ mem[active].state \in Begun /\ ~verified /\ mem[active] # None
        /\ outcome.publication = "committed" =>
             outcome.started = "yes" /\ outcome.closed = "yes"
    BY <2>1, NoneIsNoRecord DEF RegInv, ThreadEntry
  <2>3. EntryOK(mem[active])
    BY <2>1, <2>2 DEF RegInv, RegistryOK, Registered
  <2>4. ASSUME NEW failure \in Failures(outcome)
        PROVE  LET rec == Noted(mem[active], outcome, failure) IN
               /\ rec \in RunRecord
               /\ rec.analysis = outcome.status /\ rec.started = outcome.started
               /\ rec.closed = outcome.closed /\ rec.publication = outcome.publication
               /\ rec.failure = failure /\ rec.intent = mem[active].intent
               /\ rec.bound = mem[active].bound
    <3>1. failure \in BOOLEAN
      BY <2>4 DEF Failures
    <3>2. Noted(mem[active], outcome, failure) \in RunRecord
      BY <2>1, <3>1, NotedType
    <3> QED  BY <2>1, <3>2 DEF Noted, RunRecord
  <2>5. PICK rec \in RunRecord :
          /\ mem' = [mem EXCEPT ![active] = rec]
          /\ EntryOK(rec) /\ rec.intent = mem[active].intent
          /\ rec.state \notin Begun \cup {"ready"}
          /\ pc' = "envelope" => rec.state # "verifying"
          /\ pc' = "escape" => rec.state = "verifying"
          /\ pc' = "read" => rec.state = "verifying" /\ rec.bound
          /\ pc' \in {"envelope", "escape", "read"}
          /\ disk' = disk \/ disk' = mem'
    <3>1. CASE RecordUnknown
      <4>1. PICK failure \in Failures(outcome) :
              mem' = [mem EXCEPT ![active] =
                [Noted(mem[active], outcome, failure) EXCEPT !.state = "closure_unknown"]]
        BY <2>1, <3>1 DEF RecordUnknown, TypeOK
      <4> DEFINE rec == [Noted(mem[active], outcome, failure) EXCEPT !.state = "closure_unknown"]
      <4>2. /\ outcome.closed # "yes" /\ outcome.publication = "uncommitted"
            /\ outcome.status \in FinalStatus
        BY <2>1, <2>2, <3>1 DEF RecordUnknown, UnknownClosure, Outcome
      <4>3. /\ rec \in RunRecord /\ EntryOK(rec) /\ rec.intent = mem[active].intent
            /\ rec.state = "closure_unknown"
        BY <2>4, <4>2 DEF EntryOK, RunRecord, RunState, Begun, FinalStatus, Published
      <4>4. pc' = "envelope" /\ disk' = disk /\ mem' = [mem EXCEPT ![active] = rec]
        BY <3>1, <4>1 DEF RecordUnknown, durable
      <4> HIDE DEF rec
      <4> QED  BY <4>3, <4>4 DEF Begun
    <3>2. CASE RecordFailure
      <4>1. PICK failure \in Failures(outcome) :
              mem' = [mem EXCEPT ![active] =
                [Noted(mem[active], outcome, failure) EXCEPT !.state = outcome.status]]
        BY <2>1, <3>2 DEF RecordFailure, TypeOK
      <4> DEFINE rec == [Noted(mem[active], outcome, failure) EXCEPT !.state = outcome.status]
      <4>2. /\ outcome.started = "yes" => outcome.closed = "yes"
            /\ outcome.publication = "uncommitted"
            /\ outcome.status \in FinalStatus
        BY <2>1, <3>2 DEF RecordFailure, UnknownClosure, Outcome
      <4>3. /\ rec \in RunRecord /\ EntryOK(rec) /\ rec.intent = mem[active].intent
            /\ rec.state \in FinalStatus
        BY <2>4, <4>2 DEF EntryOK, RunRecord, RunState, Begun, FinalStatus, Published
      <4>4. pc' = "envelope" /\ disk' = disk /\ mem' = [mem EXCEPT ![active] = rec]
        BY <3>2, <4>1 DEF RecordFailure, durable
      <4> HIDE DEF rec
      <4> QED  BY <4>3, <4>4 DEF Begun, FinalStatus
    <3>3. CASE RecordCommitted
      <4> DEFINE noted == Noted(mem[active], outcome, FALSE)
                 bind == [noted EXCEPT !.state = "verifying",
                            !.verification = "pending", !.bound = TRUE]
                 loose == [noted EXCEPT !.state = "verifying", !.verification = "pending"]
      <4>1. outcome.started = "yes" /\ outcome.closed = "yes" /\ outcome.publication = "committed"
        BY <2>2, <3>3 DEF RecordCommitted
      <4>2. FALSE \in Failures(outcome)
        BY DEF Failures
      <4>n. /\ noted \in RunRecord /\ ~noted.failure /\ noted.intent = mem[active].intent
            /\ noted.started = "yes" /\ noted.closed = "yes" /\ noted.publication = "committed"
        BY <2>4, <4>1, <4>2
      <4>5. \/ /\ mem' = [mem EXCEPT ![active] = bind] /\ pc' = "read"
               /\ disk' = disk \/ disk' = mem'
            \/ mem' = [mem EXCEPT ![active] = loose] /\ pc' = "escape" /\ disk' = disk
        BY <2>1, <3>3 DEF RecordCommitted, Save, TypeOK
      <4> HIDE DEF noted
      <4>3. /\ bind \in RunRecord /\ EntryOK(bind) /\ bind.intent = mem[active].intent
            /\ bind.state = "verifying" /\ bind.bound
        BY <4>n DEF EntryOK, RunRecord, RunState, Begun, FinalStatus, Published
      <4>4. /\ loose \in RunRecord /\ EntryOK(loose) /\ loose.intent = mem[active].intent
            /\ loose.state = "verifying"
        BY <4>n DEF EntryOK, RunRecord, RunState, Begun, FinalStatus, Published
      <4> HIDE DEF bind, loose
      <4> QED  BY <4>3, <4>4, <4>5 DEF Begun
    <3> QED  BY <1>12, <3>1, <3>2, <3>3
  <2>6. RegistryOK(mem', receipts') /\ RegistryOK(disk', receipts') /\ KeptOnDisk'
    BY <2>1, <2>2, <2>5, EntryUpdate DEF Verdicts, FinalStatus, Begun
  <2>7. \A q \in Runs : mem'[q] = IF q = active THEN rec ELSE mem[q]
    BY <2>1, <2>5 DEF TypeOK
  <2>8. ThreadEntry'
    BY <2>1, <2>2, <2>5, <2>7 DEF RegInv, ThreadEntry, SupervisorPC, Registered
  <2> QED  BY <2>6, <2>8 DEF RegInv
<1>13. CASE ReadCommitted
  <2>1. /\ pc = "read" /\ mem[active].state = "verifying" /\ mem[active].bound
        /\ UNCHANGED <<root, disk, receipts, acked, phase, mem, active, outcome>>
        /\ \/ pc' = "envelope" /\ active \in receipts
           \/ pc' = "escape" /\ verified' = verified
    BY <1>13 DEF ReadCommitted, AtSupervisor, durable, RegInv, ThreadEntry
  <2>2. pc' = "envelope" => verified'
    BY <1>13 DEF ReadCommitted
  <2>3. ~verified
    BY <2>1 DEF RegInv, ThreadEntry
  <2>4. RegistryOK(mem', receipts') /\ RegistryOK(disk', receipts') /\ KeptOnDisk'
    BY <2>1, RegistryKept
  <2>5. ThreadEntry'
    BY <2>1, <2>2, <2>3 DEF RegInv, ThreadEntry, SupervisorPC, Registered, Begun
  <2> QED  BY <2>4, <2>5 DEF RegInv
<1>14. CASE WriteEnvelope \/ ThreadEscape \/ Finish
  <2>1. /\ pc \in {"envelope", "escape", "finish"} /\ phase = "open"
        /\ active \in Runs /\ mem[active] \in RunRecord /\ mem[active] # None
        /\ UNCHANGED <<root, receipts, phase, acked>>
    BY <1>14, NoneIsNoRecord
    DEF WriteEnvelope, ThreadEscape, Finish, AtSupervisor, ThreadOK, durable
  <2>2. EntryOK(mem[active])
    BY <2>1 DEF RegInv, RegistryOK, Registered
  <2> DEFINE Changes(rec) ==
        /\ rec \in RunRecord /\ mem' = [mem EXCEPT ![active] = rec]
        /\ EntryOK(rec) /\ rec.intent = mem[active].intent
        /\ rec.state = "ready" => active \in receipts
        /\ mem[active].state \in Verdicts => rec.state = mem[active].state
        /\ disk' = disk \/ disk' = mem'
  <2>3. ASSUME NEW rec, Changes(rec)
        PROVE  /\ RegistryOK(mem', receipts') /\ RegistryOK(disk', receipts') /\ KeptOnDisk'
               /\ \A q \in Runs : mem'[q] = IF q = active THEN rec ELSE mem[q]
    <3>1. RegistryOK(mem', receipts') /\ RegistryOK(disk', receipts') /\ KeptOnDisk'
      BY <2>1, <2>3, EntryUpdate
    <3>2. \A q \in Runs : mem'[q] = IF q = active THEN rec ELSE mem[q]
      BY <2>1, <2>3 DEF TypeOK
    <3> QED  BY <3>1, <3>2
  <2>4. CASE WriteEnvelope
    <3> DEFINE rec == IF mem[active].state = "closure_unknown" THEN mem[active]
                      ELSE [mem[active] EXCEPT !.reserved = FALSE]
    <3>1. rec.state = mem[active].state /\ rec.bound = mem[active].bound
      BY <2>1 DEF RunRecord
    <3>2. rec.state = "verifying" => ~rec.reserved
      BY <2>1 DEF RunRecord
    <3>3. mem' = [mem EXCEPT ![active] = rec]
      BY <2>1, <2>4 DEF WriteEnvelope, TypeOK
    <3>4. rec \in RunRecord /\ EntryOK(rec) /\ rec.intent = mem[active].intent
      <4>1. CASE rec = mem[active]
        BY <2>1, <2>2, <4>1
      <4>2. CASE rec = [mem[active] EXCEPT !.reserved = FALSE]
        <5> HIDE DEF rec
        <5> QED  BY <2>1, <2>2, <4>2 DEF EntryOK, RunRecord
      <4> QED  BY <4>1, <4>2
    <3>5. mem[active].state = "ready" => active \in receipts
      BY <2>1 DEF RegInv, RegistryOK, Registered
    <3>6. disk' = disk /\ UNCHANGED <<active, outcome, verified>> /\ pc' = "finish" /\ pc = "envelope"
      BY <2>4 DEF WriteEnvelope, AtSupervisor
    <3> HIDE DEF rec
    <3>7. Changes(rec)
      BY <3>1, <3>3, <3>4, <3>5, <3>6
    <3> HIDE DEF Changes
    <3>8. \A q \in Runs : mem'[q] = IF q = active THEN rec ELSE mem[q]
      BY <2>3, <3>7
    <3>9. ThreadEntry'
      BY <2>1, <3>1, <3>2, <3>6, <3>8 DEF RegInv, ThreadEntry, SupervisorPC, Registered
    <3> QED  BY <2>3, <3>7, <3>9 DEF RegInv
  <2>5. CASE ThreadEscape
    <3> DEFINE rec == Escaped(mem[active])
    <3>1. mem' = [mem EXCEPT ![active] = rec] /\ disk' = disk
      BY <2>1, <2>5 DEF ThreadEscape, TypeOK, durable
    <3>2. pc = "escape" /\ pc' = "finish" /\ UNCHANGED <<active, outcome, verified>> /\ ~verified
      BY <2>5 DEF ThreadEscape, AtSupervisor, RegInv, ThreadEntry
    <3>3. mem[active].state \in Begun \cup {"verifying"}
      BY <3>2 DEF RegInv, ThreadEntry
    <3>4. /\ rec \in RunRecord /\ EntryOK(rec) /\ rec.intent = mem[active].intent
          /\ rec.state \in {"closure_unknown", "verification_failed"}
      <4>1. CASE mem[active].state = "verifying"
        <5>1. rec = [mem[active] EXCEPT !.state = "verification_failed",
                         !.verification = "unavailable", !.reserved = FALSE]
          BY <2>2, <4>1 DEF Escaped, EntryOK, Published
        <5> HIDE DEF rec
        <5> QED  BY <2>1, <2>2, <4>1, <5>1
                 DEF EntryOK, RunRecord, RunState, Begun, FinalStatus, Published
      <4>2. CASE mem[active].state \in Begun
        <5>1. rec = [mem[active] EXCEPT !.state = "closure_unknown", !.publication = "unknown"]
          BY <2>2, <4>2 DEF Escaped, EntryOK, Begun
        <5> HIDE DEF rec
        <5> QED  BY <2>1, <2>2, <4>2, <5>1
                 DEF EntryOK, RunRecord, RunState, Begun, FinalStatus, Published
      <4> QED  BY <3>3, <4>1, <4>2
    <3> HIDE DEF rec
    <3>5. Changes(rec)
      BY <3>1, <3>3, <3>4 DEF Verdicts, FinalStatus, Begun
    <3> HIDE DEF Changes
    <3>6. \A q \in Runs : mem'[q] = IF q = active THEN rec ELSE mem[q]
      BY <2>3, <3>5
    <3>7. ThreadEntry'
      BY <2>1, <3>2, <3>4, <3>6 DEF RegInv, ThreadEntry, SupervisorPC, Registered, Begun
    <3> QED  BY <2>3, <3>5, <3>7 DEF RegInv
  <2>6. CASE Finish
    <3> DEFINE rec == Concluded(mem[active])
    <3>1. mem' = [mem EXCEPT ![active] = rec] /\ (disk' = disk \/ disk' = mem')
      BY <2>1, <2>6 DEF Finish, TypeOK, Save
    <3>2. pc = "finish" /\ pc' = "idle" /\ active' = None /\ verified' = FALSE
      BY <2>6 DEF Finish, AtSupervisor
    <3>3. /\ mem[active].state \notin Begun
          /\ mem[active].state = "verifying" =>
               verified /\ ~mem[active].reserved /\ mem[active].bound /\ active \in receipts
      BY <3>2 DEF RegInv, ThreadEntry
    <3>4. /\ rec \in RunRecord /\ EntryOK(rec) /\ rec.intent = mem[active].intent
          /\ rec.state \notin Begun \cup {"verifying"}
          /\ rec.state = "ready" => active \in receipts
          /\ mem[active].state # "verifying" => rec.state = mem[active].state
      <4>1. CASE mem[active].state = "verifying"
        <5>1. rec = [mem[active] EXCEPT !.state = "ready", !.verification = "passed"]
          BY <3>3, <4>1 DEF Concluded
        <5> HIDE DEF rec
        <5> QED  BY <2>1, <2>2, <3>3, <4>1, <5>1
                 DEF EntryOK, RunRecord, RunState, Begun, FinalStatus, Published
      <4>2. CASE mem[active].state # "verifying"
        <5>1. rec = mem[active]
          BY <4>2 DEF Concluded
        <5>2. mem[active].state = "ready" => active \in receipts
          BY <2>1 DEF RegInv, RegistryOK, Registered
        <5> QED  BY <2>1, <2>2, <3>3, <4>2, <5>1, <5>2
      <4> QED  BY <4>1, <4>2
    <3> HIDE DEF rec
    <3>5. Changes(rec)
      BY <3>1, <3>4 DEF Verdicts, FinalStatus
    <3> HIDE DEF Changes
    <3>6. \A q \in Runs : mem'[q] = IF q = active THEN rec ELSE mem[q]
      BY <2>3, <3>5
    <3>7. ThreadEntry'
      BY <2>1, <3>2, <3>4, <3>6 DEF RegInv, ThreadEntry, SupervisorPC, Registered
    <3> QED  BY <2>3, <3>5, <3>7 DEF RegInv
  <2> QED  BY <1>14, <2>4, <2>5, <2>6
<1>15. CASE UNCHANGED vars
  <2>1. UNCHANGED <<root, disk, receipts, acked, phase, mem, active, pc, outcome, verified>>
    BY <1>15 DEF vars, durable, volatile
  <2> QED  BY <2>1, RegistryKept, ThreadKept DEF RegInv
<1> QED
  BY <1>1, <1>2, <1>3, <1>5, <1>6, <1>7, <1>8, <1>9, <1>10, <1>11, <1>12, <1>13, <1>14, <1>15
  DEF Next, Progress

LEMMA VerdictStep ==
  ASSUME IInv, RegInv, [Next]_vars,
         NEW q \in Runs, disk[q] # None, disk[q].state \in Verdicts
  PROVE  disk'[q] # None /\ disk'[q].state = disk[q].state
<1> USE DEF IInv, TypeInv
<1>1. CASE disk' = disk
  BY <1>1
<1>2. CASE CreateRegistry
  <2>1. disk = NoRuns
    BY <1>2 DEF CreateRegistry, LiveOK, RootOK, RegInv, KeptOnDisk
  <2> QED  BY <2>1 DEF NoRuns
<1>3. CASE Open
  <2>1. PICK readable \in SUBSET receipts : disk' = Recovery(disk, readable)
    BY <1>3 DEF Open, Save
  <2>2. /\ disk'[q] = Recovered(disk[q], q \in readable)
        /\ disk[q] \in RunRecord /\ (q \in readable) \in BOOLEAN /\ EntryOK(disk[q])
    BY <2>1 DEF Recovery, TypeOK, RegInv, RegistryOK, Registered
  <2>3. disk'[q] \in RunRecord
    BY <2>2, RecoveredType
  <2>4. disk'[q].state = disk[q].state
    BY <2>2, RecoveredOK
  <2> QED  BY <2>3, <2>4, NoneIsNoRecord
<1>4. ASSUME phase = "open"
      PROVE  mem[q] \in RunRecord /\ mem[q].state = disk[q].state
  BY <1>4 DEF RegInv, KeptOnDisk, Registered, TypeOK
<1>5. ASSUME NEW r \in Runs, NEW rec \in RunRecord, phase = "open",
             mem' = [mem EXCEPT ![r] = rec], disk' = mem',
             mem[r] \in RunRecord /\ mem[r].state \in Verdicts => rec.state = mem[r].state
      PROVE  disk'[q] # None /\ disk'[q].state = disk[q].state
  BY <1>4, <1>5, NoneIsNoRecord DEF TypeOK
<1>6. ASSUME NEW i \in Intents, NEW p \in Payloads, NEW r \in Runs,
             StartStored(i, p, r) \/ StartUnsaved(i, p, r) \/ StartThreadless(i, p, r)
      PROVE  disk'[q] # None /\ disk'[q].state = disk[q].state
  <2>1. phase = "open" /\ disk[r] = None
    BY <1>6 DEF StartStored, StartUnsaved, StartThreadless, Admissible, CanRegister
  <2>2. \A x : disk' = [mem EXCEPT ![r] = x] => disk'[q] = mem[q]
    BY <2>1 DEF TypeOK
  <2>3. \E x : disk' = [mem EXCEPT ![r] = x]
    BY <1>6 DEF StartStored, StartUnsaved, StartThreadless, Save
  <2> QED  BY <1>4, <2>1, <2>2, <2>3, NoneIsNoRecord
<1>7. ASSUME NEW r \in Runs, Cancel(r)
      PROVE  disk'[q] # None /\ disk'[q].state = disk[q].state
  <2> DEFINE rec == [mem[r] EXCEPT !.cancelled = TRUE, !.state = "cancelling"]
  <2>1. /\ phase = "open" /\ mem[r] \in RunRecord /\ mem[r].state \notin Verdicts
        /\ mem' = [mem EXCEPT ![r] = rec] /\ (disk' = disk \/ disk' = mem')
    BY <1>7 DEF Cancel, Cancellable, TypeOK, Save, Verdicts, FinalStatus
  <2>2. rec \in RunRecord
    BY <2>1 DEF RunRecord, RunState
  <2> HIDE DEF rec
  <2> QED  BY <1>1, <1>5, <2>1, <2>2
<1>8. ASSUME NEW r \in Runs, Report(r)
      PROVE  disk'[q] # None /\ disk'[q].state = disk[q].state
  <2> DEFINE good == [mem[r] EXCEPT !.state = "ready", !.verification = "passed"]
             bad == [mem[r] EXCEPT !.state = "verification_failed",
                                   !.verification = "unavailable"]
  <2>1. /\ phase = "open" /\ mem[r] \in RunRecord /\ mem[r].publication = "committed"
        /\ disk' = disk \/ disk' = mem'
    BY <1>8 DEF Report, Settled, TypeOK, Save
  <2>4. mem' = [mem EXCEPT ![r] = good] \/ mem' = [mem EXCEPT ![r] = bad]
    BY <1>8, <2>1 DEF Report, TypeOK
  <2>2. mem[r].state \notin Verdicts
    BY <2>1, NoneIsNoRecord DEF RegInv, RegistryOK, Registered, EntryOK, Verdicts
  <2>3. good \in RunRecord /\ bad \in RunRecord
    BY <2>1 DEF RunRecord, RunState
  <2> HIDE DEF good, bad
  <2> QED  BY <1>1, <1>5, <2>1, <2>2, <2>3, <2>4
<1>9. CASE RecordCommitted
  <2>1. /\ phase = "open" /\ active \in Runs /\ mem[active].state \notin Verdicts
        /\ disk' = disk \/ disk' = mem'
        /\ \E rec : mem' = [mem EXCEPT ![active] = rec]
    BY <1>9 DEF RecordCommitted, AtSupervisor, ThreadOK, RegInv, ThreadEntry, Save,
                Begun, Verdicts, FinalStatus
  <2>2. q # active
    BY <1>4, <2>1
  <2> QED  BY <1>4, <2>1, <2>2, NoneIsNoRecord DEF TypeOK
<1>10. CASE Finish
  <2>1. /\ phase = "open"
        /\ disk' = disk \/ disk' = mem'
        /\ mem' = [mem EXCEPT ![active] = Concluded(mem[active])]
        /\ active \in Runs
    BY <1>10 DEF Finish, AtSupervisor, ThreadOK, TypeOK, Save
  <2>2. mem[active].state \in Verdicts => Concluded(mem[active]) = mem[active]
    BY DEF Concluded, Verdicts, FinalStatus
  <2>3. mem'[q].state = mem[q].state /\ mem'[q] # None
    BY <1>4, <2>1, <2>2, NoneIsNoRecord DEF TypeOK
  <2> QED  BY <1>4, <2>1, <2>3
<1> QED
  BY <1>1, <1>2, <1>3, <1>6, <1>7, <1>8, <1>9, <1>10
  DEF Next, Progress, Supervisor, Submit, CreateRoot, OpenRefused, StartReplay,
      WorkerWrite, WorkerExit, BeginShutdown, Close, Crash, SupervisorRefuse,
      SupervisorSpawn, SupervisorCollect, SupervisorAbort, StopWorker,
      SupervisorDiscard, CommitReplace, CommitDone, CommitUndone, SupervisorEscape,
      RecordUnknown, RecordFailure, ReadCommitted, WriteEnvelope, ThreadEscape,
      vars, durable, volatile

LEMMA RegInvariant == Spec => [](IInv /\ RegInv)
<1>1. IInv /\ RegInv /\ [Next]_vars /\ IInv' => RegInv'
  BY RegStep DEF IInv
<1> QED  BY <1>1, RegInit, LiveInvariant, PTL DEF Spec

(* No run is shown as ready, in memory or in the registry a restart will   *)
(* read, without the COMMITTED receipt it was bound to.                    *)
THEOREM ReadyIsCommitted == Spec => []ReadyMeansCommitted
<1>1. RegInv => ReadyMeansCommitted
  <2> SUFFICES ASSUME RegInv, NEW r \in Runs, NEW rec \in {mem[r], disk[r]} \ {None},
                      rec.state = "ready"
               PROVE  r \in receipts /\ rec.bound /\ rec.publication = "committed"
    BY DEF ReadyMeansCommitted
  <2>1. EntryOK(rec) /\ r \in receipts
    BY DEF RegInv, RegistryOK, Registered
  <2> QED  BY <2>1 DEF EntryOK, Published
<1> QED  BY <1>1, RegInvariant, PTL

(* An idle bench shows a committed run as ready or verification_failed and *)
(* has released its reservation, whatever was cancelled when.              *)
THEOREM CommittedIsFinal == Spec => []CommittedSurvives
<1>1. IInv /\ RegInv => CommittedSurvives
  <2> SUFFICES ASSUME IInv, RegInv, NEW r \in Runs, mem[r] # None, active # r,
                      mem[r].publication = "committed"
               PROVE  mem[r].state \in {"ready", "verification_failed"} /\ ~mem[r].reserved
    BY DEF CommittedSurvives
  <2>1. EntryOK(mem[r]) /\ mem[r].state # "verifying" /\ mem[r].state \in RunState
    BY DEF RegInv, RegistryOK, ThreadEntry, Registered, IInv, TypeInv, TypeOK, RunRecord
  <2> QED  BY <2>1 DEF EntryOK, RunState, Begun, Published
<1> QED  BY <1>1, RegInvariant, PTL

(* A submission that was answered with a run is in the registry on disk,   *)
(* under that run, in every later state.                                   *)
THEOREM AcksAreDurable == Spec => []AckedDurable
<1>1. RegInv => AckedDurable
  BY DEF RegInv, KeptOnDisk, Known, AckedDurable
<1> QED  BY <1>1, RegInvariant, PTL

(* The registry on disk always validates at the next start. *)
THEOREM RegistryAlwaysReopens == Spec => []RegistryReopens
<1>1. IInv /\ RegInv => RegistryReopens
  <2> SUFFICES ASSUME IInv, RegInv, NEW r \in Registered(disk)
               PROVE  ValidRecord(disk[r])
    BY DEF RegistryReopens, ValidRegistry, RegInv, RegistryOK
  <2>1. EntryOK(disk[r]) /\ disk[r].state \in RunState
    BY DEF RegInv, RegistryOK, Registered, IInv, TypeInv, TypeOK, RunRecord
  <2> QED  BY <2>1 DEF EntryOK, ValidRecord, RunState, Begun, Published
<1> QED  BY <1>1, RegInvariant, PTL

(* A verdict written to the registry is never changed nor forgotten. *)
THEOREM VerdictsAreStable == Spec => VerdictStable
<1>1. IInv /\ RegInv /\ [Next]_vars =>
        [\A r \in Runs :
           disk[r] # None /\ disk[r].state \in FinalStatus \cup {"closure_unknown"} =>
             disk'[r] # None /\ disk'[r].state = disk[r].state]_vars
  BY VerdictStep DEF Verdicts
<1> QED  BY <1>1, RegInvariant, PTL DEF Spec, VerdictStable

--------------------------------------------------------------------------------
(* The limit of the data root *)

(* The run that may still write, because its worker is alive or is about   *)
(* to be started, fits below the limit with its whole quota.               *)
Writer(r) == Live(r) \/ (pc = "check" /\ active = r)

StorageInv ==
  /\ StorageBound
  /\ \A r \in Runs : Writer(r) => SumFunction([alloc EXCEPT ![r] = RunQuota]) <= RootLimit

LEMMA AllocType ==
  ASSUME TypeOK
  PROVE  /\ IsFiniteSet(Runs) /\ alloc \in [Runs -> Nat] /\ TotalAllocation \in Nat
         /\ \A r \in Runs : alloc[r] <= RunQuota
<1>1. IsFiniteSet(Runs) /\ alloc \in [Runs -> Nat] /\ \A r \in Runs : alloc[r] <= RunQuota
  BY WorkbenchAssumption DEF TypeOK
<1> QED  BY <1>1, SumType DEF TotalAllocation

LEMMA StorageStep ==
  ASSUME IInv, StorageInv, [Next]_vars
  PROVE  StorageInv'
<1> USE DEF IInv, TypeInv
<1>1. ASSUME alloc' = alloc, \A r \in Runs : Writer(r)' => Writer(r)
      PROVE  StorageInv'
  BY <1>1 DEF StorageInv, StorageBound, TotalAllocation
<1>2. ASSUME NEW r \in Runs, WorkerWrite(r)
      PROVE  StorageInv'
  <2> DEFINE full == [alloc EXCEPT ![r] = RunQuota]
  <2>1. /\ Live(r) /\ alloc[r] < RunQuota /\ RunQuota \in Nat
        /\ alloc' = [alloc EXCEPT ![r] = alloc[r] + 1]
        /\ UNCHANGED <<worker, pc, active>>
    BY <1>2, WorkbenchAssumption DEF WorkerWrite, Live, volatile, TypeOK
  <2>2. alloc \in [Runs -> Nat] /\ IsFiniteSet(Runs)
    BY AllocType
  <2>3. SumFunction(full) <= RootLimit
    BY <2>1 DEF StorageInv, Writer
  <2>4. alloc' \in [Runs -> Nat] /\ full \in [Runs -> Nat] /\ \A q \in Runs : alloc'[q] <= full[q]
    BY <2>1, <2>2
  <2>5. SumFunction(alloc') <= SumFunction(full)
    <3> HIDE DEF full
    <3> QED  BY <2>2, <2>4, SumMonotone
  <2>6. SumFunction(alloc') \in Nat /\ SumFunction(full) \in Nat
    <3> HIDE DEF full
    <3> QED  BY <2>2, <2>4, SumType
  <2>7. StorageBound'
    BY <2>3, <2>5, <2>6, WorkbenchAssumption DEF StorageBound, TotalAllocation
  <2>8. \A q \in Runs : Writer(q)' => q = r
    BY <2>1 DEF Writer, Live, LiveOK, AtMostOneWorker, LiveSupervised
  <2>9. [alloc' EXCEPT ![r] = RunQuota] = full
    BY <2>1, <2>2
  <2> QED  BY <2>3, <2>7, <2>8, <2>9 DEF StorageInv
<1>3. ASSUME NEW i \in Intents, NEW p \in Payloads, NEW r \in Runs, StartStored(i, p, r)
      PROVE  StorageInv'
  <2>1. /\ TotalAllocation + RunQuota <= RootLimit /\ RunQuota \in Nat /\ RootLimit \in Nat
        /\ UNCHANGED <<alloc, worker>> /\ active' = r /\ pc = "idle"
    BY <1>3, WorkbenchAssumption
    DEF StartStored, Admissible, CanRegister, ThreadOK
  <2>2. alloc \in [Runs -> Nat] /\ IsFiniteSet(Runs) /\ TotalAllocation \in Nat
    BY AllocType
  <2>3. SumFunction([alloc EXCEPT ![r] = RunQuota]) + alloc[r] = TotalAllocation + RunQuota
    <3> DEFINE more == [alloc EXCEPT ![r] = RunQuota]
    <3>1. /\ more \in [Runs -> Nat] /\ more[r] = RunQuota
          /\ \A q \in Runs \ {r} : more[q] = alloc[q]
      BY <2>1, <2>2
    <3> HIDE DEF more
    <3>2. SumFunction(more) + alloc[r] = SumFunction(alloc) + more[r]
      BY <2>2, <3>1, SumUpdate
    <3> QED  BY <3>1, <3>2 DEF more, TotalAllocation
  <2>4. SumFunction([alloc EXCEPT ![r] = RunQuota]) \in Nat
    <3>1. [alloc EXCEPT ![r] = RunQuota] \in [Runs -> Nat]
      BY <2>1, <2>2
    <3> QED  BY <2>2, <3>1, SumType
  <2>5. SumFunction([alloc EXCEPT ![r] = RunQuota]) <= RootLimit
    <3>1. alloc[r] \in Nat
      BY <2>2
    <3> QED  BY <2>1, <2>2, <2>3, <2>4, <3>1
  <2>6. \A q \in Runs : Writer(q)' => q = r \/ Writer(q)
    BY <2>1 DEF Writer, Live
  <2> QED  BY <2>1, <2>5, <2>6 DEF StorageInv, StorageBound, TotalAllocation
<1>4. ASSUME ~\E r \in Runs : WorkerWrite(r),
             ~\E i \in Intents, p \in Payloads, r \in Runs : StartStored(i, p, r)
      PROVE  alloc' = alloc /\ \A r \in Runs : Writer(r)' => Writer(r)
  <2>1. /\ alloc' = alloc
        /\ \/ worker' = worker
           \/ SupervisorSpawn
           \/ SupervisorAbort \/ SupervisorEscape
           \/ \E r \in Runs : worker' = [worker EXCEPT ![r] = "exited"]
    BY <1>4
    DEF Next, Progress, Supervisor, Submit, CreateRoot, CreateRegistry, Open, OpenRefused,
        StartReplay, StartUnsaved, StartThreadless, Cancel, Report, WorkerExit,
        BeginShutdown, Close, Crash, SupervisorRefuse, SupervisorSpawn,
        SupervisorCollect, SupervisorAbort, StopWorker, SupervisorDiscard,
        CommitReplace, CommitDone, CommitUndone, SupervisorEscape, RecordUnknown,
        RecordFailure, RecordCommitted, ReadCommitted, WriteEnvelope, ThreadEscape,
        Finish, vars, durable, volatile
  <2>2. pc' = "check" => pc = "check" /\ active' = active
    BY <1>4
    DEF Next, Progress, Supervisor, Submit, CreateRoot, CreateRegistry, Open, OpenRefused,
        StartReplay, StartUnsaved, StartThreadless, Cancel, Report, WorkerExit,
        BeginShutdown, Close, Crash, Forget, SupervisorRefuse, SupervisorSpawn,
        SupervisorCollect, SupervisorAbort, StopWorker, SupervisorDiscard,
        CommitReplace, CommitDone, CommitUndone, SupervisorEscape, RecordUnknown,
        RecordFailure, RecordCommitted, ReadCommitted, WriteEnvelope, ThreadEscape,
        Finish, Returns, vars, durable, volatile
  <2>3. CASE SupervisorSpawn
    BY <2>1, <2>2, <2>3 DEF SupervisorSpawn, AtSupervisor, Writer, Live, TypeOK
  <2>4. CASE ~SupervisorSpawn
    <3>1. \A r \in Runs : Live(r)' => Live(r)
      BY <2>1, <2>4 DEF SupervisorAbort, StopWorker, SupervisorEscape, Live, TypeOK
    <3> QED  BY <2>1, <2>2, <3>1 DEF Writer
  <2> QED  BY <2>3, <2>4
<1> QED  BY <1>1, <1>2, <1>3, <1>4

(* The bytes under the data root stay below ROOT_LIMIT, although start()   *)
(* looks at them once and the worker writes afterwards.                    *)
THEOREM RootStaysBounded == Spec => []StorageBound
<1>1. ASSUME Init PROVE StorageInv
  <2>1. IInv /\ alloc = [r \in Runs |-> 0] /\ pc = "idle" /\ \A r \in Runs : ~Live(r)
    BY <1>1, TypeInit, LiveInit DEF Init, IInv, Live
  <2>2. TotalAllocation = 0
    BY <2>1, SumZero, WorkbenchAssumption DEF TotalAllocation
  <2> QED  BY <2>1, <2>2, WorkbenchAssumption DEF StorageInv, StorageBound, Writer
<1>2. IInv /\ StorageInv /\ [Next]_vars => StorageInv'
  BY StorageStep
<1>3. StorageInv => StorageBound
  BY DEF StorageInv
<1> QED  BY <1>1, <1>2, <1>3, LiveInvariant, PTL DEF Spec

================================================================================
