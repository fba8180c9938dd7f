---------------------------- MODULE EvidenceProofs ----------------------------
(***************************************************************************)
(* Safety of the three actors around one output directory, each for every  *)
(* value of its constants: a call of collect_evidence (EvidenceRun), a     *)
(* storage scan against a writing worker (StorageScan), and the loopback   *)
(* server's slots and rate window (EvidenceHttp).                          *)
(***************************************************************************)
EXTENDS EvidenceRun, StorageScan, EvidenceHttp, SumFacts

-----------------------------------------------------------------------------
\* A call of collect_evidence, for every size of its request, its answer and its
\* pipes: what the parent knows in each of its sections is enough to publish only
\* after a confirmed exit.

RunSpec == RunInit /\ [][RunNext]_runVars

Usages == [parent: Int, worker: Int, initial: Int, merged: BOOLEAN]

\* Until they are merged the two counters overlap in what both started from.
Counted ==
  /\ usage \in Usages /\ moved \in Int
  /\ moved = IF usage.merged THEN usage.parent ELSE usage.parent + usage.worker - usage.initial

\* An exit is confirmed by a wait that returned; a total is merged after it.
Closed ==
  /\ closure = "yes" => ~Alive
  /\ usage.merged => closure = "yes"

\* The sections before the reply is judged.
Before ==
  /\ parent \in {"new", "spawn"} => worker = "none" /\ closure = "unset"
  /\ parent \in {"new", "spawn", "talk", "judge"} => ~usage.merged

\* The sections from there to the receipt.
After ==
  /\ parent \in {"judge", "verify", "commit", "replaced"} => closure = "yes"
  /\ parent \in {"verify", "commit", "replaced"} =>
       worker = "exit0" /\ answer = "envelope" /\ usage.merged
  /\ parent \in {"commit", "replaced"} => documents = "staged"
  /\ parent = "replaced" => receipt

\* A receipt stays with a call that has put it there, whatever it then returns.
Receipts ==
  /\ receipt \in BOOLEAN
  /\ receipt => /\ parent \in {"replaced", "returned"}
                /\ worker = "exit0" /\ closure = "yes" /\ documents = "staged"
                /\ answer = "envelope" /\ usage.merged
  /\ parent \in {"close", "kill", "wait"} => error # "none"
  /\ parent = "returned" /\ error = "none" => receipt

RunInv == Counted /\ Closed /\ Before /\ After /\ Receipts

LEMMA InvInit == RunInit => RunInv
<1> SUFFICES ASSUME RunInit PROVE RunInv
  OBVIOUS
<1>1. Counted
  BY DEF RunInit, Counted, Usages
<1>2. Closed /\ Before /\ After
  BY DEF RunInit, Closed, Before, After, Alive, Busy
<1>3. Receipts
  BY DEF RunInit, Receipts
<1> QED
  BY <1>1, <1>2, <1>3 DEF RunInv

\* Leaving a section by an exception keeps what is known: the call goes to the
\* cleanup unless the exit is confirmed already.
LEMMA RaiseKeeps ==
  ASSUME RunInv, parent \in Sections, NEW code \in {"failed", "cancelled", "rejected"}, Raise(code),
         receipt' \in {receipt, FALSE}, UNCHANGED <<closure, usage, moved, workerVars>>
  PROVE  RunInv'
<1> USE DEF RunInv, workerVars, Raise, Sections
<1>1. Counted' /\ Closed'
  BY DEF Counted, Closed, Usages, Alive, Busy
<1>2. parent' \in {"close", "returned"} /\ error' # "none"
  OBVIOUS
<1>3. Before' /\ After'
  BY <1>2 DEF Before, After
<1>4. receipt' => parent' = "returned"
  BY DEF Receipts
<1>5. receipt' \in BOOLEAN
  BY DEF Receipts
<1>6. receipt' => worker' = "exit0" /\ closure' = "yes" /\ documents' = "staged" /\ answer' = "envelope"
  BY DEF Receipts
<1>7. receipt' => usage'.merged
  BY DEF Receipts
<1>8. Receipts'
  BY <1>2, <1>4, <1>5, <1>6, <1>7 DEF Receipts
<1> QED
  BY <1>1, <1>3, <1>8

\* The steps of the parent inside its sections.
LEMMA SectionsKeep ==
  ASSUME RunInv,
         Prepare \/ Spawn \/ SendInput \/ InputBroken \/ ReadOutput \/ Reap \/ Replace \/ CommitReturns
  PROVE  RunInv'
<1> USE DEF RunInv, Counted, Closed, Before, After, Receipts, Usages, Alive, Busy, workerVars, worldVars
<1>1. CASE Prepare
  <2>1. usage' = [parent |-> 1, worker |-> 1, initial |-> 1, merged |-> usage.merged]
    BY <1>1 DEF Prepare
  <2>2. ~usage.merged
    BY <1>1 DEF Prepare
  <2>3. Counted'
    BY <1>1, <2>1, <2>2 DEF Prepare
  <2>4. Closed' /\ Before' /\ After' /\ Receipts'
    BY <1>1, <2>1, <2>2 DEF Prepare
  <2> QED
    BY <2>3, <2>4
<1>2. CASE Spawn
  BY <1>2 DEF Spawn
<1>3. CASE SendInput \/ InputBroken
  BY <1>3 DEF SendInput, InputBroken
<1>4. CASE ReadOutput
  BY <1>4 DEF ReadOutput
<1>5. CASE Reap
  BY <1>5 DEF Reap
<1>6. CASE Replace
  BY <1>6 DEF Replace
<1>7. CASE CommitReturns
  BY <1>7 DEF CommitReturns
<1> QED
  BY <1>1, <1>2, <1>3, <1>4, <1>5, <1>6, <1>7

\* Judging merges the two counters; it goes on only with status zero.
LEMMA JudgeKeeps == ASSUME RunInv, Judge PROVE RunInv'
<1>1. /\ parent = "judge" /\ ~usage.merged /\ closure = "yes" /\ ~Alive /\ receipt' = FALSE
      /\ UNCHANGED <<closure, moved, worker, answer, documents, receipt>>
  BY DEF RunInv, Before, After, Closed, Receipts, Judge, workerVars
<1>2. Counted' /\ (Publishable => usage'.merged)
  <2>1. CASE Publishable \/ (worker = "exit4" /\ Complete)
    <3>1. usage' = [usage EXCEPT !.parent = usage.worker + (usage.parent - usage.initial), !.merged = TRUE]
      BY <2>1 DEF Judge, MergedUsage
    <3>2. usage \in Usages /\ moved \in Int /\ moved = usage.parent + usage.worker - usage.initial
      BY <1>1 DEF RunInv, Counted
    <3>3. usage' = [usage EXCEPT !.parent = moved, !.merged = TRUE]
      <4>1. usage.worker + (usage.parent - usage.initial) = moved
        BY <3>2 DEF Usages
      <4> QED
        BY <3>1, <4>1
    <3> QED
      BY <1>1, <3>2, <3>3 DEF Counted, Usages
  <2>2. CASE ~(Publishable \/ (worker = "exit4" /\ Complete))
    BY <1>1, <2>2 DEF Judge, RunInv, Counted
  <2> QED
    BY <2>1, <2>2
<1>3. \/ Publishable /\ parent' = "verify"
      \/ parent' \in {"close", "returned"} /\ error' = "failed"
  BY DEF Judge, Raise
<1>4. Closed'
  BY <1>1 DEF Closed, Alive
<1>5. Before' /\ After'
  BY <1>1, <1>2, <1>3 DEF Before, After, Publishable
<1>6. Receipts'
  BY <1>1, <1>3 DEF Receipts
<1> QED
  BY <1>2, <1>4, <1>5, <1>6 DEF RunInv

LEMMA VerifyKeeps == ASSUME RunInv, Verify PROVE RunInv'
<1>1. /\ parent = "verify" /\ worker = "exit0" /\ answer = "envelope" /\ closure = "yes"
      /\ usage.merged /\ receipt' = FALSE /\ ~Alive
      /\ UNCHANGED <<closure, worker, answer, documents, receipt>>
  BY DEF RunInv, After, Closed, Receipts, Verify, workerVars
<1>2. Counted' /\ usage'.merged
  BY <1>1 DEF RunInv, Verify, Counted, Usages
<1>3. \/ documents = "staged" /\ parent' = "commit"
      \/ parent' = "returned" /\ error' = "failed"
  BY <1>1 DEF Verify, Raise
<1>4. Closed'
  BY <1>1 DEF Closed, Alive
<1>5. Before' /\ After'
  BY <1>1, <1>2, <1>3 DEF Before, After
<1>6. Receipts'
  BY <1>1, <1>3 DEF Receipts
<1> QED
  BY <1>2, <1>4, <1>5, <1>6 DEF RunInv

\* Cleanup: signals confirm nothing, a wait that returned does.
LEMMA CleanupKeeps == ASSUME RunInv, Terminate \/ WaitEnds PROVE RunInv'
<1> USE DEF RunInv, Counted, Closed, Before, After, Receipts, Usages, Alive, Busy, workerVars, worldVars
<1>1. CASE Terminate
  BY <1>1 DEF Terminate
<1>2. CASE WaitEnds
  BY <1>2 DEF WaitEnds, Confirmed
<1> QED
  BY <1>1, <1>2

\* A worker that still runs is known to no section after the talk, so whatever
\* it does is only counted.
LEMMA WorkerKeeps == ASSUME RunInv, WorkerStep \/ WorkerFails \/ WorkerLost PROVE RunInv'
<1>1. /\ Alive /\ worker # "none" /\ UNCHANGED <<parent, error, closure, receipt>>
  BY DEF WorkerStep, WorkerFails, WorkerLost, WorkerReads, WorkerPrepares, WorkerStages,
         WorkerWrites, worldUntouched, Alive, Busy
<1>2. closure # "yes" /\ ~usage.merged /\ ~receipt
  BY <1>1 DEF RunInv, Closed, Receipts
<1>3. \/ UNCHANGED <<usage, moved>>
      \/ usage' = [usage EXCEPT !.worker = @ + 1] /\ moved' = moved + 1
  BY DEF WorkerStep, WorkerFails, WorkerLost, WorkerReads, WorkerPrepares, WorkerStages, WorkerWrites
<1>4. Counted' /\ ~usage'.merged
  BY <1>2, <1>3 DEF RunInv, Counted, Usages
<1>5. Closed' /\ Before' /\ After' /\ Receipts'
  BY <1>1, <1>2, <1>4 DEF RunInv, Closed, Before, After, Receipts
<1> QED
  BY <1>4, <1>5 DEF RunInv

LEMMA InvStep == RunInv /\ [RunNext]_runVars => RunInv'
<1> SUFFICES ASSUME RunInv, [RunNext]_runVars PROVE RunInv'
  OBVIOUS
<1>1. CASE CheckFails
  BY <1>1, RaiseKeeps DEF CheckFails, StopCode, Sections
<1>2. CASE GuardFails
  <2>1. PICK code \in {"failed", "rejected"} : Raise(code)
    BY <1>2 DEF GuardFails
  <2> QED
    BY <1>2, <2>1, RaiseKeeps DEF GuardFails, Sections
<1>3. CASE CommitRaises
  <2>1. parent = "replaced" /\ receipt' = FALSE /\ Raise("failed")
    BY <1>3 DEF CommitRaises
  <2>2. UNCHANGED <<closure, usage, moved, workerVars>>
    BY <1>3 DEF CommitRaises
  <2>3. parent \in Sections /\ receipt' \in {receipt, FALSE}
    BY <2>1 DEF Sections
  <2> QED
    BY <2>1, <2>2, <2>3, RaiseKeeps
<1>4. CASE Interrupted
  <2>1. parent \in Sections /\ receipt' \in {receipt, FALSE}
    BY <1>4 DEF Interrupted, RunInv, After, Sections
  <2> QED
    BY <1>4, <2>1, RaiseKeeps DEF Interrupted
<1>5. CASE Prepare \/ Spawn \/ SendInput \/ InputBroken \/ ReadOutput \/ Reap \/ Replace \/ CommitReturns
  BY <1>5, SectionsKeep
<1>6. CASE Judge
  BY <1>6, JudgeKeeps
<1>7. CASE Verify
  BY <1>7, VerifyKeeps
<1>8. CASE Terminate \/ WaitEnds
  BY <1>8, CleanupKeeps
<1>9. CASE WorkerStep \/ WorkerFails \/ WorkerLost
  BY <1>9, WorkerKeeps
<1>10. CASE Deadline \/ Cancel \/ UNCHANGED runVars
  BY <1>10 DEF Deadline, Cancel, runVars, parentVars, workerVars, RunInv, Counted, Closed, Before,
               After, Receipts, Usages, Alive
<1> QED
  BY <1>1, <1>2, <1>3, <1>4, <1>5, <1>6, <1>7, <1>8, <1>9, <1>10 DEF RunNext, ParentStep

LEMMA RunInvariant == RunSpec => []RunInv
  BY InvInit, InvStep, PTL DEF RunSpec

\* COMMITTED is in the output directory only after the worker was seen to exit
\* with status zero and with its documents staged, whatever deadline, cancellation
\* or interrupt came when; and what the budget then says was moved, was.
THEOREM PublicationFollowsExit == RunSpec => []PublishedAfterExit
<1>1. RunInv => PublishedAfterExit
  BY DEF RunInv, Receipts, Counted, PublishedAfterExit
<1> QED
  BY <1>1, RunInvariant, PTL

\* A report that says the exit is confirmed says the truth, whatever was signalled.
THEOREM ClosureIsReal == RunSpec => []ClosedMeansReaped
<1>1. RunInv => ClosedMeansReaped
  BY DEF RunInv, Closed, ClosedMeansReaped
<1> QED
  BY <1>1, RunInvariant, PTL

-----------------------------------------------------------------------------
\* A storage scan, for every set of documents and every number of writes.

ScanSpec == ScanInit /\ [][ScanNext]_scanVars

\* Names in a listing once belonged to a document, which is still there.
Known == ({"temp"} \X (temp \cup final)) \cup ({"final"} \X final)

\* A document to be seen is still there, and counted or about to be.
Seen ==
  /\ present \subseteq temp \cup final
  /\ listed \subseteq Known
  /\ Scanning => \A f \in present : f \in counted \/ \E e \in listed : e[2] = f
  /\ scan = "passed" => present \subseteq counted

\* A name that vanished since the listing took one rename, in the second pass
\* a further one.
Vanished ==
  /\ renames \in Nat
  /\ scan = "strict" => renames >= 1
  /\ scan = "live" /\ ~(listed \subseteq Entries) => renames >= 1
  /\ scan = "strict" /\ ~(listed \subseteq Entries) => renames >= 2
  /\ scan = "failed" => renames >= 2

ScanInv == Seen /\ Vanished

LEMMA ScanInvInit == ScanInit => ScanInv
  BY DEF ScanInit, ScanInv, Seen, Vanished, Known, Scanning, Entries

\* A complete listing names every document there is.
LEMMA Listing == Entries \subseteq Known /\ \A f \in temp \cup final : \E e \in Entries : e[2] = f
<1>1. Entries \subseteq Known
  BY DEF Entries, Known
<1>2. ASSUME NEW f \in temp \cup final PROVE \E e \in Entries : e[2] = f
  <2>1. CASE f \in temp
    <3>1. <<"temp", f>> \in Entries /\ <<"temp", f>>[2] = f
      BY <2>1 DEF Entries
    <3> QED
      BY <3>1
  <2>2. CASE f \in final
    <3>1. <<"final", f>> \in Entries /\ <<"final", f>>[2] = f
      BY <2>2 DEF Entries
    <3> QED
      BY <3>1
  <2> QED
    BY <2>1, <2>2
<1> QED
  BY <1>1, <1>2

LEMMA WritesKeep ==
  ASSUME ScanInv, NEW f \in Files, CreateTemp(f) \/ Rename(f)
  PROVE  ScanInv'
<1>1. CASE CreateTemp(f)
  <2>1. Known \subseteq Known' /\ Entries \subseteq Entries'
    BY <1>1 DEF CreateTemp, Known, Entries
  <2>2. Seen'
    BY <1>1, <2>1 DEF CreateTemp, ScanInv, Seen, Scanning
  <2>3. Vanished'
    BY <1>1, <2>1 DEF CreateTemp, ScanInv, Vanished
  <2> QED
    BY <2>2, <2>3 DEF ScanInv
<1>2. CASE Rename(f)
  <2>1. Known \subseteq Known' /\ temp \cup final \subseteq (temp \cup final)'
    BY <1>2 DEF Rename, Known
  <2>2. Seen'
    BY <1>2, <2>1 DEF Rename, ScanInv, Seen, Scanning
  <2>3. Vanished'
    BY <1>2 DEF Rename, ScanInv, Vanished, Scanning
  <2> QED
    BY <2>2, <2>3 DEF ScanInv
<1> QED
  BY <1>1, <1>2

LEMMA BoundariesKeep ==
  ASSUME ScanInv, BeginScan \/ EndScan \/ NextScan
  PROVE  ScanInv'
<1>1. CASE BeginScan
  <2>1. Known' = Known /\ Entries' = Entries
    BY <1>1 DEF BeginScan, Known, Entries
  <2>2. Seen'
    BY <1>1, <2>1, Listing DEF BeginScan, Seen, Scanning
  <2>3. Vanished'
    BY <1>1, <2>1 DEF BeginScan, Vanished
  <2> QED
    BY <2>2, <2>3 DEF ScanInv
<1>2. CASE EndScan
  BY <1>2 DEF EndScan, ScanInv, Seen, Vanished, Scanning, Known, Entries
<1>3. CASE NextScan
  BY <1>3 DEF NextScan, ScanInv, Seen, Vanished, Scanning, Known, Entries
<1> QED
  BY <1>1, <1>2, <1>3

LEMMA StatsKeep ==
  ASSUME ScanInv, NEW e \in listed, StatFound(e) \/ StatMissing(e)
  PROVE  ScanInv'
<1>1. UNCHANGED <<temp, final, present, renames>> /\ Known' = Known /\ Entries' = Entries
  BY DEF StatFound, StatMissing, Known, Entries
<1>2. CASE StatFound(e)
  <2>1. Seen'
    BY <1>1, <1>2 DEF StatFound, ScanInv, Seen, Scanning
  <2>2. Vanished'
    BY <1>1, <1>2 DEF StatFound, ScanInv, Vanished
  <2> QED
    BY <2>1, <2>2 DEF ScanInv
<1>3. CASE StatMissing(e) /\ Forgiven(e)
  <2>1. scan' = "strict" /\ listed' = Entries /\ renames >= 1
    BY <1>3 DEF StatMissing, Rescan, Forgiven, ScanInv, Vanished
  <2>2. Seen'
    BY <1>1, <2>1, Listing DEF ScanInv, Seen
  <2>3. Vanished'
    BY <1>1, <2>1 DEF ScanInv, Vanished
  <2> QED
    BY <2>2, <2>3 DEF ScanInv
\* In the first pass a vanished name is always forgiven: it was a temporary, and
\* its document is in place.
<1>4. CASE StatMissing(e) /\ ~Forgiven(e)
  <2>1. e \in Known /\ e \notin Entries
    BY <1>4 DEF StatMissing, ScanInv, Seen
  <2>2. e[1] = "temp" /\ e[2] \in final
    BY <2>1 DEF Known, Entries
  <2>3. scan = "strict" /\ scan' = "failed" /\ UNCHANGED <<listed, counted>>
    BY <1>4, <2>2 DEF StatMissing, Forgiven, Scanning
  <2>4. renames >= 2
    BY <2>1, <2>3 DEF ScanInv, Vanished
  <2>5. Seen'
    BY <1>1, <2>3 DEF ScanInv, Seen, Scanning
  <2>6. Vanished'
    BY <1>1, <2>3, <2>4 DEF ScanInv, Vanished
  <2> QED
    BY <2>5, <2>6 DEF ScanInv
<1> QED
  BY <1>2, <1>3, <1>4

LEMMA ScanInvStep == ScanInv /\ [ScanNext]_scanVars => ScanInv'
<1> SUFFICES ASSUME ScanInv, [ScanNext]_scanVars PROVE ScanInv'
  OBVIOUS
<1>1. CASE UNCHANGED scanVars
  BY <1>1 DEF scanVars, ScanInv, Seen, Vanished, Scanning, Known, Entries
<1> QED
  BY <1>1, WritesKeep, BoundariesKeep, StatsKeep DEF ScanNext

\* However the worker creates and replaces its files meanwhile, a scan that passes
\* has counted every document that was there when it began, and one that fails met
\* more than one replacement.
THEOREM ScanIsComplete == ScanSpec => []ScanSeesAll
<1>1. ScanInv => ScanSeesAll
  BY DEF ScanInv, Seen, Vanished, ScanSeesAll
<1> QED
  BY <1>1, ScanInvInit, ScanInvStep, PTL DEF ScanSpec

-----------------------------------------------------------------------------
\* The loopback server, for every number of connections, slots and requests per second.

HttpSpec == HttpInit /\ [][HttpNext]_httpVars

ThreadStates == {"away", "running", "admitted", "answered", "broken", "ended", "dropped"}

HttpTyped ==
  /\ thread \in [Requests -> ThreadStates] /\ request \in [Requests -> Demands]
  /\ slots \in Int
  /\ now \in 0..MaxTime /\ window \in Seq(0..MaxTime)
  /\ admitted \in [0..MaxTime -> Nat]

\* Connections may be unboundedly many; those with a thread are not.
SlotsKept == IsFiniteSet(Working) /\ SlotsBalance

Admitted(t) == SumFunctionOnSet(admitted, SecondFrom(t))

\* The requests admitted since a recent instant are still in the window: were its
\* first n entries older, the rest would cover them.
Covered(t) ==
  \A n \in 0..Len(window) :
    (\A i \in 1..n : window[i] < t) => Admitted(t) <= Len(window) - n

WindowKept ==
  \A t \in 0..MaxTime :
    /\ Admitted(t) <= RateMax
    /\ now - Second < t => Covered(t)

HttpInv == HttpTyped /\ SlotsKept /\ WindowKept

LEMMA HttpConstants ==
  /\ Slots \in Nat /\ RateMax \in Nat /\ Second \in Nat /\ Second # 0 /\ MaxTime \in Nat
BY EvidenceHttpAssumption

LEMMA SecondFinite ==
  ASSUME NEW t \in 0..MaxTime
  PROVE  SecondFrom(t) \in SUBSET (0..MaxTime) /\ IsFiniteSet(SecondFrom(t))
<1>1. SecondFrom(t) \in SUBSET (0..MaxTime)
  BY HttpConstants DEF SecondFrom
<1>2. IsFiniteSet(0..MaxTime)
  BY HttpConstants, FS_Interval
<1> QED  BY <1>1, <1>2, FS_Subset

LEMMA HttpInvInit ==
  ASSUME HttpInit
  PROVE  HttpInv
<1>1. HttpTyped
  BY HttpConstants DEF HttpInit, HttpTyped, ThreadStates, Demands
<1>2. SlotsKept
  <2>1. Working = {}
    BY DEF HttpInit, Working
  <2> QED  BY <2>1, HttpConstants, FS_EmptySet DEF HttpInit, SlotsKept, SlotsBalance
<1>3. ASSUME NEW t \in 0..MaxTime
      PROVE  Admitted(t) = 0
  <2>0. PICK f : f = admitted
    OBVIOUS
  <2>1. f \in [0..MaxTime -> Nat] /\ \A u \in 0..MaxTime : f[u] = 0
    BY <2>0 DEF HttpInit
  <2> DEFINE h == [u \in SecondFrom(t) |-> f[u]]
             z == [u \in SecondFrom(t) |-> 0]
  <2>2. SumFunctionOnSet(f, SecondFrom(t)) = SumFunction(h)
    BY <2>1, SecondFinite, SumOnPart
  <2>3. h = z
    BY <2>1, SecondFinite
  <2>4. SumFunction(z) = 0
    BY SecondFinite, SumZero
  <2> HIDE DEF h, z
  <2> QED  BY <2>0, <2>2, <2>3, <2>4 DEF Admitted
<1>4. WindowKept
  <2>1. window = <<>>
    BY DEF HttpInit
  <2> QED  BY <1>3, <2>1, HttpConstants DEF WindowKept, Covered
<1> QED  BY <1>1, <1>2, <1>4 DEF HttpInv

\* A thread is started or ends together with its slot.
LEMMA SlotsStep ==
  ASSUME HttpInv, HttpNext
  PROVE  SlotsKept'
<1>1. /\ IsFiniteSet(Working) /\ slots + Cardinality(Working) = Slots
      /\ slots \in Int /\ Cardinality(Working) \in Nat
      /\ thread \in [Requests -> ThreadStates]
  BY FS_CardinalityType DEF HttpInv, HttpTyped, SlotsKept, SlotsBalance
<1>2. CASE slots' = slots /\ Working' = Working
  BY <1>1, <1>2 DEF SlotsKept, SlotsBalance
<1>3. ASSUME NEW q \in Requests, Accept(q)
      PROVE  SlotsKept'
  <2>1. thread[q] = "away" /\ q \notin Working
    BY <1>3 DEF Accept, Working
  <2>2. CASE thread' = [thread EXCEPT ![q] = "dropped"] /\ slots' = slots
    <3>1. Working' = Working
      BY <1>1, <2>1, <2>2 DEF Working
    <3> QED  BY <1>2, <2>2, <3>1
  <2>3. CASE thread' = [thread EXCEPT ![q] = "running"] /\ slots' = slots - 1
    <3>1. Working' = Working \cup {q}
      BY <1>1, <2>1, <2>3 DEF Working
    <3>2. IsFiniteSet(Working') /\ Cardinality(Working') = Cardinality(Working) + 1
      BY <1>1, <2>1, <3>1, FS_AddElement
    <3> QED  BY <1>1, <2>3, <3>2 DEF SlotsKept, SlotsBalance
  <2> QED  BY <1>3, <2>2, <2>3 DEF Accept
<1>4. ASSUME NEW q \in Requests, ThreadEnds(q)
      PROVE  SlotsKept'
  <2>1. q \in Working /\ Working' = Working \ {q}
    BY <1>1, <1>4 DEF ThreadEnds, Working
  <2>2. IsFiniteSet(Working') /\ Cardinality(Working') = Cardinality(Working) - 1
    BY <1>1, <2>1, FS_RemoveElement
  <2> QED  BY <1>1, <1>4, <2>2 DEF ThreadEnds, Released, SlotsKept, SlotsBalance
<1>5. ASSUME NEW q \in Requests, RefuseEarly(q) \/ Allow(q) \/ Answer(q) \/ Break(q)
      PROVE  slots' = slots /\ Working' = Working
  <2>1. /\ slots' = slots /\ q \in Working
        /\ \E v \in {"admitted", "answered", "broken"} : thread' = [thread EXCEPT ![q] = v]
    BY <1>5 DEF RefuseEarly, Allow, Answer, Break, Working
  <2> QED  BY <1>1, <2>1 DEF Working
<1>6. ASSUME CallShutdown \/ Signal \/ LoopEnds \/ ServerClose \/ Tick
      PROVE  slots' = slots /\ Working' = Working
  BY <1>6 DEF CallShutdown, Signal, LoopEnds, ServerClose, Tick, Working
<1> QED  BY <1>2, <1>3, <1>4, <1>5, <1>6 DEF HttpNext, ThreadStep

LEMMA EntryOf ==
  ASSUME NEW S, NEW w \in Seq(S), NEW i \in 1..Len(w)
  PROVE  w[i] \in S
OBVIOUS

\* What is left of a sequence when its first entries are dropped.
LEMMA Suffix ==
  ASSUME NEW S, NEW w \in Seq(S), NEW left \in Nat, left <= Len(w)
  PROVE  /\ SubSeq(w, left + 1, Len(w)) \in Seq(S)
         /\ Len(SubSeq(w, left + 1, Len(w))) = Len(w) - left
         /\ \A i \in 1..(Len(w) - left) : SubSeq(w, left + 1, Len(w))[i] = w[left + i]
<1>1. Len(w) \in Nat /\ \A i \in 1..Len(w) : w[i] \in S
  OBVIOUS
<1>2. SubSeq(w, left + 1, Len(w)) = [i \in 1..(Len(w) - left) |-> w[left + i]]
  BY <1>1
<1> QED  BY <1>1, <1>2

LEMMA TypedStep ==
  ASSUME HttpInv, HttpNext
  PROVE  HttpTyped'
<1>1. HttpTyped
  BY DEF HttpInv
<1>2. ASSUME NEW q \in Requests, Accept(q)
      PROVE  HttpTyped'
  <2>1. slots' \in Int /\ UNCHANGED <<now, window, admitted>>
    BY <1>1, <1>2 DEF Accept, HttpTyped
  <2>2. thread' \in [Requests -> ThreadStates]
    BY <1>1, <1>2 DEF Accept, HttpTyped, ThreadStates
  <2>3. request' \in [Requests -> Demands]
    BY <1>1, <1>2 DEF Accept, HttpTyped
  <2> QED  BY <1>1, <2>1, <2>2, <2>3 DEF HttpTyped
<1>3. ASSUME NEW q \in Requests, RefuseEarly(q) \/ Answer(q) \/ Break(q) \/ ThreadEnds(q)
      PROVE  HttpTyped'
  <2>1. slots' \in Int /\ UNCHANGED <<request, now, window, admitted>>
    BY <1>1, <1>3 DEF RefuseEarly, Answer, Break, ThreadEnds, Released, HttpTyped
  <2>2. thread' \in [Requests -> ThreadStates]
    BY <1>1, <1>3 DEF RefuseEarly, Answer, Break, ThreadEnds, HttpTyped, ThreadStates
  <2> QED  BY <1>1, <2>1, <2>2 DEF HttpTyped
<1>4. ASSUME NEW q \in Requests, Allow(q)
      PROVE  HttpTyped'
  <2>1. PICK left \in 0..Len(window) :
          /\ \/ window' = SubSeq(window, left + 1, Len(window))
             \/ window' = Append(SubSeq(window, left + 1, Len(window)), now)
          /\ admitted' = admitted \/ admitted' = [admitted EXCEPT ![now] = @ + 1]
          /\ thread' = [thread EXCEPT ![q] = "answered"] \/ thread' = [thread EXCEPT ![q] = "admitted"]
    BY <1>4 DEF Allow
  <2>2. PICK w \in Seq(0..MaxTime) : w = window
    BY <1>1 DEF HttpTyped
  <2>0. PICK kept : kept = SubSeq(w, left + 1, Len(w))
    OBVIOUS
  <2>3. kept \in Seq(0..MaxTime)
    <3>1. left \in Nat /\ left <= Len(w)
      BY <2>2
    <3> QED  BY <2>0, <3>1, Suffix
  <2>4. window' \in Seq(0..MaxTime)
    <3>1. Append(kept, now) \in Seq(0..MaxTime)
      BY <1>1, <2>3 DEF HttpTyped
    <3> QED  BY <2>0, <2>1, <2>2, <2>3, <3>1
  <2>5. admitted' \in [0..MaxTime -> Nat]
    BY <1>1, <2>1 DEF HttpTyped
  <2>6. thread' \in [Requests -> ThreadStates]
    BY <1>1, <2>1 DEF HttpTyped, ThreadStates
  <2>7. UNCHANGED <<request, slots, now>>
    BY <1>4 DEF Allow
  <2> QED  BY <1>1, <2>4, <2>5, <2>6, <2>7 DEF HttpTyped
<1>5. CASE Tick
  <2>1. now' \in 0..MaxTime
    BY <1>1, <1>5, HttpConstants DEF Tick, HttpTyped
  <2> QED  BY <1>1, <1>5, <2>1 DEF Tick, HttpTyped
<1>6. ASSUME CallShutdown \/ Signal \/ LoopEnds \/ ServerClose
      PROVE  HttpTyped'
  BY <1>1, <1>6 DEF CallShutdown, Signal, LoopEnds, ServerClose, HttpTyped
<1> QED  BY <1>2, <1>3, <1>4, <1>5, <1>6 DEF HttpNext, ThreadStep

\* What leaves the window is older than any recent instant, and what is counted
\* enters it.
LEMMA AllowKeeps ==
  ASSUME HttpInv, NEW q \in Requests, Allow(q)
  PROVE  WindowKept'
<1>0. HttpTyped /\ WindowKept
  BY DEF HttpInv
<1>1. PICK left \in 0..Len(window) :
        /\ \A i \in 1..left : ~Recent(window[i])
        /\ LET kept == SubSeq(window, left + 1, Len(window)) IN
             IF Len(kept) >= RateMax
               THEN window' = kept /\ UNCHANGED admitted
               ELSE window' = Append(kept, now) /\ admitted' = [admitted EXCEPT ![now] = @ + 1]
  BY DEF Allow
<1> DEFINE kept == SubSeq(window, left + 1, Len(window))
<1>2. PICK w \in Seq(0..MaxTime) : w = window
  <2> HIDE DEF kept
  <2> QED  BY <1>0 DEF HttpTyped
<1>3. /\ kept \in Seq(0..MaxTime) /\ Len(kept) = Len(w) - left /\ Len(kept) \in Nat
      /\ left \in Nat /\ left <= Len(w) /\ Len(w) \in Nat
      /\ \A i \in 1..Len(kept) : kept[i] = w[left + i]
  <2>1. left \in Nat /\ left <= Len(w) /\ Len(w) \in Nat
    BY <1>2
  <2>2. kept = SubSeq(w, left + 1, Len(w))
    BY <1>2
  <2> HIDE DEF kept
  <2>3. /\ SubSeq(w, left + 1, Len(w)) \in Seq(0..MaxTime)
        /\ Len(SubSeq(w, left + 1, Len(w))) = Len(w) - left
        /\ \A i \in 1..(Len(w) - left) : SubSeq(w, left + 1, Len(w))[i] = w[left + i]
    BY <2>1, Suffix
  <2> QED  BY <2>1, <2>2, <2>3
<1> HIDE DEF kept
<1>4. now \in 0..MaxTime /\ now \in Int /\ now' = now
  BY <1>0, HttpConstants DEF HttpTyped, Allow
<1>5. \A i \in 1..left : w[i] <= now - Second
  <2>1. \A i \in 1..left : w[i] \in Int
    <3>1. \A i \in 1..Len(w) : w[i] \in 0..MaxTime
      BY EntryOf
    <3>2. \A i \in 1..left : i \in 1..Len(w)
      BY <1>3
    <3> QED  BY <3>1, <3>2
  <2> QED  BY <1>1, <1>2, <1>4, <2>1, HttpConstants DEF Recent
<1>6. ASSUME NEW t \in 0..MaxTime
      PROVE  Admitted(t) \in Nat
  BY <1>0, SecondFinite, SumOnPartType DEF Admitted, HttpTyped
\* The entries that stay cover what the whole window covered.
<1>7. ASSUME NEW t \in 0..MaxTime, now - Second < t,
             NEW n \in 0..Len(kept), \A i \in 1..n : kept[i] < t
      PROVE  Admitted(t) <= Len(kept) - n
  <2>1. left + n \in 0..Len(w) /\ n \in Nat
    BY <1>3
  <2>2. ASSUME NEW i \in 1..(left + n)
        PROVE  w[i] < t
    <3>1. CASE i <= left
      <4>1. i \in 1..left /\ w[i] \in Int /\ t \in Int
        BY <1>2, <1>3, <2>1, <3>1, HttpConstants
      <4> QED  BY <1>4, <1>5, <1>7, <4>1, HttpConstants
    <3>2. CASE i > left
      <4>1. i - left \in 1..n /\ i - left \in 1..Len(kept) /\ left + (i - left) = i
        BY <1>3, <2>1, <3>2
      <4>2. w[i] = kept[i - left]
        BY <1>3, <4>1
      <4> QED  BY <1>7, <4>1, <4>2
    <3> QED  BY <1>3, <2>1, <3>1, <3>2
  <2>3. Admitted(t) <= Len(w) - (left + n)
    BY <1>0, <1>2, <1>7, <2>1, <2>2 DEF WindowKept, Covered
  <2> QED  BY <1>3, <1>6, <2>1, <2>3
<1>8. CASE Len(kept) >= RateMax
  <2>1. window' = kept /\ admitted' = admitted
    BY <1>1, <1>8 DEF kept
  <2>2. \A t \in 0..MaxTime : Admitted(t)' = Admitted(t)
    BY <2>1 DEF Admitted
  <2> QED  BY <1>0, <1>4, <1>7, <2>1, <2>2 DEF WindowKept, Covered
<1>9. CASE Len(kept) < RateMax
  <2>1. window' = Append(kept, now) /\ admitted' = [admitted EXCEPT ![now] = @ + 1]
    BY <1>1, <1>3, <1>9, HttpConstants DEF kept
  <2>2. PICK f, g : f = admitted /\ g = admitted'
    OBVIOUS
  <2>3. /\ f \in [0..MaxTime -> Nat] /\ g \in [0..MaxTime -> Nat] /\ g[now] = f[now] + 1
        /\ \A u \in (0..MaxTime) \ {now} : g[u] = f[u]
    BY <1>0, <1>4, <2>1, <2>2 DEF HttpTyped
  <2>4. ASSUME NEW t \in 0..MaxTime
        PROVE  /\ Admitted(t)' \in Nat
               /\ now \in SecondFrom(t) => Admitted(t)' = Admitted(t) + 1
               /\ now \notin SecondFrom(t) => Admitted(t)' = Admitted(t)
    <3> DEFINE T == SecondFrom(t)
    <3>1. T \in SUBSET (0..MaxTime) /\ IsFiniteSet(T)
      BY SecondFinite
    <3> HIDE DEF T
    <3>2. /\ SumFunctionOnSet(f, T) \in Nat /\ SumFunctionOnSet(g, T) \in Nat
          /\ now \in T => SumFunctionOnSet(g, T) + f[now] = SumFunctionOnSet(f, T) + g[now]
          /\ now \notin T => SumFunctionOnSet(g, T) = SumFunctionOnSet(f, T)
      <4>1. PICK m, D : m = now /\ D = 0..MaxTime
        OBVIOUS
      <4>2. m \in D /\ T \in SUBSET D /\ \A u \in D \ {m} : g[u] = f[u]
        BY <1>4, <2>3, <3>1, <4>1
      <4>0. f \in [D -> Nat] /\ g \in [D -> Nat]
        BY <2>3, <4>1
      <4>3. PartMoves(f, g, T, m)
        BY <3>1, <4>0, <4>2, SumOnPartUpdate
      <4> QED  BY <4>1, <4>3 DEF PartMoves
    <3>3. f[now] \in Nat
      BY <1>4, <2>3
    <3>4. now \in T => SumFunctionOnSet(g, T) = SumFunctionOnSet(f, T) + 1
      BY <2>3, <3>2, <3>3
    <3> QED  BY <2>2, <3>2, <3>4 DEF Admitted, T
  <2>5. \A t \in 0..MaxTime : now \in SecondFrom(t) <=> t <= now /\ now - Second < t
    BY <1>4, HttpConstants DEF SecondFrom
  <2>6. ASSUME NEW t \in 0..MaxTime
        PROVE  Admitted(t)' <= RateMax
    <3>1. CASE now \in SecondFrom(t)
      <4>1. Admitted(t) <= Len(kept)
        <5>1. 0 \in 0..Len(kept) /\ \A i \in 1..0 : kept[i] < t
          BY <1>3
        <5>2. Admitted(t) <= Len(kept) - 0
          BY <1>7, <2>5, <3>1, <5>1
        <5> QED  BY <1>3, <1>6, <5>2
      <4> QED  BY <1>3, <1>6, <1>9, <2>4, <3>1, <4>1, HttpConstants
    <3>2. CASE now \notin SecondFrom(t)
      BY <1>0, <2>4, <3>2 DEF WindowKept
    <3> QED  BY <3>1, <3>2
  <2> DEFINE full == Append(kept, now)
  <2>7. /\ Len(full) = Len(kept) + 1 /\ full[Len(kept) + 1] = now
        /\ \A i \in 1..Len(kept) : full[i] = kept[i]
    BY <1>3, <1>4
  <2> HIDE DEF full
  <2>8. ASSUME NEW t \in 0..MaxTime, now - Second < t,
               NEW n \in 0..Len(full), \A i \in 1..n : full[i] < t
        PROVE  Admitted(t)' <= Len(full) - n
    <3>0. n \in Nat /\ t \in Int
      BY <1>3, <2>7, HttpConstants
    <3>1. CASE n <= Len(kept)
      <4>1. n \in 0..Len(kept) /\ \A i \in 1..n : kept[i] < t
        BY <1>3, <2>7, <2>8, <3>0, <3>1
      <4>2. Admitted(t) <= Len(kept) - n
        BY <1>7, <2>8, <4>1
      <4>3. Admitted(t)' <= Admitted(t) + 1
        BY <1>6, <2>4
      <4> QED  BY <1>3, <1>6, <2>4, <2>7, <3>0, <4>2, <4>3
    <3>2. CASE n > Len(kept)
      <4>1. n = Len(kept) + 1
        BY <1>3, <2>7, <3>0, <3>2
      <4>2. Len(kept) + 1 \in 1..n
        BY <1>3, <4>1
      <4>3. now < t
        BY <2>7, <2>8, <4>2
      <4>4. \A i \in 1..Len(kept) : kept[i] < t
        <5>1. \A i \in 1..Len(kept) : i \in 1..n
          BY <1>3, <4>1
        <5> QED  BY <2>7, <2>8, <5>1
      <4>5. Len(kept) \in 0..Len(kept)
        BY <1>3
      <4>6. Admitted(t) <= Len(kept) - Len(kept)
        BY <1>7, <2>8, <4>4, <4>5
      <4>7. now \notin SecondFrom(t)
        BY <1>4, <2>5, <3>0, <4>3
      <4> QED  BY <1>3, <1>6, <2>4, <2>7, <4>1, <4>6, <4>7
    <3> QED  BY <1>3, <3>0, <3>1, <3>2
  <2>9. window' = full
    BY <2>1 DEF full
  <2> QED  BY <1>4, <2>6, <2>8, <2>9 DEF WindowKept, Covered
<1> QED  BY <1>3, <1>8, <1>9, HttpConstants

LEMMA WindowStep ==
  ASSUME HttpInv, HttpNext
  PROVE  WindowKept'
<1>0. HttpTyped /\ WindowKept
  BY DEF HttpInv
<1>1. ASSUME NEW q \in Requests, Allow(q)
      PROVE  WindowKept'
  BY <1>1, AllowKeeps
<1>2. CASE Tick
  <2>1. /\ now' = now + 1 /\ window' = window /\ admitted' = admitted /\ now \in Int
    BY <1>0, <1>2, HttpConstants DEF Tick, HttpTyped
  <2>2. \A t \in 0..MaxTime : Admitted(t)' = Admitted(t) /\ t \in Int
    BY <2>1, HttpConstants DEF Admitted
  <2>3. \A t \in 0..MaxTime : now' - Second < t => now - Second < t
    BY <2>1, <2>2, HttpConstants
  <2> QED  BY <1>0, <2>1, <2>2, <2>3 DEF WindowKept, Covered
<1>3. ASSUME UNCHANGED <<now, window, admitted>>
      PROVE  WindowKept'
  <2>1. \A t \in 0..MaxTime : Admitted(t)' = Admitted(t)
    BY <1>3 DEF Admitted
  <2> QED  BY <1>0, <1>3, <2>1 DEF WindowKept, Covered
<1>4. ASSUME NEW q \in Requests,
             Accept(q) \/ RefuseEarly(q) \/ Answer(q) \/ Break(q) \/ ThreadEnds(q)
      PROVE  UNCHANGED <<now, window, admitted>>
  BY <1>4 DEF Accept, RefuseEarly, Answer, Break, ThreadEnds
<1>5. ASSUME CallShutdown \/ Signal \/ LoopEnds \/ ServerClose
      PROVE  UNCHANGED <<now, window, admitted>>
  BY <1>5 DEF CallShutdown, Signal, LoopEnds, ServerClose
<1> QED  BY <1>1, <1>2, <1>3, <1>4, <1>5 DEF HttpNext, ThreadStep

LEMMA HttpInvStep ==
  ASSUME HttpInv, [HttpNext]_httpVars
  PROVE  HttpInv'
<1>1. CASE HttpNext
  BY <1>1, TypedStep, SlotsStep, WindowStep DEF HttpInv
<1>2. CASE UNCHANGED httpVars
  <2>1. Working' = Working /\ \A t : Admitted(t)' = Admitted(t)
    BY <1>2 DEF httpVars, Working, Admitted
  <2>2. HttpTyped'
    BY <1>2 DEF httpVars, HttpInv, HttpTyped
  <2>3. SlotsKept'
    BY <1>2, <2>1 DEF httpVars, HttpInv, SlotsKept, SlotsBalance
  <2>4. WindowKept'
    BY <1>2, <2>1 DEF httpVars, HttpInv, WindowKept, Covered
  <2> QED  BY <2>2, <2>3, <2>4 DEF HttpInv
<1> QED  BY <1>1, <1>2

\* However connections come, break, are refused or end, slots are neither lost nor
\* invented, and no second admits more than RateMax requests.
THEOREM AdmissionIsBounded == HttpSpec => []AdmissionBound
<1>1. HttpInv => AdmissionBound
  BY DEF HttpInv, SlotsKept, WindowKept, Admitted, AdmissionBound
<1> QED
  BY <1>1, HttpInvInit, HttpInvStep, PTL DEF HttpSpec
=============================================================================
