----------------------------- MODULE StudyStage -----------------------------
\* The one-shot experiment gates of macr.evals: the approved study, its single
\* continuation, the tool-name probe, the two-phase value and static-diagnostic
\* stages and the comparison pilot.  All of them share the cell runner and the
\* spend gate; what differs is kept in one operator per kind: the files they
\* claim, what halts a batch and what the first phase must show.
EXTENDS Naturals, Sequences, FiniteSets, TLC, SequencesExt

CONSTANTS
  Kinds,        \* which experiments are explored
  Callers,      \* processes that may call execute_*; they may die at any step
  Roots,        \* control directories; two continuations may name one source
  Cells,        \* cells of a phase, as the numbers 1..n in plan order
  Decisions,    \* requests a cell may make (3 in the code)
  Prints,       \* system fingerprints the provider may report
  Opening,      \* spend carried over from the source of a continuation
  MaxUsd,       \* dollars of one gate
  Reservation,  \* dollars held per request in flight
  Charges,      \* what a settled request may cost
  FailLimit     \* contract failures that stop a pilot or a second phase

NoPrint == "no print"

ASSUME StudyAssumption ==
  /\ Kinds \subseteq {"study", "continuation", "probe", "value", "stage", "pilot"}
  /\ {Cells, Decisions, FailLimit} \subseteq Nat \ {0}
  /\ {Opening, MaxUsd, Reservation} \subseteq Nat /\ Charges \subseteq 0..Reservation
  /\ Roots # {} /\ "source" \notin Roots /\ Prints # {} /\ NoPrint \notin Prints

Phases == {1, 2}
Slots == Roots \X Phases
Cell == 1..Cells
Valid == {"valid", "short"}
Ended == {"idle", "done", "failed", "dead"}
Pcs == Ended \cup {"open", "cell", "key", "begin", "admit", "wire", "answer", "result", "judge", "summary"}

VARIABLES
  kind,      \* the experiment of this behaviour
  plan,      \* what prepare_* left in a control root
  drifted,   \* inputs or code changed since they were frozen
  files,     \* claim, retention and ledger entries created so far
  ledger,    \* reservation and outcome files, in order
  results,   \* accounted results
  summary,   \* summary.json of a phase
  origin,    \* provenance recorded by the claim of a phase
  sent,      \* times a logical request reached the wire
  caller     \* the processes

stageVars == <<kind, plan, drifted, files, ledger, results, summary, origin, sent, caller>>

Idle == [pc |-> "idle", root |-> CHOOSE r \in Roots : TRUE, phase |-> 1, todo |-> <<>>,
         live |-> FALSE, key |-> FALSE, cell |-> 1, decision |-> 1, status |-> "none",
         pending |-> FALSE, halted |-> FALSE, stop |-> FALSE, print |-> NoPrint, failures |-> 0]

Limit == IF kind = "stage" THEN 1 ELSE Decisions
TwoPhase == kind \in {"value", "stage"}
Slot(c) == <<caller[c].root, caller[c].phase>>
Rows(s) == {ledger[s][i] : i \in DOMAIN ledger[s]}
Settled(s) == \A row \in Rows(s) : row.state = "settled"
PrintsOf(s) == {row.print : row \in {x \in Rows(s) : x.state = "settled"}}

Carried == IF kind = "continuation" THEN Opening ELSE 0
Occupied(s) == Carried + SumFunction([i \in DOMAIN ledger[s] |-> ledger[s][i].held])

StageInit ==
  /\ kind \in Kinds
  /\ plan = [s \in Slots |-> "none"] /\ drifted = FALSE /\ files = {}
  /\ ledger = [s \in Slots |-> <<>>]
  /\ results = [s \in Slots |-> [i \in Cell |-> "none"]]
  /\ summary = [s \in Slots |-> "none"] /\ origin = [s \in Slots |-> "none"]
  /\ sent = [i \in Phases \X Cell \X (1..Decisions) |-> 0]
  /\ caller = [c \in Callers |-> Idle]

-----------------------------------------------------------------------------
(* Receipts: what a later phase recomputes from the files of an earlier one. *)

\* _s0_gate: both developer flows followed to the end, all billed, one fingerprint.
ValueQualifies(s) ==
  /\ summary[s] = "open"
  /\ \A i \in Cell : results[s][i] = "valid"
  /\ Settled(s) /\ Cardinality(PrintsOf(s)) = 1
  /\ Len(ledger[s]) = Cells * Decisions

StageQualifies_Billed(s) == Settled(s) /\ Len(ledger[s]) = Cells /\ PrintsOf(s) # {}
\* The static stage: one settled answer per cell of S0, and a pinned fingerprint.
StageQualifies(s) ==
  /\ \A i \in Cell : results[s][i] \in Valid
  /\ Settled(s) /\ Len(ledger[s]) = Cells /\ PrintsOf(s) # {}

\* r_gate: every cell ended, few contract failures, and the batch ran to its end.
PilotEligible(s) ==
  /\ summary[s] = "open"
  /\ \A i \in Cell : results[s][i] \in Valid \cup {"contract"}
  /\ Cardinality({i \in Cell : results[s][i] = "contract"}) < FailLimit
  /\ Cardinality(PrintsOf(s)) = 1

\* _verify_regression_summary: the claim, each result and each outcome agree.
RegressionReceipt(r) ==
  LET s == <<r, 1>> IN
  /\ <<r, 1, "claim">> \in files /\ origin[s] # "none"
  /\ Len(ledger[s]) >= 1 /\ Settled(s)
  /\ PilotEligible(s)

Qualifies(r) == IF kind = "value" THEN ValueQualifies(<<r, 1>>) ELSE StageQualifies(<<r, 1>>)

-----------------------------------------------------------------------------
(* Plans.  A preparation that dies half way leaves a root that no load accepts *)
(* and that cannot be prepared again.                                          *)

Freeze(s, as) ==
  /\ plan[s] = "none" /\ ~drifted
  /\ \E made \in {as, "partial"} : plan' = [plan EXCEPT ![s] = made]
  /\ UNCHANGED <<kind, drifted, files, ledger, results, summary, origin, sent, caller>>

PrepareStudy(r) == kind = "study" /\ Freeze(<<r, 1>>, "ready")
PrepareContinuation(r) == kind = "continuation" /\ Freeze(<<r, 1>>, "ready")
PrepareProbe(r) == kind = "probe" /\ Freeze(<<r, 1>>, "ready")
PrepareValue(r) == kind = "value" /\ Freeze(<<r, 1>>, "ready")
PrepareStage(r) == kind = "stage" /\ Freeze(<<r, 1>>, "ready")
PreparePilot(r, phase) ==
  /\ kind = "pilot"
  /\ phase = 2 => RegressionReceipt(r)
  /\ Freeze(<<r, phase>>, "ready")
\* The unseen phase bound to a sealed scope: only a real regression phase serves.
FinalizeUnseen(r) ==
  /\ kind = "pilot" /\ RegressionReceipt(r) /\ origin[<<r, 1>>] = "live"
  /\ Freeze(<<r, 2>>, "sealed")

Drift ==
  /\ ~drifted /\ drifted' = TRUE
  /\ UNCHANGED <<kind, plan, files, ledger, results, summary, origin, sent, caller>>

LoadStudy(r, phase) == plan[<<r, phase>>] \in {"ready", "sealed"} /\ ~drifted
LoadProbe(r, phase) == LoadStudy(r, phase)
LoadValue(r, phase) == LoadProbe(r, 1) /\ LoadStudy(r, 1)
LoadStage(r, phase) == LoadStudy(r, 1)
LoadContinuation(r, phase) == LoadStudy(r, 1)
LoadPilot(r, phase) == LoadStudy(r, phase) /\ (phase = 2 => RegressionReceipt(r))
Load(r, phase) ==
  CASE kind = "study" -> LoadStudy(r, phase)
    [] kind = "probe" -> LoadProbe(r, phase)
    [] kind = "value" -> LoadValue(r, phase)
    [] kind = "stage" -> LoadStage(r, phase)
    [] kind = "continuation" -> LoadContinuation(r, phase)
    [] kind = "pilot" -> LoadPilot(r, phase)

-----------------------------------------------------------------------------
(* Starting: preflight, then the files a kind creates before any key or send.  *)

\* The probe and the value stage refuse a root that already holds any output.
Fresh(r) == \A f \in files : f[1] # r

\* An approval equal to the proposal of the plan as it loads now.  A real unseen
\* phase also needs the sealed scope and a real regression phase.
Preflight(r, phase, live) ==
  /\ Load(r, phase)
  /\ kind \in {"probe", "value"} => Fresh(r)
  /\ (kind = "pilot" /\ phase = 2 /\ live) =>
       origin[<<r, 1>>] = "live" /\ plan[<<r, 2>>] = "sealed"

\* Steps before the first key or send: Make creates a file and refuses an existing
\* one, Keep accepts it, Load reads the frozen plan again.
Reload == <<<<"load">>>>
Make(r, phase, name) == <<<<"make", <<r, phase, name>>>>>>
Keep(r, phase, name) == <<<<"keep", <<r, phase, name>>>>>>

Claims(r, phase) == Reload \o Make(r, phase, "claim") \o Make(r, phase, "ledger")
StudyFiles(r, phase) == Keep(r, phase, "retention") \o Claims(r, phase)
\* The successor claim lies beside the source, so it is one for all continuations.
ContinuationFiles_NoSuccessor(r, phase) == StudyFiles(r, phase) \o Reload
ContinuationFiles(r, phase) ==
  Keep(r, phase, "retention") \o Make("source", 1, "claim") \o Claims(r, phase) \o Reload
ProbeFiles(r, phase) ==
  Make(r, phase, "claim") \o Make(r, phase, "retention") \o Make(r, phase, "ledger")
PilotFiles(r, phase) == ProbeFiles(r, phase) \o Reload
ValueFiles(r, phase) ==
  IF phase = 1
  THEN Make(r, 0, "claim") \o Make(r, 0, "retention") \o Reload \o ProbeFiles(r, 1)
  ELSE Reload \o Make(r, 2, "retention") \o Claims(r, 2)
StageFiles(r, phase) ==
  IF phase = 1
  THEN Make(r, 0, "claim") \o Make(r, 0, "cells") \o Make(r, 0, "retention") \o Make(r, 1, "ledger")
  ELSE Make(r, 2, "ledger")
FilesOf(r, phase) ==
  CASE kind = "study" -> StudyFiles(r, phase)
    [] kind = "continuation" -> ContinuationFiles(r, phase)
    [] kind = "probe" -> ProbeFiles(r, phase)
    [] kind = "pilot" -> PilotFiles(r, phase)
    [] kind = "value" -> ValueFiles(r, phase)
    [] kind = "stage" -> StageFiles(r, phase)

Goto(c, pc) == caller' = [caller EXCEPT ![c].pc = pc]
EndCell(c, status) == caller' = [caller EXCEPT ![c].pc = "result", ![c].status = status]
\* Mutant: the key survives the call.
Leave_KeepsKey(c, how) == Goto(c, how)
\* Every way out drops the memory of the call, the key first of all.
Leave(c, how) == caller' = [caller EXCEPT ![c] = [Idle EXCEPT !.pc = how]]
Fail(c) == Leave(c, "failed")
Disk == <<plan, drifted, files, ledger, results, summary, origin, sent>>

\* A continuation inherits the fingerprint of its source.
Pinned == IF kind = "continuation" THEN CHOOSE p \in Prints : TRUE ELSE NoPrint

Begin(c, r, phase, live) ==
  /\ caller[c].pc = "idle" /\ (phase = 2 => kind = "pilot")
  /\ caller' = [caller EXCEPT ![c] = [@ EXCEPT
       !.pc = "open", !.root = r, !.phase = phase, !.live = live, !.todo = FilesOf(r, phase),
       !.print = Pinned]]
  /\ UNCHANGED <<kind, Disk>>

\* An enabled execution under an approval, with a real or a scripted wire.
Execute(c, r, phase, live) == Preflight(r, phase, live) /\ Begin(c, r, phase, live)

\* A rehearsal needs no approval, only a plan that loads.
DryRun(c, r, phase) ==
  /\ kind # "continuation" /\ Load(r, phase)
  /\ kind = "value" => Fresh(r)
  /\ Begin(c, r, phase, FALSE)

Open(c) ==
  /\ caller[c].pc = "open" /\ caller[c].todo # <<>>
  /\ LET step == Head(caller[c].todo)
         refused == IF step[1] = "load" THEN drifted ELSE step[1] = "make" /\ step[2] \in files
     IN IF refused THEN Fail(c) /\ UNCHANGED <<files, origin>>
        ELSE /\ caller' = [caller EXCEPT ![c].todo = Tail(@)]
             /\ files' = IF step[1] = "load" THEN files ELSE files \cup {step[2]}
             /\ origin' = IF step[1] = "make" /\ step[2] = <<caller[c].root, caller[c].phase, "claim">>
                          THEN [origin EXCEPT ![Slot(c)] = IF caller[c].live THEN "live" ELSE "fake"]
                          ELSE origin
  /\ UNCHANGED <<kind, plan, drifted, ledger, results, summary, sent>>

-----------------------------------------------------------------------------
(* One cell.                                                                  *)

GateStops(c) == caller[c].halted \/ caller[c].pending

\* The sequential loop takes the next cell unless the batch is halted.
NextCell(c) ==
  /\ \/ caller[c].pc = "cell"
     \/ caller[c].pc = "open" /\ caller[c].todo = <<>>
  /\ IF caller[c].stop \/ caller[c].cell > Cells
     THEN Goto(c, IF kind = "stage" /\ caller[c].phase = 1 THEN "judge" ELSE "summary")
     ELSE Goto(c, IF caller[c].live /\ ~caller[c].key THEN "key" ELSE "begin")
  /\ UNCHANGED <<kind, Disk>>

\* The key is asked for once, after every claim; a refused or malformed key
\* fails the cell.
ReadKey(c) ==
  /\ caller[c].pc = "key"
  /\ \/ caller' = [caller EXCEPT ![c].pc = "begin", ![c].key = TRUE]
     \/ EndCell(c, "failed")
  /\ UNCHANGED <<kind, Disk>>

\* A cell verifies its manifest and sources again.  The probe and the static
\* stage turn drift into a failed cell; elsewhere the error ends the call.
BeginCell(c) ==
  /\ caller[c].pc = "begin"
  /\ IF ~drifted THEN Goto(c, "admit")
     ELSE IF kind \in {"probe", "stage"} \/ (kind = "value" /\ caller[c].phase = 1)
     THEN EndCell(c, "failed")
     ELSE Fail(c)
  /\ UNCHANGED <<kind, Disk>>

Afford_Settled(s) == Occupied(s) <= MaxUsd
Afford(s) == Occupied(s) + Reservation <= MaxUsd
Countable(s) == Len(ledger[s]) < Cells * Limit

\* admit: refuse a halted gate and a spent budget, then make the reservation durable.
Admit(c) ==
  /\ caller[c].pc = "admit"
  /\ LET s == Slot(c) IN
     IF GateStops(c) \/ ~Countable(s) \/ ~Afford(s)
     THEN EndCell(c, "failed") /\ UNCHANGED ledger
     ELSE /\ ledger' = [ledger EXCEPT ![s] = Append(@,
               [cell |-> caller[c].cell, decision |-> caller[c].decision, state |-> "reserved",
                held |-> Reservation, print |-> NoPrint])]
          /\ caller' = [caller EXCEPT ![c].pc = "wire", ![c].pending = TRUE]
  /\ UNCHANGED <<kind, plan, drifted, files, results, summary, origin, sent>>

\* The bound wire sends the admitted body once.
Post(c) ==
  /\ caller[c].pc = "wire"
  /\ sent' = [sent EXCEPT ![<<caller[c].phase, caller[c].cell, caller[c].decision>>] = @ + 1]
  /\ Goto(c, "answer")
  /\ UNCHANGED <<kind, plan, drifted, files, ledger, results, summary, origin>>

\* The cell's own reservation or request file cannot be written: nothing is sent
\* and the gate keeps waiting for an outcome.
WriteFails(c) ==
  /\ caller[c].pc = "wire" /\ kind # "stage"
  /\ EndCell(c, "failed")
  /\ UNCHANGED <<kind, Disk>>

\* settle: usage decides between settled and a retained reservation; identity is
\* judged only after the outcome is durable.
Booked(row, billed, charge, print) ==
  IF billed THEN [row EXCEPT !.state = "settled", !.held = charge, !.print = print]
  ELSE [row EXCEPT !.state = "unknown"]
Identified(c, print) == print # NoPrint /\ caller[c].print \in {NoPrint, print}

\* What a reply means for the cell: go on, end early, break the answer contract,
\* or break it with more input than measured for.
CellVerdict(c, reply) ==
  CASE reply = "turn" -> IF caller[c].decision = Decisions THEN "valid" ELSE "more"
    [] reply = "end" -> IF caller[c].decision = Decisions THEN "valid" ELSE "short"
    [] reply = "contract" -> "contract"
    [] reply = "overrun" -> "contract"
StageVerdict(reply) ==
  CASE reply \in {"turn", "end"} -> "valid"
    [] reply = "contract" -> "contract"
    [] reply = "overrun" -> "failed"
\* The gate of the value stage stops on an overrun once the outcome is durable.
OverrunStops(c, reply) == kind = "value" /\ caller[c].phase = 2 /\ reply = "overrun"
Verdict(c, reply) ==
  IF kind = "stage" THEN StageVerdict(reply)
  ELSE IF OverrunStops(c, reply) THEN "failed" ELSE CellVerdict(c, reply)

Settle(c) ==
  /\ caller[c].pc = "answer"
  /\ \E billed \in BOOLEAN, charge \in Charges, print \in Prints \cup {NoPrint},
        reply \in {"turn", "end", "contract", "overrun"} :
       LET s == Slot(c)
           known == billed /\ Identified(c, print)
           verdict == IF known THEN Verdict(c, reply) ELSE "failed"
       IN /\ ledger' = [ledger EXCEPT ![s][Len(ledger[s])] = Booked(@, billed, charge, print)]
          /\ caller' = [caller EXCEPT ![c] = [@ EXCEPT
               !.pending = FALSE, !.halted = ~billed,
               !.print = IF known THEN print ELSE caller[c].print,
               !.pc = IF verdict = "more" THEN "admit" ELSE "result",
               !.decision = caller[c].decision + IF verdict = "more" THEN 1 ELSE 0,
               !.status = IF verdict = "more" THEN "none" ELSE verdict]]
  /\ UNCHANGED <<kind, plan, drifted, files, results, summary, origin, sent>>

-----------------------------------------------------------------------------
(* After a cell, after a phase.                                               *)

StudyHalts(c, failures) == GateStops(c) \/ caller[c].status = "failed"
ProbeHalts(c, failures) == GateStops(c) \/ caller[c].status # "valid"
PilotHalts(c, failures) == GateStops(c) \/ caller[c].status = "failed" \/ failures >= FailLimit
StageHalts(c, failures) ==
  /\ caller[c].status \notin Valid
  /\ caller[c].phase = 1 \/ caller[c].status # "contract" \/ failures >= FailLimit
Halts(c, failures) ==
  CASE kind \in {"study", "continuation"} -> StudyHalts(c, failures)
    [] kind = "probe" -> ProbeHalts(c, failures)
    [] kind = "pilot" -> PilotHalts(c, failures)
    [] kind = "stage" -> StageHalts(c, failures)
    [] kind = "value" -> IF caller[c].phase = 1 THEN ProbeHalts(c, failures)
                         ELSE StudyHalts(c, failures)

\* The accounted result is written, then the batch decides whether to go on.  The
\* static stage survives a failed write, halted.
Account(c) ==
  /\ caller[c].pc = "result"
  /\ \E written \in {TRUE} \cup (IF kind = "stage" THEN {FALSE} ELSE {}) :
       LET failures == caller[c].failures + IF caller[c].status \in Valid THEN 0 ELSE 1
       IN /\ results' = IF written THEN [results EXCEPT ![Slot(c)][caller[c].cell] = caller[c].status]
                        ELSE results
          /\ caller' = [caller EXCEPT ![c] = [@ EXCEPT
               !.pc = "cell", !.cell = caller[c].cell + 1, !.decision = 1, !.status = "none",
               !.failures = failures, !.stop = Halts(c, failures) \/ ~written]]
  /\ UNCHANGED <<kind, plan, drifted, files, ledger, summary, origin, sent>>

Summarise(c) ==
  /\ caller[c].pc = "summary"
  /\ summary' = [summary EXCEPT ![Slot(c)] = IF caller[c].stop \/ GateStops(c) THEN "halted" ELSE "open"]
  /\ IF kind = "value" /\ caller[c].phase = 1 THEN Goto(c, "judge")
     ELSE Leave(c, "done")
  /\ UNCHANGED <<kind, plan, drifted, files, ledger, results, origin, sent>>

\* Between the phases: the second starts from the receipts of the first, and its
\* gate inherits the fingerprint.
Judge(c) ==
  /\ caller[c].pc = "judge"
  /\ IF Qualifies(caller[c].root)
     THEN caller' = [caller EXCEPT ![c] = [@ EXCEPT
            !.pc = "open", !.phase = 2, !.todo = FilesOf(caller[c].root, 2), !.cell = 1,
            !.failures = 0, !.stop = FALSE, !.halted = FALSE, !.pending = FALSE]]
     ELSE Leave(c, "done")
  /\ UNCHANGED <<kind, Disk>>

Interrupt(c) ==
  /\ caller[c].pc \notin Ended
  /\ IF kind = "stage" /\ caller[c].pc \in {"admit", "wire", "answer", "key"}
     THEN EndCell(c, "failed") ELSE Fail(c)
  /\ UNCHANGED <<kind, Disk>>

Crash(c) ==
  /\ caller[c].pc \notin Ended
  /\ Leave(c, "dead")
  /\ UNCHANGED <<kind, Disk>>

\* Two roots only where they share something: two continuations of one source.
Controls == IF kind = "continuation" THEN Roots ELSE {Idle.root}

StageNext ==
  \/ \E r \in Controls : \/ PrepareStudy(r) \/ PrepareContinuation(r) \/ PrepareProbe(r)
                      \/ PrepareValue(r) \/ PrepareStage(r) \/ FinalizeUnseen(r)
                      \/ \E phase \in Phases : PreparePilot(r, phase)
  \/ Drift
  \/ \E c \in Callers :
       \/ \E r \in Controls, phase \in Phases :
            DryRun(c, r, phase) \/ \E live \in BOOLEAN : Execute(c, r, phase, live)
       \/ Open(c) \/ NextCell(c) \/ ReadKey(c) \/ BeginCell(c) \/ Admit(c) \/ Post(c) \/ WriteFails(c)
       \/ Settle(c) \/ Account(c) \/ Summarise(c) \/ Judge(c) \/ Interrupt(c) \/ Crash(c)

StageSpec == StageInit /\ [][StageNext]_stageVars

-----------------------------------------------------------------------------
(* Properties.                                                                *)

\* No logical request is ever sent twice: not by a second process, not after a
\* crash, not by a second continuation of the same source.
SentOnce == \A i \in DOMAIN sent : sent[i] <= 1

\* When a request is about to be sent its reservation is on disk, every other
\* request of the experiment has a settled outcome, all of them came from one
\* fingerprint, and spend plus what is held stays within the budget.  The credential is
\* held only while an experiment runs whose claim is on disk: every return wipes it.
SendBacked ==
  \A c \in Callers :
    /\ caller[c].pc = "wire" =>
         LET s == Slot(c)
             others == (UNION {Rows(<<caller[c].root, p>>) : p \in Phases}) \ {Last(ledger[s])}
             mine == IF TwoPhase THEN others ELSE Rows(s) \ {Last(ledger[s])}
         IN /\ Last(ledger[s]).state = "reserved"
            /\ \A row \in mine : row.state = "settled" /\ row.print = caller[c].print
            /\ Occupied(s) <= MaxUsd
    /\ caller[c].key =>
         caller[c].pc \notin Ended /\ \E f \in files : f[1] = caller[c].root /\ f[3] = "claim"

\* A second phase that holds any request was earned: the first one ran to its end,
\* every request of it is billed, every cell ended within its contract, and a real
\* phase never stands on a rehearsed one.
SecondPhaseEarned ==
  \A r \in Roots : ledger[<<r, 2>>] # <<>> =>
    /\ Settled(<<r, 1>>)
    /\ \A i \in Cell : results[<<r, 1>>][i] \in Valid \cup (IF kind = "pilot" THEN {"contract"} ELSE {})
    /\ origin[<<r, 2>>] = "live" => origin[<<r, 1>>] = "live"
    /\ Cardinality(PrintsOf(<<r, 1>>)) = 1
=============================================================================
