------------------------------ MODULE PolicySpend ------------------------------
(***************************************************************************)
(* Paid policy batches (src/src/macr/evals/deepseek_policy_*.py).  A batch *)
(* freezes an order of cells; a process claims the next cell in the        *)
(* batch's registry, reserves money in its spend ledger before each        *)
(* request to the provider, settles the reservation from the reply, and    *)
(* closes the cell from the evidence its runner left.  A stopped batch may *)
(* be carried forward once, into the budget of one successor.              *)
(*                                                                         *)
(* All of it is files, each created once with O_EXCL and never rewritten,  *)
(* and every critical section holds the flock of the batch's control       *)
(* directory and writes at most one file, so a section is one action with  *)
(* the fates of that write.  Processes take sections of any batch in any   *)
(* order and may die, or raise past every handler, between any two.        *)
(***************************************************************************)
EXTENDS Naturals, FiniteSets, Functions

CONSTANTS
  Batches,      \* control directories below one private root
  Lenient,      \* batches frozen with CELL_FAILURE_POLICY
  Processes,    \* operating-system processes
  Modes,        \* the entries in use: "offline", "scripted", "live"
  CellCount,    \* number of cells of a batch
  ArmRequests,  \* ARM_REQUESTS of each cell's arm
  Reservation,  \* _RESERVATION
  MaxUsd,       \* max_usd of every approval
  MaxRequests,  \* max_requests of every approval
  Costs,        \* what a request within the price snapshot can cost
  None

Cells == 1..CellCount

ASSUME SpendAssumption ==
  /\ CellCount \in Nat
  /\ ArmRequests \in [Cells -> 1..3]
  /\ Reservation \in Nat /\ MaxUsd \in Nat /\ MaxRequests \in Nat
  /\ Costs \subseteq 1..Reservation
  /\ Lenient \subseteq Batches
  /\ Modes \subseteq {"offline", "scripted", "live"}
  /\ None \notin Batches

(* One request: a decision of a cell. *)
Keys == {k \in Cells \X (1..3) : k[2] <= ArmRequests[k[1]]}

VARIABLES
  (* Files. *)
  claim,    \* registry/<cell>.claim.json
  outcome,  \* registry/<cell>.outcome.json
  run,      \* the cell's output directory
  policy,   \* spend/policy.json
  entry,    \* spend/entries/<cell>-<decision>.{reservation,outcome}.json
  spent,    \* what _summary adds up over the settled entries
  lock,     \* cumulative-successor-lock.json
  (* Locals of a process. *)
  pc,       \* the section it is about to enter
  at,       \* the batch and cell it works on, and through which entry
  offer,    \* the predecessor it is asked to carry, and what it derived
  step,     \* the decision, the provider's reply and the runner's verdict
  (* The provider. *)
  sent,     \* POSTs of each request
  billed    \* what it charged for the requests of a batch

files == <<claim, outcome, run, policy, entry, spent, lock>>
locals == <<pc, at, offer, step>>
provider == <<sent, billed>>
vars == <<files, locals, provider>>

--------------------------------------------------------------------------------
(* Records.  A file whose write was interrupted is "torn": its name is     *)
(* taken and nothing can parse it.  _write_new may also raise after the    *)
(* file is complete, in the directory sync.                                *)

HaltedState == {"halted_unknown", "halted_contract", "halted_model_drift"}
OutcomeState == {"completed", "failed_contract"} \cup HaltedState

(* An entry: its reservation file, its outcome file and charged_usd. *)
Entry ==
  [res: {"none", "torn", "held"},
   out: {"none", "torn", "unknown", "usage_unknown", "settled"},
   charge: 0..Reservation]

NoEntry == [res |-> "none", out |-> "none", charge |-> 0]

(* The runner's evidence, reduced to what _state_from_evidence makes of it.*)
Run ==
  [state: {"absent", "open", "finished"}, requests: 0..3,
   offline: BOOLEAN, verdict: OutcomeState \cup {"none"}]

NoRun == [state |-> "absent", requests |-> 0, offline |-> FALSE, verdict |-> "none"]

(* Without policy.json the directory is missing ("none") or useless ("dirs").*)
Policy ==
  [state: {"none", "dirs", "frozen"}, pred: Batches \cup {None}, count: Nat, spent: Nat]

NoPolicy == [state |-> "none", pred |-> None, count |-> 0, spent |-> 0]

Lock == [state: {"none", "torn", "held"}, pred: Batches \cup {None},
         succ: Batches \cup {None}]

Reply == {"none", "answered", "incomplete", "foreign", "billed", "silent"}

PC == {"idle", "preparing", "opening", "admitted", "claimed", "running",
       "reserving", "posting", "settling", "finishing", "recording"}

Nowhere == [batch |-> None, cell |-> 0, mode |-> "offline"]
NoOffer == [pred |-> None, count |-> 0, spent |-> 0]
NoStep == [decision |-> 0, reply |-> "none", cost |-> 0, verdict |-> "none"]

Key(p) == <<at[p].cell, step[p].decision>>

(* Every variable holds what the files and the locals can hold; a process  *)
(* that is at work has a batch, and past its claim a cell and a decision.  *)
TypeOK ==
  /\ claim \in [Batches -> [Cells -> {"none", "torn", "ticket"}]]
  /\ outcome \in [Batches -> [Cells -> {"none", "torn"} \cup OutcomeState]]
  /\ run \in [Batches -> [Cells -> Run]]
  /\ policy \in [Batches -> Policy]
  /\ entry \in [Batches -> [Keys -> Entry]]
  /\ spent \in [Batches -> Nat]
  /\ lock \in Lock
  /\ pc \in [Processes -> PC]
  /\ at \in [Processes -> [batch: Batches \cup {None}, cell: 0..CellCount,
                           mode: {"offline", "scripted", "live"}]]
  /\ offer \in [Processes -> [pred: Batches \cup {None}, count: Nat, spent: Nat]]
  /\ step \in [Processes -> [decision: 0..3, reply: Reply, cost: Costs \cup {0},
                             verdict: OutcomeState \cup {"none"}]]
  /\ sent \in [Batches -> [Keys -> Nat]]
  /\ billed \in [Batches -> Nat]
  /\ \A p \in Processes :
       /\ pc[p] # "idle" => at[p].batch \in Batches
       /\ pc[p] \notin {"idle", "preparing", "opening", "admitted"} => at[p].cell \in Cells
       /\ pc[p] \in {"reserving", "posting", "settling"} => Key(p) \in Keys
       /\ pc[p] = "finishing" => step[p].verdict # "none"

Init ==
  /\ claim = [b \in Batches |-> [c \in Cells |-> "none"]]
  /\ outcome = [b \in Batches |-> [c \in Cells |-> "none"]]
  /\ run = [b \in Batches |-> [c \in Cells |-> NoRun]]
  /\ policy = [b \in Batches |-> NoPolicy]
  /\ entry = [b \in Batches |-> [k \in Keys |-> NoEntry]]
  /\ spent = [b \in Batches |-> 0]
  /\ lock = [state |-> "none", pred |-> None, succ |-> None]
  /\ pc = [p \in Processes |-> "idle"]
  /\ at = [p \in Processes |-> Nowhere]
  /\ offer = [p \in Processes |-> NoOffer]
  /\ step = [p \in Processes |-> NoStep]
  /\ sent = [b \in Batches |-> [k \in Keys |-> 0]]
  /\ billed = [b \in Batches |-> 0]

--------------------------------------------------------------------------------
(* Reading the files *)

Claimed(b) == {c \in Cells : claim[b][c] # "none"}
Closed(b) == {c \in Cells : outcome[b][c] # "none"}

Halted(b) == \E c \in Cells : outcome[b][c] \in HaltedState

(* _registry: every file parses, an outcome matches its runner's evidence, *)
(* and claims and outcomes are prefixes of the frozen order.               *)
RegistryValid(b) ==
  /\ \A c \in Cells : claim[b][c] # "torn" /\ outcome[b][c] # "torn"
  /\ Closed(b) \subseteq Claimed(b)
  /\ \A c \in Closed(b) :
       /\ run[b][c].state = "finished"
       /\ outcome[b][c] \in {run[b][c].verdict, "halted_model_drift"}
  /\ \A c \in Cells : c > 1 =>
       /\ c \in Claimed(b) => c - 1 \in Claimed(b)
       /\ c \in Closed(b) => c - 1 \in Closed(b)

Reserved(b) == {k \in Keys : entry[b][k].res # "none"}
Answered(b) == {k \in Keys : entry[b][k].out # "none"}
Settled(b) == {k \in Keys : entry[b][k].out = "settled"}

(* _records *)
RecordsValid(b) ==
  /\ \A k \in Keys : entry[b][k].res # "torn" /\ entry[b][k].out # "torn"
  /\ Answered(b) \subseteq Reserved(b)
  /\ Cardinality(Reserved(b)) <= MaxRequests
  /\ \A k \in Reserved(b) : \A d \in 1..(k[2] - 1) : <<k[1], d>> \in Answered(b)

RequestCount(b) == policy[b].count + Cardinality(Reserved(b))
Spent(b) == policy[b].spent + spent[b]
Held(b) == Reservation * Cardinality(Reserved(b) \ Settled(b))

LedgerState(b) ==
  IF Answered(b) # Settled(b) THEN "halted_unknown"
  ELSE IF Reserved(b) # Answered(b) THEN "awaiting_outcome" ELSE "open"

SummaryValid(b) ==
  /\ RequestCount(b) <= MaxRequests
  /\ Spent(b) + Held(b) <= MaxUsd

(* _derive_carry accepts a predecessor that carries nothing itself, has    *)
(* stopped, and whose ledger settles exactly the requests of its evidence. *)
Attempted(b) == {k \in Keys : k[1] \in Closed(b) /\ k[2] <= run[b][k[1]].requests}

Carriable(b) ==
  /\ policy[b].state = "frozen" /\ policy[b].pred = None
  /\ RecordsValid(b) /\ RegistryValid(b)
  /\ Claimed(b) = Closed(b) /\ Halted(b)
  /\ Attempted(b) # {}
  /\ Reserved(b) = Attempted(b) /\ Settled(b) = Attempted(b)

Carry(b) == [pred |-> b, count |-> Cardinality(Reserved(b)), spent |-> spent[b]]

(* _policy: a carry is derived again, and checked against the lock, before *)
(* every use of the ledger.                                                *)
PolicyValid(b) ==
  /\ policy[b].state = "frozen"
  /\ policy[b].pred # None =>
       /\ Carriable(policy[b].pred)
       /\ Carry(policy[b].pred) =
            [pred |-> policy[b].pred, count |-> policy[b].count, spent |-> policy[b].spent]
       /\ lock = [state |-> "held", pred |-> policy[b].pred, succ |-> b]

--------------------------------------------------------------------------------
(* Opening a ledger: prepare_approved_policy_batch *)

Leave(p) ==
  /\ pc' = [pc EXCEPT ![p] = "idle"]
  /\ at' = [at EXCEPT ![p] = Nowhere]
  /\ offer' = [offer EXCEPT ![p] = NoOffer]
  /\ step' = [step EXCEPT ![p] = NoStep]

Prepare(p, b, pred) ==
  /\ pc[p] = "idle" /\ pred # b
  /\ RegistryValid(b) /\ Claimed(b) = {} /\ Closed(b) = {}
  /\ pc' = [pc EXCEPT ![p] = "preparing"]
  /\ at' = [at EXCEPT ![p].batch = b]
  /\ offer' = [offer EXCEPT ![p].pred = pred]
  /\ UNCHANGED <<files, step, provider>>

(* Mutant: the carry is taken from a predecessor that has not stopped. *)
DerivesFrom_Running(b) == policy[b].state = "frozen" /\ policy[b].pred = None

DerivesFrom(b) == Carriable(b)

(* The predecessor is read under its own lock, which is then released. *)
DeriveCarry(p) ==
  /\ pc[p] = "preparing"
  /\ LET pred == offer[p].pred IN
       IF pred = None THEN UNCHANGED offer
       ELSE /\ DerivesFrom(pred)
            /\ offer' = [offer EXCEPT ![p] = Carry(pred)]
  /\ pc' = [pc EXCEPT ![p] = "opening"]
  /\ UNCHANGED <<files, at, step, provider>>

(* Mutant: an existing successor lock is replaced. *)
CanLock_Replace == TRUE

CanLock == lock.state = "none"

(* The lock of the predecessor is written first, then the directories and  *)
(* last policy.json; an interruption leaves what was written before it.    *)
OpenLedger(p) ==
  /\ pc[p] = "opening"
  /\ LET b == at[p].batch
         pred == offer[p].pred
         held == [state |-> "held", pred |-> pred, succ |-> b]
     IN /\ policy[b].state = "none"
        /\ offer[p].count <= MaxRequests /\ offer[p].spent <= MaxUsd
        /\ pred # None => CanLock
        /\ \/ /\ policy' = [policy EXCEPT ![b] =
                   [state |-> "frozen", pred |-> pred,
                    count |-> offer[p].count, spent |-> offer[p].spent]]
              /\ lock' = IF pred = None THEN lock ELSE held
           \/ /\ policy' = [policy EXCEPT ![b].state = "dirs"]
              /\ lock' = IF pred = None THEN lock ELSE held
           \/ /\ pred # None
              /\ lock' \in {held, [state |-> "torn", pred |-> None, succ |-> None]}
              /\ UNCHANGED policy
  /\ Leave(p)
  /\ UNCHANGED <<claim, outcome, run, entry, spent, provider>>

--------------------------------------------------------------------------------
(* Claiming a cell *)

CanAfford(b) ==
  /\ RequestCount(b) < MaxRequests
  /\ Spent(b) + Held(b) + Reservation <= MaxUsd

(* run_next_approved_policy_cell reads the ledger once before it claims;   *)
(* what it also reads of the registry, the claim checks again.             *)
Admit(p, b, mode) ==
  /\ pc[p] = "idle" /\ mode \in {"scripted", "live"}
  /\ PolicyValid(b) /\ RecordsValid(b) /\ SummaryValid(b)
  /\ LedgerState(b) = "open"
  /\ mode = "live" => policy[b].pred # None /\ policy[b].count > 0
  /\ CanAfford(b)
  /\ pc' = [pc EXCEPT ![p] = "admitted"]
  /\ at' = [at EXCEPT ![p].batch = b, ![p].mode = mode]
  /\ UNCHANGED <<files, offer, step, provider>>

(* run_next_offline_policy_cell looks for spend/ without the lock. *)
AdmitOffline(p, b) ==
  /\ pc[p] = "idle" /\ "offline" \in Modes
  /\ policy[b].state = "none"
  /\ pc' = [pc EXCEPT ![p] = "admitted"]
  /\ at' = [at EXCEPT ![p].batch = b, ![p].mode = "offline"]
  /\ UNCHANGED <<files, offer, step, provider>>

(* Mutant: an unresolved claim does not hold back the next cell. *)
Claimable_Unresolved(b, c) ==
  /\ RegistryValid(b) /\ ~Halted(b)
  /\ c \notin Claimed(b) /\ 1..(c - 1) \subseteq Claimed(b)
  /\ run[b][c].state = "absent"

(* Mutant: a halted batch goes on. *)
Claimable_Halted(b, c) ==
  /\ RegistryValid(b) /\ Claimed(b) = Closed(b)
  /\ c \notin Claimed(b) /\ 1..(c - 1) \subseteq Claimed(b)
  /\ run[b][c].state = "absent"

Claimable(b, c) ==
  /\ RegistryValid(b) /\ ~Halted(b) /\ Claimed(b) = Closed(b)
  /\ c \notin Claimed(b) /\ 1..(c - 1) \subseteq Claimed(b)
  /\ run[b][c].state = "absent"

Claim(p, c) ==
  /\ pc[p] = "admitted"
  /\ LET b == at[p].batch IN
       /\ Claimable(b, c)
       /\ \/ /\ claim' = [claim EXCEPT ![b][c] = "ticket"]
             /\ pc' = [pc EXCEPT ![p] = "claimed"]
             /\ at' = [at EXCEPT ![p].cell = c]
             /\ UNCHANGED <<offer, step>>
          \/ /\ claim' = [claim EXCEPT ![b][c] = "torn"]
             /\ Leave(p)
  /\ UNCHANGED <<outcome, run, policy, entry, spent, lock, provider>>

--------------------------------------------------------------------------------
(* Running a cell: _run_policy_arm_core and the metered provider *)

Start(p) ==
  /\ pc[p] = "claimed"
  /\ run[at[p].batch][at[p].cell].state = "absent"
  /\ run' = [run EXCEPT ![at[p].batch][at[p].cell].state = "open"]
  /\ pc' = [pc EXCEPT ![p] = "running"]
  /\ UNCHANGED <<claim, outcome, policy, entry, spent, lock, at, offer, step, provider>>

(* Mutant: the arm's limit is compared after the decision was counted. *)
MoreDecisions_Inclusive(p) == step[p].decision <= ArmRequests[at[p].cell]

MoreDecisions(p) == step[p].decision < ArmRequests[at[p].cell]

(* dispatch() records its own reservation and calls the provider. *)
NextDecision(p) ==
  /\ pc[p] = "running" /\ at[p].mode # "offline"
  /\ MoreDecisions(p)
  /\ pc' = [pc EXCEPT ![p] = "reserving"]
  /\ step' = [step EXCEPT ![p].decision = @ + 1, ![p].reply = "none", ![p].cost = 0]
  /\ UNCHANGED <<files, at, offer, provider>>

Concludes(p, verdict) ==
  /\ step' = [step EXCEPT ![p].verdict = verdict]
  /\ pc' = [pc EXCEPT ![p] = "finishing"]

(* A failure whose usage is known stops the batch, unless the batch goes   *)
(* on after a known contract error of an identified model.                 *)
ContractVerdict(b) ==
  {"halted_contract"} \cup (IF b \in Lenient THEN {"failed_contract"} ELSE {})

(* The arm ends: with an answer, or because the runner refuses one (or     *)
(* refuses to go on) after requests that were all answered and settled.    *)
Conclude(p) ==
  /\ pc[p] = "running" /\ at[p].mode # "offline"
  /\ \/ step[p].decision = 0 /\ Concludes(p, "halted_unknown")
     \/ /\ step[p].decision > 0
        /\ \E verdict \in ContractVerdict(at[p].batch) : Concludes(p, verdict)
     \/ /\ step[p].decision > 0
        /\ ArmRequests[at[p].cell] \in {3, step[p].decision}
        /\ Concludes(p, "completed")
  /\ UNCHANGED <<files, at, offer, provider>>

(* Mutant: the reservation itself is not added to what is held. *)
CanReserve_Held(b, k) ==
  /\ PolicyValid(b) /\ RecordsValid(b) /\ SummaryValid(b)
  /\ claim[b][k[1]] = "ticket" /\ entry[b][k].res = "none"
  /\ LedgerState(b) = "open"
  /\ \A d \in 1..(k[2] - 1) : <<k[1], d>> \in Settled(b)
  /\ RequestCount(b) < MaxRequests
  /\ Spent(b) + Held(b) <= MaxUsd

(* reserve_spend *)
CanReserve(b, k) ==
  /\ PolicyValid(b) /\ RecordsValid(b) /\ SummaryValid(b)
  /\ claim[b][k[1]] = "ticket" /\ entry[b][k].res = "none"
  /\ LedgerState(b) = "open"
  /\ \A d \in 1..(k[2] - 1) : <<k[1], d>> \in Settled(b)
  /\ CanAfford(b)

Reserve(p) ==
  /\ pc[p] = "reserving"
  /\ CanReserve(at[p].batch, Key(p))
  /\ entry' = [entry EXCEPT ![at[p].batch][Key(p)].res = "held"]
  /\ pc' = [pc EXCEPT ![p] = "posting"]
  /\ UNCHANGED <<claim, outcome, run, policy, spent, lock, at, offer, step, provider>>

(* The reservation is refused, or its write raises before, within or after *)
(* the file: nothing is sent and the runner closes the decision with an    *)
(* unknown response.                                                       *)
ReserveFails(p) ==
  /\ pc[p] = "reserving"
  /\ \/ UNCHANGED entry
     \/ /\ CanReserve(at[p].batch, Key(p))
        /\ \E res \in {"torn", "held"} :
             entry' = [entry EXCEPT ![at[p].batch][Key(p)].res = res]
  /\ Concludes(p, "halted_unknown")
  /\ UNCHANGED <<claim, outcome, run, policy, spent, lock, at, offer, provider>>

(* What the provider may answer to a request it charges bill for: usage is *)
(* truthful, or missing or unusable (cost 0).  "billed" is an error with   *)
(* matching billing evidence, "silent" an error without.                   *)
Exchange(bill) ==
  {[reply |-> r, cost |-> 0] : r \in {"answered", "incomplete", "foreign", "silent"}}
  \cup (IF bill = 0 THEN {}
        ELSE {[reply |-> r, cost |-> bill] : r \in {"answered", "incomplete", "billed"}})

(* Mutant: a silent failure is tried again at once. *)
AfterPost_Retry(reply) == IF reply = "silent" THEN "posting" ELSE "settling"

AfterPost(reply) == "settling"

Post(p) ==
  /\ pc[p] = "posting"
  /\ \E bill \in Costs \cup {0} : \E x \in Exchange(bill) :
       /\ billed' = [billed EXCEPT ![at[p].batch] = @ + bill]
       /\ step' = [step EXCEPT ![p].reply = x.reply, ![p].cost = x.cost]
       /\ pc' = [pc EXCEPT ![p] = AfterPost(x.reply)]
  /\ sent' = [sent EXCEPT ![at[p].batch][Key(p)] = @ + 1]
  /\ UNCHANGED <<files, at, offer>>

(* _finish *)
CanFinish(b, k) ==
  /\ PolicyValid(b) /\ RecordsValid(b)
  /\ entry[b][k].res = "held" /\ entry[b][k].out = "none"
  /\ Answered(b) = Settled(b)

(* Mutant: usage that cannot be trusted settles as free of charge. *)
SpendOutcome_Free(s) == IF s.reply \in {"foreign", "silent"} THEN "unknown" ELSE "settled"

(* The outcome settle_spend or mark_spend_unknown writes. *)
SpendOutcome(s) ==
  IF s.reply \in {"foreign", "silent"} THEN "unknown"
  ELSE IF s.cost \in 1..Reservation THEN "settled" ELSE "usage_unknown"

(* What the runner's evidence says of a cell that ends with this reply:    *)
(* its record may not fit, the model may show no or another fingerprint,   *)
(* and a failure with known usage is a contract failure; accounted says    *)
(* that the ledger confirmed the settlement.                               *)
FailureVerdicts(b, s, accounted) ==
  {"halted_unknown"}
  \cup (IF s.reply \in {"answered", "incomplete", "foreign"}
        THEN {"halted_model_drift"} ELSE {})
  \cup (IF s.cost = 0 \/ (s.reply = "answered" /\ accounted) THEN {}
        ELSE IF s.reply = "incomplete" /\ accounted THEN ContractVerdict(b)
        ELSE {"halted_contract"})

WriteOutcome(b, k, s) ==
  LET charge == IF SpendOutcome(s) = "settled" THEN s.cost ELSE 0 IN
    /\ entry' = [entry EXCEPT ![b][k].out = SpendOutcome(s), ![b][k].charge = charge]
    /\ spent' = [spent EXCEPT ![b] = @ + charge]

Settle(p) ==
  /\ pc[p] = "settling"
  /\ CanFinish(at[p].batch, Key(p))
  /\ WriteOutcome(at[p].batch, Key(p), step[p])
  /\ \/ /\ SpendOutcome(step[p]) = "settled" /\ step[p].reply = "answered"
        /\ pc' = [pc EXCEPT ![p] = "running"]
        /\ UNCHANGED step
     \/ \E verdict \in FailureVerdicts(at[p].batch, step[p], SpendOutcome(step[p]) = "settled") :
          Concludes(p, verdict)
  /\ UNCHANGED <<claim, outcome, run, policy, lock, at, offer, provider>>

(* Mutant: a settlement that failed lets the runner go on. *)
Unaccounted_Ignored(p) ==
  \/ /\ step[p].reply = "answered"
     /\ pc' = [pc EXCEPT ![p] = "running"]
     /\ UNCHANGED step
  \/ \E verdict \in FailureVerdicts(at[p].batch, step[p], FALSE) : Concludes(p, verdict)

Unaccounted(p) ==
  \E verdict \in FailureVerdicts(at[p].batch, step[p], FALSE) : Concludes(p, verdict)

(* The settlement is refused, or its write raises before, within or after  *)
(* the file; the runner takes the request for unaccounted.                 *)
SettleFails(p) ==
  /\ pc[p] = "settling"
  /\ \/ UNCHANGED <<entry, spent>>
     \/ /\ CanFinish(at[p].batch, Key(p))
        /\ entry' = [entry EXCEPT ![at[p].batch][Key(p)].out = "torn"]
        /\ UNCHANGED spent
     \/ /\ CanFinish(at[p].batch, Key(p))
        /\ WriteOutcome(at[p].batch, Key(p), step[p])
  /\ Unaccounted(p)
  /\ UNCHANGED <<claim, outcome, run, policy, lock, at, offer, provider>>

(* result.json *)
Finish(p) ==
  /\ pc[p] = "finishing"
  /\ run' = [run EXCEPT ![at[p].batch][at[p].cell] =
       [state |-> "finished", requests |-> step[p].decision,
        offline |-> FALSE, verdict |-> step[p].verdict]]
  /\ pc' = [pc EXCEPT ![p] = "recording"]
  /\ UNCHANGED <<claim, outcome, policy, entry, spent, lock, at, offer, step, provider>>

(* An arm run against a fixture sends nothing and meets no ledger. *)
RunOffline(p) ==
  /\ pc[p] = "running" /\ at[p].mode = "offline"
  /\ \E n \in 0..ArmRequests[at[p].cell], verdict \in OutcomeState :
       /\ n = 0 => verdict = "halted_unknown"
       /\ verdict = "failed_contract" => at[p].batch \in Lenient
       /\ verdict = "completed" => ArmRequests[at[p].cell] \in {3, n}
       /\ run' = [run EXCEPT ![at[p].batch][at[p].cell] =
            [state |-> "finished", requests |-> n, offline |-> TRUE, verdict |-> verdict]]
  /\ pc' = [pc EXCEPT ![p] = "recording"]
  /\ UNCHANGED <<claim, outcome, policy, entry, spent, lock, at, offer, step, provider>>

--------------------------------------------------------------------------------
(* Closing a cell: record_policy_cell *)

(* The first fingerprint a closed cell showed is pinned for the batch. *)
Pinned(b) == \E c \in Cells : outcome[b][c] \in {"completed", "failed_contract"}

Record(p) ==
  /\ pc[p] = "recording"
  /\ LET b == at[p].batch
         c == at[p].cell
     IN /\ RegistryValid(b) /\ ~Halted(b)
        /\ claim[b][c] = "ticket" /\ outcome[b][c] = "none"
        /\ run[b][c].state = "finished"
        /\ \E state \in {run[b][c].verdict, "torn"}
                 \cup (IF Pinned(b) THEN {"halted_model_drift"} ELSE {}) :
             outcome' = [outcome EXCEPT ![b][c] = state]
  /\ Leave(p)
  /\ UNCHANGED <<claim, run, policy, entry, spent, lock, provider>>

(* A process is killed, a check it makes fails, or a write outside the     *)
(* sections above raises: nothing it has written is taken back.            *)
Abort(p) ==
  /\ pc[p] # "idle"
  /\ Leave(p)
  /\ UNCHANGED <<files, provider>>

--------------------------------------------------------------------------------

Next ==
  \E p \in Processes :
    \/ \E b \in Batches :
         \/ \E pred \in Batches \cup {None} : Prepare(p, b, pred)
         \/ \E mode \in Modes : Admit(p, b, mode)
         \/ AdmitOffline(p, b)
    \/ DeriveCarry(p) \/ OpenLedger(p)
    \/ \E c \in Cells : Claim(p, c)
    \/ Start(p) \/ NextDecision(p) \/ Conclude(p)
    \/ Reserve(p) \/ ReserveFails(p) \/ Post(p) \/ Settle(p) \/ SettleFails(p)
    \/ Finish(p) \/ RunOffline(p) \/ Record(p) \/ Abort(p)

Spec == Init /\ [][Next]_vars

--------------------------------------------------------------------------------
(* Properties *)

Frozen(b) == policy[b].state = "frozen"

(* A ledger never authorises more than its approval: settled charges, full *)
(* reservations of everything unsettled and what was carried fit in        *)
(* max_usd, and requests, carried ones included, in max_requests.          *)
WithinBudget == \A b \in Batches : Frozen(b) => SummaryValid(b)

(* What the provider really charges a batch and the predecessor whose      *)
(* budget it shares stays within max_usd, also for requests whose outcome  *)
(* was lost, and a batch without a ledger costs nothing.                   *)
BilledWithinBudget ==
  \A b \in Batches :
    IF Frozen(b)
    THEN billed[b] + (IF policy[b].pred = None THEN 0 ELSE billed[policy[b].pred]) <= MaxUsd
    ELSE billed[b] = 0

(* deepseek_policy_spend.py: every dispatch follows a durable reservation, *)
(* and no request is ever sent twice, whoever crashed in between.          *)
SentOnceReserved ==
  \A b \in Batches : \A k \in Keys :
    sent[b][k] <= 1 /\ (sent[b][k] = 1 => entry[b][k].res = "held")

(* run_deepseek_policy_live.py: "no retry or parallel dispatch".  Two      *)
(* processes never both work on claimed cells of one batch.                *)
AtWork(p) == pc[p] \notin {"idle", "preparing", "opening", "admitted"}

OneAtWork ==
  \A p, q \in Processes :
    AtWork(p) /\ AtWork(q) /\ at[p].batch = at[q].batch => p = q

(* The registry and the ledger are written by different code from          *)
(* different evidence and agree: a metered cell the batch goes on after    *)
(* has exactly its attempted requests settled.                             *)
ClosedMeansSettled ==
  \A b \in Batches : \A c \in Cells :
    outcome[b][c] \in {"completed", "failed_contract"} /\ ~run[b][c].offline =>
      \A k \in Keys : k[1] = c =>
        (k \in Settled(b)) = (k[2] <= run[b][c].requests) /\
        (k \in Reserved(b)) = (k[2] <= run[b][c].requests)

(* "cumulative-successor-lock": the budget of a stopped batch is continued *)
(* by at most one other batch.                                             *)
OneSuccessor ==
  \A a, b \in Batches :
    Frozen(a) /\ Frozen(b) /\ policy[a].pred = policy[b].pred /\ policy[a].pred # None => a = b

(* No sequence of operations and deaths makes the files refuse themselves: *)
(* unless a write was torn, the registry and the ledger parse, the summary *)
(* is the sum of the entries, and a carry still equals what the            *)
(* predecessor's files say.                                                *)
Torn(b) ==
  \/ \E c \in Cells : claim[b][c] = "torn" \/ outcome[b][c] = "torn"
  \/ \E k \in Keys : entry[b][k].res = "torn" \/ entry[b][k].out = "torn"

FilesReadable ==
  \A b \in Batches :
    /\ ~Torn(b) => RegistryValid(b) /\ RecordsValid(b)
    /\ Frozen(b) => PolicyValid(b)
    /\ spent[b] = SumFunction([k \in Keys |-> entry[b][k].charge])

(* Once a batch has stopped, by a halted cell, an unknown or unusable      *)
(* outcome or an unreadable file, nothing of it is ever sent again.        *)
Stopped(b) == Torn(b) \/ Halted(b) \/ Answered(b) # Settled(b)

NoPostAfterStop ==
  [][\A b \in Batches : Stopped(b) => sent'[b] = sent[b]]_vars

(* deepseek_policy_batch_entry.py: "A fixture cannot ... run in a          *)
(* live-policy batch."  No offline cell belongs to a batch with a ledger.  *)
NoFixtureInLiveBatch ==
  \A p \in Processes :
    AtWork(p) /\ at[p].mode = "offline" => ~Frozen(at[p].batch)

================================================================================
