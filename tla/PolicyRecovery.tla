----------------------------- MODULE PolicyRecovery -----------------------------
\* Continuing a stopped paid batch (macr/evals/deepseek_policy_recovery.py with the
\* opening of the ledger in deepseek_policy_spend.py).  A batch that stopped over an
\* unknown bill keeps that money reserved for ever; a plan derived from its files lets
\* one new batch run the cells nobody has tried, within the same approval, at most three
\* times in a row.  PolicySpend holds what happens inside a cell.
EXTENDS Naturals, FiniteSets, FiniteSetsExt, Functions

CONSTANTS
  Sheets,       \* the logical cells (task, repeat, arm), as positions of the frozen order
  MaxControls,  \* bound: control directories below one authorization root
  MaxPilots,    \* bound: batches among them that continue nothing or carry a settled one
  MaxRequests, MaxUsd, Reservation, Costs

VARIABLES
  batch,   \* batch.json: its plan and the direction in which the order is run
  ledger,  \* spend/: whether policy.json is there, and what it carries of whom
  trial,   \* each logical cell in each batch: unclaimed, claimed or how it closed
  paid,    \* the settled charges of a batch
  locks    \* at 0 the successor lock, at 1..3 the locks of the recoveries

Controls == 1..MaxControls
Nobody == 0
Torn == MaxControls + 1   \* a lock file whose write was interrupted
NoPlan == [level |-> 0, source |-> Nobody, count |-> 0, spent |-> 0, held |-> 0,
           eligible |-> Sheets, excluded |-> {}]

PilotsInit ==
  /\ batch = [c \in Controls |-> [state |-> "none", plan |-> NoPlan, order |-> "up"]]
  /\ ledger = [c \in Controls |-> [state |-> "none", pred |-> Nobody, count |-> 0, spent |-> 0]]
  /\ trial = [c \in Controls |-> [s \in Sheets |-> "none"]]
  /\ paid = [c \in Controls |-> 0]
  /\ locks = [slot \in 0..3 |-> Nobody]

----------------------------------------------------------------------------
\* Reading a batch

Level(c) == batch[c].plan.level
Claimed(c) == {s \in Sheets : trial[c][s] # "none"}
Ended(c, how) == {s \in Sheets : trial[c][s] = how}
Open(c) == {s \in Sheets : trial[c][s] \in {"claimed", "unknown"}}

\* _summary: the opening of a plan or of a carry, and the batch's own entries.
Count(c) == batch[c].plan.count + ledger[c].count + Cardinality(Claimed(c))
Spent(c) == batch[c].plan.spent + ledger[c].spent + paid[c]
Held(c) == batch[c].plan.held + Reservation * Cardinality(Open(c))

\* A contract failure stops a batch unless CELL_FAILURE_POLICY is bound, which only the
\* last continuation does.
Halted(c) == Ended(c, "unknown") # {} \/ (Level(c) < 3 /\ Ended(c, "contract") # {})
Stopped(c) == Claimed(c) # {} /\ Ended(c, "claimed") = {} /\ Halted(c)

\* _derive_carry: a stopped batch that carries nothing and owes nothing.
Carriable(c) ==
  /\ ledger[c].state = "open" /\ Level(c) = 0 /\ ledger[c].pred = Nobody
  /\ Stopped(c) /\ Ended(c, "unknown") = {}

\* _source and _source_recovery: what a plan derives from the files of its source.
Excluded(c) ==
  batch[c].plan.excluded \union Claimed(c)
    \union (IF ledger[c].pred = Nobody THEN {} ELSE Claimed(ledger[c].pred))
Plan(c) ==
  [level |-> Level(c) + 1, source |-> c, count |-> Count(c), spent |-> Spent(c), held |-> Held(c),
   eligible |-> batch[c].plan.eligible \ Excluded(c), excluded |-> Excluded(c)]

\* The first two continue after an unknown bill, the third only after a settled stop.
StoppedAs(c) == IF Level(c) = 2 THEN Ended(c, "unknown") = {} ELSE Ended(c, "unknown") # {}

Source(c) ==
  /\ Level(c) < 3 /\ Stopped(c) /\ StoppedAs(c)
  /\ Plan(c).eligible # {}

\* _policy: a ledger is read only if what it continues can be derived again, unchanged,
\* down to the first batch, and the lock names this batch.
Readable[level \in 0..3] ==
  {c \in Controls :
     /\ Level(c) = level /\ ledger[c].state = "open"
     /\ level > 0 =>
          LET source == batch[c].plan.source
          IN  /\ source \in Readable[level - 1] /\ Source(source)
              /\ batch[c].plan = Plan(source)
              /\ locks[level] = c
     /\ ledger[c].pred # Nobody =>
          LET pred == ledger[c].pred
          IN  /\ Carriable(pred)
              /\ ledger[c].count = Count(pred) /\ ledger[c].spent = Spent(pred)
              /\ locks[0] = c}
PolicyValid(c) == c \in Readable[Level(c)]

----------------------------------------------------------------------------
\* Freezing a batch and opening its ledger

Pilots == {c \in Controls : batch[c].state # "none" /\ Level(c) = 0}

\* prepare_policy_batch: new directories are taken in order, their names mean nothing.
Freeze(c) ==
  /\ batch[c].state = "none" /\ \A d \in 1..(c - 1) : batch[d].state # "none"
  /\ \E order \in {"up", "down"} :
       \/ /\ Cardinality(Pilots) < MaxPilots
          /\ batch' = [batch EXCEPT ![c] = [state |-> "frozen", plan |-> NoPlan, order |-> order]]
       \/ \E s \in Controls :
            /\ PolicyValid(s) /\ Source(s)
            /\ \/ batch' = [batch EXCEPT ![c] = [state |-> "frozen", plan |-> Plan(s), order |-> order]]
               \/ batch' = [batch EXCEPT ![c].state = "dirs"]
  /\ UNCHANGED <<ledger, trial, paid, locks>>

\* Mutant: a lock that is already there is taken over.
SlotFree_Replace(slot) == TRUE

SlotFree(slot) == locks[slot] = Nobody

\* initialize_spend_ledger writes the lock of what it continues, then the directories and
\* last policy.json; a death leaves what was written before it.
OpenLedger(c, slot, pred, count, spent) ==
  \/ /\ ledger' = [ledger EXCEPT ![c] = [state |-> "open", pred |-> pred, count |-> count, spent |-> spent]]
     /\ locks' = IF slot \in DOMAIN locks THEN [locks EXCEPT ![slot] = c] ELSE locks
  \/ /\ ledger' = [ledger EXCEPT ![c].state = "dirs"]
     /\ locks' = IF slot \in DOMAIN locks THEN [locks EXCEPT ![slot] = c] ELSE locks
  \/ /\ slot \in DOMAIN locks
     /\ \E left \in {c, Torn} : locks' = [locks EXCEPT ![slot] = left]
     /\ UNCHANGED ledger

Initialize(c) ==
  /\ batch[c].state = "frozen" /\ ledger[c].state = "none"
  /\ \/ /\ Level(c) = 0 /\ OpenLedger(c, 4, Nobody, 0, 0)
     \/ /\ Level(c) = 0 /\ SlotFree(0)
        /\ \E pred \in Controls \ {c} :
             /\ Carriable(pred)
             /\ Count(pred) <= MaxRequests /\ Spent(pred) <= MaxUsd
             /\ OpenLedger(c, 0, pred, Count(pred), Spent(pred))
     \/ /\ Level(c) > 0 /\ SlotFree(Level(c))
        /\ LET source == batch[c].plan.source
           IN  PolicyValid(source) /\ Source(source) /\ batch[c].plan = Plan(source)
        /\ OpenLedger(c, Level(c), Nobody, 0, 0)
  /\ UNCHANGED <<batch, trial, paid>>

----------------------------------------------------------------------------
\* Running the cells, at the grain a plan sees: one request each

\* Mutant: what the batch continues is not counted against the approval.
Affords_Anew(c) ==
  /\ Cardinality(Claimed(c)) < MaxRequests
  /\ paid[c] + Reservation <= MaxUsd

Affords(c) ==
  /\ Count(c) < MaxRequests
  /\ Spent(c) + Held(c) + Reservation <= MaxUsd

\* The next cell in the frozen order is claimed and its request reserved.
Begin(c) ==
  /\ PolicyValid(c)
  /\ ~Halted(c) /\ Ended(c, "claimed") = {} /\ Affords(c)
  /\ LET rest == batch[c].plan.eligible \ Claimed(c)
     IN  /\ rest # {}
         /\ LET next == IF batch[c].order = "up" THEN Min(rest) ELSE Max(rest)
            IN  trial' = [trial EXCEPT ![c][next] = "claimed"]
  /\ UNCHANGED <<batch, ledger, paid, locks>>

\* It is settled and the cell closed, or the bill stays unknown; a death leaves it claimed.
Close(c, s) ==
  /\ trial[c][s] = "claimed"
  /\ \/ \E how \in {"completed", "contract"}, cost \in Costs :
          /\ trial' = [trial EXCEPT ![c][s] = how]
          /\ paid' = [paid EXCEPT ![c] = @ + cost]
     \/ /\ trial' = [trial EXCEPT ![c][s] = "unknown"]
        /\ UNCHANGED paid
  /\ UNCHANGED <<batch, ledger, locks>>

PilotsNext ==
  \E c \in Controls : Freeze(c) \/ Initialize(c) \/ Begin(c) \/ \E s \in Sheets : Close(c, s)

----------------------------------------------------------------------------
Continues(c) == IF Level(c) > 0 THEN batch[c].plan.source ELSE ledger[c].pred
OpenLedgers == {c \in Controls : ledger[c].state = "open"}
\* What a batch continues, directly or not: the least set with it that lacks nobody.
Unbroken(line) == \A d \in line : Continues(d) # Nobody => Continues(d) \in line
Lineage(c) == {d \in Controls : \A line \in SUBSET Controls : c \in line /\ Unbroken(line) => d \in line}

\* No batch is continued by two others, by carrying or by recovery, whichever died while
\* it was being opened.
OneContinuation ==
  \A c, d \in OpenLedgers : c # d /\ Continues(c) # Nobody => Continues(c) # Continues(d)

\* No logical cell is tried again by a recovery, in any batch of its line.
NoCellTriedAgain ==
  \A c \in OpenLedgers : Level(c) > 0 =>
    \A d \in Lineage(c) \ {c} : Claimed(c) \intersect Claimed(d) = {}

\* All batches of a line together keep the one approval: what they paid, and every
\* reservation whose bill is unknown, for ever.
Kept(d) == paid[d] + Reservation * Cardinality(Open(d))
LineWithinApproval ==
  \A c \in OpenLedgers :
    /\ SumFunction([d \in Lineage(c) |-> Kept(d)]) <= MaxUsd
    /\ SumFunction([d \in Lineage(c) |-> Cardinality(Claimed(d))]) <= MaxRequests

\* A ledger that was opened stays readable: nothing it was derived from can move, and
\* whoever died after taking the lock, its owner still finds it.
OpenedStaysReadable == \A c \in OpenLedgers : PolicyValid(c)

ContinuedWithin ==
  OneContinuation /\ NoCellTriedAgain /\ LineWithinApproval /\ OpenedStaysReadable
=============================================================================
