--------------------------- MODULE PolicySpendProofs ---------------------------
(***************************************************************************)
(* Proofs about PolicySpend, for every set of batches, processes and       *)
(* requests and every approval.                                            *)
(***************************************************************************)
EXTENDS PolicySpend, SumFacts

--------------------------------------------------------------------------------
(* Types of the operators *)

(* There are finitely many requests, so every set of them has a cardinality. *)
LEMMA KeysFinite == IsFiniteSet(Keys)
<1>1. IsFiniteSet(Cells)
  <2>1. 1 \in Int /\ CellCount \in Int
    BY SpendAssumption
  <2>2. IsFiniteSet(1..CellCount)
    BY <2>1, FS_Interval
  <2> QED BY <2>2 DEF Cells
<1>2. IsFiniteSet(1..3)
  <2>1. 1 \in Int /\ 3 \in Int
    OBVIOUS
  <2> QED BY <2>1, FS_Interval
<1>3. IsFiniteSet(Cells \X (1..3))
  BY <1>1, <1>2, FS_Product
<1>4. Keys \subseteq Cells \X (1..3)
  BY DEF Keys
<1> QED BY <1>3, <1>4, FS_Subset

LEMMA CardinalityOfKeys ==
  ASSUME NEW S \in SUBSET Keys
  PROVE  IsFiniteSet(S) /\ Cardinality(S) \in Nat
BY KeysFinite, FS_Subset, FS_CardinalityType

LEMMA CarryType ==
  ASSUME TypeOK, NEW b \in Batches
  PROVE  Carry(b) \in [pred: Batches \cup {None}, count: Nat, spent: Nat]
<1>1. Cardinality(Reserved(b)) \in Nat
  BY CardinalityOfKeys DEF Reserved
<1>2. spent[b] \in Nat
  BY DEF TypeOK
<1> QED BY <1>1, <1>2 DEF Carry

(* The locals of one process, and where they let it be. *)
At == [batch: Batches \cup {None}, cell: 0..CellCount, mode: {"offline", "scripted", "live"}]
Offer == [pred: Batches \cup {None}, count: Nat, spent: Nat]
Step == [decision: 0..3, reply: Reply, cost: Costs \cup {0}, verdict: OutcomeState \cup {"none"}]

Place(n, a, s) ==
  /\ n # "idle" => a.batch \in Batches
  /\ n \notin {"idle", "preparing", "opening", "admitted"} => a.cell \in Cells
  /\ n \in {"reserving", "posting", "settling"} => <<a.cell, s.decision>> \in Keys
  /\ n = "finishing" => s.verdict # "none"

LocalsOK ==
  /\ pc \in [Processes -> PC]
  /\ at \in [Processes -> At]
  /\ offer \in [Processes -> Offer]
  /\ step \in [Processes -> Step]
  /\ \A p \in Processes : Place(pc[p], at[p], step[p])

FilesOK ==
  /\ claim \in [Batches -> [Cells -> {"none", "torn", "ticket"}]]
  /\ outcome \in [Batches -> [Cells -> {"none", "torn"} \cup OutcomeState]]
  /\ run \in [Batches -> [Cells -> Run]]
  /\ policy \in [Batches -> Policy]
  /\ entry \in [Batches -> [Keys -> Entry]]
  /\ spent \in [Batches -> Nat]
  /\ lock \in Lock

ProviderOK ==
  /\ sent \in [Batches -> [Keys -> Nat]]
  /\ billed \in [Batches -> Nat]

LEMMA TypeParts == TypeOK <=> FilesOK /\ LocalsOK /\ ProviderOK
BY DEF TypeOK, FilesOK, LocalsOK, ProviderOK, Place, At, Offer, Step, Key

(* One process moves. *)
LEMMA MoveType ==
  ASSUME LocalsOK, NEW p \in Processes,
         NEW n \in PC, NEW a \in At, NEW o \in Offer, NEW s \in Step, Place(n, a, s),
         pc' = [pc EXCEPT ![p] = n], at' = [at EXCEPT ![p] = a],
         offer' = [offer EXCEPT ![p] = o], step' = [step EXCEPT ![p] = s]
  PROVE  LocalsOK'
<1>1. /\ pc' \in [Processes -> PC]
      /\ at' \in [Processes -> At]
      /\ offer' \in [Processes -> Offer]
      /\ step' \in [Processes -> Step]
  BY DEF LocalsOK
<1>2. ASSUME NEW q \in Processes
      PROVE  Place(pc'[q], at'[q], step'[q])
  BY DEF LocalsOK
<1> QED BY <1>1, <1>2 DEF LocalsOK

(* Nobody moves. *)
LEMMA StayType == LocalsOK /\ UNCHANGED locals => LocalsOK'
BY DEF LocalsOK, locals

(* A process gives up, dies or is done. *)
LEMMA LeaveType ==
  ASSUME LocalsOK, NEW p \in Processes, Leave(p)
  PROVE  LocalsOK'
<1>1. "idle" \in PC /\ Nowhere \in At /\ NoOffer \in Offer /\ NoStep \in Step
  BY SpendAssumption DEF PC, Nowhere, NoOffer, NoStep, At, Offer, Step, Reply
<1>2. Place("idle", Nowhere, NoStep)
  BY DEF Place
<1> QED BY <1>1, <1>2, MoveType DEF Leave

(* The runner has its verdict and writes result.json next. *)
LEMMA ConcludesType ==
  ASSUME LocalsOK, NEW p \in Processes, NEW verdict \in OutcomeState,
         pc[p] \in {"running", "reserving", "settling"},
         Concludes(p, verdict), UNCHANGED <<at, offer>>
  PROVE  LocalsOK'
<1> DEFINE s == [step[p] EXCEPT !.verdict = verdict]
<1>1. "finishing" \in PC /\ "none" \notin OutcomeState
  BY DEF PC, OutcomeState, HaltedState
<1>2. at[p] \in At /\ offer[p] \in Offer /\ step[p] \in Step
  BY DEF LocalsOK
<1>3. s \in Step
  BY <1>2 DEF Step
<1>4. Place("finishing", at[p], s)
  <2>1. Place(pc[p], at[p], step[p]) /\ s.verdict = verdict
    BY <1>2 DEF LocalsOK, Step
  <2> QED BY <1>1, <2>1 DEF Place
<1>5. /\ pc' = [pc EXCEPT ![p] = "finishing"]
      /\ at' = [at EXCEPT ![p] = at[p]]
      /\ offer' = [offer EXCEPT ![p] = offer[p]]
      /\ step' = [step EXCEPT ![p] = s]
  BY DEF Concludes, LocalsOK
<1> QED BY <1>1, <1>2, <1>3, <1>4, <1>5, MoveType

(* A process goes on to its next section with its locals. *)
LEMMA AdvanceType ==
  ASSUME LocalsOK, NEW p \in Processes, NEW n \in PC, Place(n, at[p], step[p]),
         pc' = [pc EXCEPT ![p] = n], UNCHANGED <<at, offer, step>>
  PROVE  LocalsOK'
<1>1. at[p] \in At /\ offer[p] \in Offer /\ step[p] \in Step
  BY DEF LocalsOK
<1>2. /\ at' = [at EXCEPT ![p] = at[p]]
      /\ offer' = [offer EXCEPT ![p] = offer[p]]
      /\ step' = [step EXCEPT ![p] = step[p]]
  BY DEF LocalsOK
<1> QED BY <1>1, <1>2, MoveType

--------------------------------------------------------------------------------
(* Types of the files *)

LEMMA EntryUpdate ==
  ASSUME entry \in [Batches -> [Keys -> Entry]],
         NEW b \in Batches, NEW k \in Keys, NEW e \in Entry,
         entry' = [entry EXCEPT ![b] = [entry[b] EXCEPT ![k] = e]]
  PROVE  entry' \in [Batches -> [Keys -> Entry]]
OBVIOUS

(* What an answered request settles for, and what it may settle as. *)
LEMMA OutcomeType ==
  ASSUME NEW s, s.cost \in Costs \cup {0}
  PROVE  /\ SpendOutcome(s) \in {"unknown", "usage_unknown", "settled"}
         /\ (IF SpendOutcome(s) = "settled" THEN s.cost ELSE 0) \in 0..Reservation
         /\ SpendOutcome(s) = "settled" => s.cost # 0
<1>1. Reservation \in Nat /\ Costs \subseteq 1..Reservation
  BY SpendAssumption
<1>2. s.cost \in 0..Reservation
  <2>1. CASE s.cost = 0
    BY <1>1, <2>1
  <2>2. CASE s.cost \in 1..Reservation
    BY <1>1, <2>2
  <2> QED BY <1>1, <2>1, <2>2
<1> QED BY <1>1, <1>2 DEF SpendOutcome

LEMMA ReservationType ==
  ASSUME FilesOK, NEW b \in Batches, NEW k \in Keys, NEW res \in {"torn", "held"},
         entry' = [entry EXCEPT ![b][k].res = res]
  PROVE  entry' \in [Batches -> [Keys -> Entry]]
<1> DEFINE e == [entry[b][k] EXCEPT !.res = res]
<1>1. entry[b][k] \in Entry
  BY DEF FilesOK
<1>2. e \in Entry
  BY <1>1, Zenon DEF Entry
<1>3. entry' = [entry EXCEPT ![b] = [entry[b] EXCEPT ![k] = e]]
  BY DEF FilesOK
<1> QED BY <1>2, <1>3, EntryUpdate DEF FilesOK

LEMMA TornOutcomeType ==
  ASSUME FilesOK, NEW b \in Batches, NEW k \in Keys,
         entry' = [entry EXCEPT ![b][k].out = "torn"]
  PROVE  entry' \in [Batches -> [Keys -> Entry]]
<1> DEFINE e == [entry[b][k] EXCEPT !.out = "torn"]
<1>1. entry[b][k] \in Entry
  BY DEF FilesOK
<1>2. e \in Entry
  BY <1>1 DEF Entry
<1>3. entry' = [entry EXCEPT ![b] = [entry[b] EXCEPT ![k] = e]]
  BY DEF FilesOK
<1> QED BY <1>2, <1>3, EntryUpdate DEF FilesOK

LEMMA WriteOutcomeShape ==
  ASSUME FilesOK, NEW b \in Batches, NEW k \in Keys, NEW s, WriteOutcome(b, k, s)
  PROVE  LET charge == IF SpendOutcome(s) = "settled" THEN s.cost ELSE 0
             e == [entry[b][k] EXCEPT !.out = SpendOutcome(s), !.charge = charge]
         IN /\ entry' = [entry EXCEPT ![b] = [entry[b] EXCEPT ![k] = e]]
            /\ spent' = [spent EXCEPT ![b] = spent[b] + charge]
<1> DEFINE charge == IF SpendOutcome(s) = "settled" THEN s.cost ELSE 0
           e == [entry[b][k] EXCEPT !.out = SpendOutcome(s), !.charge = charge]
<1>1. entry' = [entry EXCEPT ![b] = [entry[b] EXCEPT ![k] = e]]
  BY DEF WriteOutcome, FilesOK
<1>2. spent' = [spent EXCEPT ![b] = spent[b] + charge]
  BY DEF WriteOutcome, FilesOK
<1> QED BY <1>1, <1>2

LEMMA WriteOutcomeType ==
  ASSUME FilesOK, NEW b \in Batches, NEW k \in Keys, NEW s, s.cost \in Costs \cup {0},
         WriteOutcome(b, k, s)
  PROVE  entry' \in [Batches -> [Keys -> Entry]] /\ spent' \in [Batches -> Nat]
<1> DEFINE charge == IF SpendOutcome(s) = "settled" THEN s.cost ELSE 0
           e == [entry[b][k] EXCEPT !.out = SpendOutcome(s), !.charge = charge]
<1>1. /\ SpendOutcome(s) \in {"unknown", "usage_unknown", "settled"}
      /\ charge \in 0..Reservation
  BY OutcomeType
<1>2. entry[b][k] \in Entry
  BY DEF FilesOK
<1>3. e \in Entry
  BY <1>1, <1>2 DEF Entry
<1>4. /\ entry' = [entry EXCEPT ![b] = [entry[b] EXCEPT ![k] = e]]
      /\ spent' = [spent EXCEPT ![b] = spent[b] + charge]
  BY WriteOutcomeShape
<1>5. entry' \in [Batches -> [Keys -> Entry]]
  BY <1>3, <1>4, EntryUpdate DEF FilesOK
<1>6. spent[b] + charge \in Nat
  BY <1>1, SpendAssumption DEF FilesOK
<1> QED BY <1>4, <1>5, <1>6 DEF FilesOK

LEMMA FailureVerdictType ==
  ASSUME NEW b, NEW s, NEW accounted, NEW verdict \in FailureVerdicts(b, s, accounted)
  PROVE  verdict \in OutcomeState
BY DEF FailureVerdicts, ContractVerdict, OutcomeState, HaltedState

--------------------------------------------------------------------------------
(* Type correctness: one step per action, and per part it disturbs. *)

LEMMA OpeningTypes ==
  ASSUME FilesOK, LocalsOK, ProviderOK, NEW p \in Processes,
         \/ \E b \in Batches, pred \in Batches \cup {None} : Prepare(p, b, pred)
         \/ DeriveCarry(p) \/ OpenLedger(p)
  PROVE  FilesOK' /\ LocalsOK' /\ ProviderOK'
<1>1. at[p] \in At /\ offer[p] \in Offer /\ step[p] \in Step /\ Place(pc[p], at[p], step[p])
  BY DEF LocalsOK
<1>2. ASSUME NEW b \in Batches, NEW pred \in Batches \cup {None}, Prepare(p, b, pred)
      PROVE  FilesOK' /\ LocalsOK' /\ ProviderOK'
  <2> DEFINE a == [at[p] EXCEPT !.batch = b]
             o == [offer[p] EXCEPT !.pred = pred]
  <2>1. FilesOK' /\ ProviderOK'
    BY <1>2 DEF Prepare, files, provider, FilesOK, ProviderOK
  <2>2. "preparing" \in PC /\ a \in At /\ o \in Offer
    BY <1>1 DEF PC, At, Offer
  <2>3. Place("preparing", a, step[p])
    BY <1>1 DEF Place, At
  <2>4. /\ pc' = [pc EXCEPT ![p] = "preparing"] /\ at' = [at EXCEPT ![p] = a]
        /\ offer' = [offer EXCEPT ![p] = o] /\ step' = [step EXCEPT ![p] = step[p]]
    BY <1>2 DEF Prepare, LocalsOK
  <2>5. LocalsOK'
    BY <1>1, <2>2, <2>3, <2>4, MoveType
  <2> QED BY <2>1, <2>5
<1>3. CASE DeriveCarry(p)
  <2> DEFINE o == IF offer[p].pred = None THEN offer[p] ELSE Carry(offer[p].pred)
  <2>1. FilesOK' /\ ProviderOK'
    BY <1>3 DEF DeriveCarry, files, provider, FilesOK, ProviderOK
  <2>2. o \in Offer
    <3>1. CASE offer[p].pred = None
      BY <1>1, <3>1
    <3>2. CASE offer[p].pred # None
      <4>1. offer[p].pred \in Batches
        BY <1>1, <3>2 DEF Offer
      <4>2. Carry(offer[p].pred) \in Offer
        BY <4>1, CarryType, TypeParts DEF Offer
      <4> QED BY <3>2, <4>2
    <3> QED BY <3>1, <3>2
  <2>3. "opening" \in PC /\ Place("opening", at[p], step[p])
    BY <1>1, <1>3 DEF DeriveCarry, PC, Place
  <2>4. offer' = [offer EXCEPT ![p] = o]
    <3>1. CASE offer[p].pred = None
      BY <1>3, <3>1 DEF DeriveCarry, LocalsOK
    <3>2. CASE offer[p].pred # None
      BY <1>3, <3>2 DEF DeriveCarry, LocalsOK
    <3> QED BY <3>1, <3>2
  <2>5. /\ pc' = [pc EXCEPT ![p] = "opening"]
        /\ at' = [at EXCEPT ![p] = at[p]] /\ step' = [step EXCEPT ![p] = step[p]]
    BY <1>3 DEF DeriveCarry, LocalsOK
  <2>6. LocalsOK'
    BY <1>1, <2>2, <2>3, <2>4, <2>5, MoveType
  <2> QED BY <2>1, <2>6
<1>4. CASE OpenLedger(p)
  <2> DEFINE b == at[p].batch
             pred == offer[p].pred
             held == [state |-> "held", pred |-> pred, succ |-> b]
             frozen == [state |-> "frozen", pred |-> pred,
                        count |-> offer[p].count, spent |-> offer[p].spent]
  <2>1. b \in Batches /\ pred \in Batches \cup {None}
        /\ offer[p].count \in Nat /\ offer[p].spent \in Nat
    BY <1>1, <1>4 DEF OpenLedger, Place, At, Offer
  <2>2. /\ held \in Lock
        /\ [state |-> "torn", pred |-> None, succ |-> None] \in Lock
        /\ frozen \in Policy
    BY <2>1 DEF Lock, Policy
  <2>3. [policy[b] EXCEPT !.state = "dirs"] \in Policy
    <3>1. policy[b] \in Policy
      BY <2>1 DEF FilesOK
    <3> QED BY <3>1 DEF Policy
  <2>4. lock' \in Lock
    <3>1. \/ lock' = lock \/ lock' = held
          \/ lock' = [state |-> "torn", pred |-> None, succ |-> None]
      BY <1>4 DEF OpenLedger
    <3>2. lock \in Lock
      BY DEF FilesOK
    <3> HIDE DEF held
    <3> QED BY <2>2, <3>1, <3>2
  <2>5. policy' \in [Batches -> Policy]
    <3>1. CASE policy' = [policy EXCEPT ![b] = frozen]
      BY <2>1, <2>2, <3>1 DEF FilesOK
    <3>2. CASE policy' = [policy EXCEPT ![b].state = "dirs"]
      <4>1. policy' = [policy EXCEPT ![b] = [policy[b] EXCEPT !.state = "dirs"]]
        BY <2>1, <3>2 DEF FilesOK
      <4> QED BY <2>1, <2>3, <4>1 DEF FilesOK
    <3>3. CASE UNCHANGED policy
      BY <3>3 DEF FilesOK
    <3> QED BY <1>4, <3>1, <3>2, <3>3 DEF OpenLedger
  <2>6. FilesOK' /\ ProviderOK'
    BY <1>4, <2>4, <2>5 DEF OpenLedger, provider, FilesOK, ProviderOK
  <2>7. LocalsOK'
    BY <1>4, LeaveType DEF OpenLedger
  <2> QED BY <2>6, <2>7
<1> QED BY <1>2, <1>3, <1>4

LEMMA ClaimingTypes ==
  ASSUME FilesOK, LocalsOK, ProviderOK, NEW p \in Processes,
         \/ \E b \in Batches : \E mode \in Modes : Admit(p, b, mode)
         \/ \E b \in Batches : AdmitOffline(p, b)
         \/ \E c \in Cells : Claim(p, c)
         \/ Start(p)
  PROVE  FilesOK' /\ LocalsOK' /\ ProviderOK'
<1>1. at[p] \in At /\ offer[p] \in Offer /\ step[p] \in Step /\ Place(pc[p], at[p], step[p])
  BY DEF LocalsOK
<1>2. ASSUME NEW b \in Batches, NEW mode \in {"offline", "scripted", "live"},
             UNCHANGED <<files, offer, step, provider>>, pc' = [pc EXCEPT ![p] = "admitted"],
             at' = [at EXCEPT ![p].batch = b, ![p].mode = mode]
      PROVE  FilesOK' /\ LocalsOK' /\ ProviderOK'
  <2> DEFINE a == [at[p] EXCEPT !.batch = b, !.mode = mode]
  <2>1. FilesOK' /\ ProviderOK'
    BY <1>2 DEF files, provider, FilesOK, ProviderOK
  <2>2. "admitted" \in PC /\ a \in At
    BY <1>1 DEF PC, At
  <2>3. Place("admitted", a, step[p])
    BY <1>1 DEF Place, At
  <2>4. /\ at' = [at EXCEPT ![p] = a]
        /\ offer' = [offer EXCEPT ![p] = offer[p]] /\ step' = [step EXCEPT ![p] = step[p]]
    BY <1>2 DEF LocalsOK
  <2>5. LocalsOK'
    <3> HIDE DEF a
    <3> QED BY <1>1, <1>2, <2>2, <2>3, <2>4, MoveType
  <2> QED BY <2>1, <2>5
<1>3. ASSUME NEW b \in Batches, NEW mode \in Modes, Admit(p, b, mode)
      PROVE  FilesOK' /\ LocalsOK' /\ ProviderOK'
  BY <1>2, <1>3, SpendAssumption DEF Admit
<1>4. ASSUME NEW b \in Batches, AdmitOffline(p, b)
      PROVE  FilesOK' /\ LocalsOK' /\ ProviderOK'
  BY <1>2, <1>4 DEF AdmitOffline
<1>5. ASSUME NEW c \in Cells, Claim(p, c)
      PROVE  FilesOK' /\ LocalsOK' /\ ProviderOK'
  <2> DEFINE b == at[p].batch
             a == [at[p] EXCEPT !.cell = c]
  <2>1. b \in Batches
    BY <1>1, <1>5 DEF Claim, Place
  <2>2. claim' \in [Batches -> [Cells -> {"none", "torn", "ticket"}]]
    <3>1. PICK state \in {"ticket", "torn"} : claim' = [claim EXCEPT ![b][c] = state]
      BY <1>5 DEF Claim
    <3> QED BY <2>1, <3>1 DEF FilesOK
  <2>3. FilesOK' /\ ProviderOK'
    BY <1>5, <2>2 DEF Claim, provider, FilesOK, ProviderOK
  <2>4. LocalsOK'
    <3>1. CASE Leave(p)
      BY <3>1, LeaveType
    <3>2. CASE /\ pc' = [pc EXCEPT ![p] = "claimed"]
               /\ at' = [at EXCEPT ![p].cell = c]
               /\ UNCHANGED <<offer, step>>
      <4>1. c \in 0..CellCount
        BY SpendAssumption DEF Cells
      <4>2. "claimed" \in PC /\ a \in At
        BY <1>1, <4>1 DEF PC, At
      <4>3. Place("claimed", a, step[p])
        BY <1>1, <2>1 DEF Place, At
      <4>4. /\ at' = [at EXCEPT ![p] = a]
            /\ offer' = [offer EXCEPT ![p] = offer[p]] /\ step' = [step EXCEPT ![p] = step[p]]
        BY <3>2 DEF LocalsOK
      <4> HIDE DEF a
      <4> QED BY <1>1, <3>2, <4>2, <4>3, <4>4, MoveType
    <3> QED BY <1>5, <3>1, <3>2 DEF Claim
  <2> QED BY <2>3, <2>4
<1>6. CASE Start(p)
  <2> DEFINE b == at[p].batch
             c == at[p].cell
             r == [run[b][c] EXCEPT !.state = "open"]
  <2>1. b \in Batches /\ c \in Cells
    BY <1>1, <1>6 DEF Start, Place
  <2>2. r \in Run
    <3>1. run[b][c] \in Run
      BY <2>1 DEF FilesOK
    <3> QED BY <3>1 DEF Run
  <2>3. run' = [run EXCEPT ![b] = [run[b] EXCEPT ![c] = r]]
    BY <1>6, <2>1 DEF Start, FilesOK
  <2>4. FilesOK' /\ ProviderOK'
    BY <1>6, <2>1, <2>2, <2>3 DEF Start, provider, FilesOK, ProviderOK
  <2>5. "running" \in PC /\ Place("running", at[p], step[p])
    BY <1>1, <1>6 DEF Start, PC, Place
  <2>6. LocalsOK'
    BY <1>6, <2>5, AdvanceType DEF Start
  <2> QED BY <2>4, <2>6
<1> QED BY <1>3, <1>4, <1>5, <1>6

LEMMA RequestTypes ==
  ASSUME FilesOK, LocalsOK, ProviderOK, NEW p \in Processes,
         NextDecision(p) \/ Conclude(p) \/ Reserve(p) \/ ReserveFails(p) \/ Post(p)
  PROVE  FilesOK' /\ LocalsOK' /\ ProviderOK'
<1>1. at[p] \in At /\ offer[p] \in Offer /\ step[p] \in Step /\ Place(pc[p], at[p], step[p])
  BY DEF LocalsOK
<1>2. CASE NextDecision(p)
  <2> DEFINE s == [step[p] EXCEPT !.decision = step[p].decision + 1, !.reply = "none", !.cost = 0]
  <2>1. FilesOK' /\ ProviderOK'
    BY <1>2 DEF NextDecision, files, provider, FilesOK, ProviderOK
  <2>2. at[p].cell \in Cells
    BY <1>1, <1>2 DEF NextDecision, Place
  <2>3. /\ step[p].decision + 1 \in 1..3
        /\ step[p].decision + 1 <= ArmRequests[at[p].cell]
    <3>1. ArmRequests[at[p].cell] \in 1..3
      BY <2>2, SpendAssumption
    <3>2. step[p].decision \in 0..3
      BY <1>1 DEF Step
    <3>3. step[p].decision < ArmRequests[at[p].cell]
      BY <1>2 DEF NextDecision, MoreDecisions
    <3> QED BY <3>1, <3>2, <3>3
  <2>4. s \in Step
    <3>1. step[p].decision + 1 \in 0..3 /\ "none" \in Reply /\ 0 \in Costs \cup {0}
      BY <2>3 DEF Reply
    <3> QED BY <1>1, <3>1 DEF Step
  <2>5. <<at[p].cell, s.decision>> \in Keys
    <3>1. s.decision = step[p].decision + 1
      BY <1>1 DEF Step
    <3> QED BY <2>2, <2>3, <3>1 DEF Keys
  <2>6. "reserving" \in PC /\ Place("reserving", at[p], s)
    <3> HIDE DEF s
    <3> QED BY <1>1, <1>2, <2>2, <2>5 DEF NextDecision, Place, PC
  <2>7. /\ pc' = [pc EXCEPT ![p] = "reserving"] /\ at' = [at EXCEPT ![p] = at[p]]
        /\ offer' = [offer EXCEPT ![p] = offer[p]] /\ step' = [step EXCEPT ![p] = s]
    BY <1>2 DEF NextDecision, LocalsOK
  <2>8. LocalsOK'
    <3> HIDE DEF s
    <3> QED BY <1>1, <2>4, <2>6, <2>7, MoveType
  <2> QED BY <2>1, <2>8
<1>3. CASE Conclude(p)
  <2>1. FilesOK' /\ ProviderOK'
    BY <1>3 DEF Conclude, files, provider, FilesOK, ProviderOK
  <2>2. PICK verdict \in OutcomeState : Concludes(p, verdict)
    BY <1>3 DEF Conclude, ContractVerdict, OutcomeState, HaltedState
  <2>3. LocalsOK'
    BY <1>3, <2>2, ConcludesType DEF Conclude
  <2> QED BY <2>1, <2>3
<1>4. CASE Reserve(p)
  <2>1. at[p].batch \in Batches /\ Key(p) \in Keys
    BY <1>1, <1>4 DEF Reserve, Place, Key
  <2>2. entry' \in [Batches -> [Keys -> Entry]]
    BY <1>4, <2>1, ReservationType DEF Reserve
  <2>3. FilesOK' /\ ProviderOK'
    BY <1>4, <2>2 DEF Reserve, provider, FilesOK, ProviderOK
  <2>4. "posting" \in PC /\ Place("posting", at[p], step[p])
    BY <1>1, <1>4 DEF Reserve, Place, PC
  <2>5. LocalsOK'
    BY <1>4, <2>4, AdvanceType DEF Reserve
  <2> QED BY <2>3, <2>5
<1>5. CASE ReserveFails(p)
  <2>1. at[p].batch \in Batches /\ Key(p) \in Keys
    BY <1>1, <1>5 DEF ReserveFails, Place, Key
  <2>2. entry' \in [Batches -> [Keys -> Entry]]
    <3>1. CASE UNCHANGED entry
      BY <3>1 DEF FilesOK
    <3>2. ASSUME NEW res \in {"torn", "held"},
                 entry' = [entry EXCEPT ![at[p].batch][Key(p)].res = res]
          PROVE  entry' \in [Batches -> [Keys -> Entry]]
      BY <2>1, <3>2, ReservationType
    <3> QED BY <1>5, <3>1, <3>2 DEF ReserveFails
  <2>3. FilesOK' /\ ProviderOK'
    BY <1>5, <2>2 DEF ReserveFails, provider, FilesOK, ProviderOK
  <2>4. "halted_unknown" \in OutcomeState
    BY DEF OutcomeState, HaltedState
  <2>5. LocalsOK'
    BY <1>5, <2>4, ConcludesType DEF ReserveFails
  <2> QED BY <2>3, <2>5
<1>6. CASE Post(p)
  <2> DEFINE b == at[p].batch
             k == Key(p)
  <2>1. b \in Batches /\ k \in Keys
    BY <1>1, <1>6 DEF Post, Place, Key
  <2>2. PICK bill \in Costs \cup {0} : \E x \in Exchange(bill) :
               /\ billed' = [billed EXCEPT ![b] = @ + bill]
               /\ step' = [step EXCEPT ![p].reply = x.reply, ![p].cost = x.cost]
               /\ pc' = [pc EXCEPT ![p] = AfterPost(x.reply)]
    BY <1>6 DEF Post
  <2>3. PICK x \in Exchange(bill) :
               /\ billed' = [billed EXCEPT ![b] = @ + bill]
               /\ step' = [step EXCEPT ![p].reply = x.reply, ![p].cost = x.cost]
               /\ pc' = [pc EXCEPT ![p] = AfterPost(x.reply)]
    BY <2>2
  <2>4. x.reply \in Reply /\ x.cost \in Costs \cup {0}
    BY <2>3 DEF Exchange, Reply
  <2>5. bill \in Nat
    BY SpendAssumption
  <2>6. ProviderOK'
    <3>1. billed' \in [Batches -> Nat]
      BY <2>1, <2>3, <2>5 DEF ProviderOK
    <3>2. sent' = [sent EXCEPT ![b] = [sent[b] EXCEPT ![k] = sent[b][k] + 1]]
      BY <1>6, <2>1 DEF Post, ProviderOK
    <3>3. sent' \in [Batches -> [Keys -> Nat]]
      BY <2>1, <3>2 DEF ProviderOK
    <3> QED BY <3>1, <3>3 DEF ProviderOK
  <2>7. FilesOK'
    BY <1>6 DEF Post, files, FilesOK
  <2> DEFINE s == [step[p] EXCEPT !.reply = x.reply, !.cost = x.cost]
  <2>8. s \in Step /\ s.decision = step[p].decision
    BY <1>1, <2>4 DEF Step
  <2>9. "settling" \in PC /\ Place("settling", at[p], s)
    <3> HIDE DEF s
    <3> QED BY <1>1, <1>6, <2>8 DEF Post, Place, PC
  <2>10. /\ pc' = [pc EXCEPT ![p] = "settling"] /\ at' = [at EXCEPT ![p] = at[p]]
         /\ offer' = [offer EXCEPT ![p] = offer[p]] /\ step' = [step EXCEPT ![p] = s]
    BY <1>6, <2>3 DEF Post, LocalsOK, AfterPost
  <2>11. LocalsOK'
    <3> HIDE DEF s
    <3> QED BY <1>1, <2>8, <2>9, <2>10, MoveType
  <2> QED BY <2>6, <2>7, <2>11
<1> QED BY <1>2, <1>3, <1>4, <1>5, <1>6

LEMMA ClosingTypes ==
  ASSUME FilesOK, LocalsOK, ProviderOK, NEW p \in Processes,
         Settle(p) \/ SettleFails(p) \/ Finish(p) \/ RunOffline(p) \/ Record(p) \/ Abort(p)
  PROVE  FilesOK' /\ LocalsOK' /\ ProviderOK'
<1>1. at[p] \in At /\ offer[p] \in Offer /\ step[p] \in Step /\ Place(pc[p], at[p], step[p])
  BY DEF LocalsOK
<1>2. step[p].cost \in Costs \cup {0}
  BY <1>1 DEF Step
<1>3. ASSUME NEW accounted, NEW verdict \in FailureVerdicts(at[p].batch, step[p], accounted),
             pc[p] = "settling", Concludes(p, verdict), UNCHANGED <<at, offer>>
      PROVE  LocalsOK'
  BY <1>3, FailureVerdictType, ConcludesType
<1>4. CASE Settle(p)
  <2>1. at[p].batch \in Batches /\ Key(p) \in Keys
    BY <1>1, <1>4 DEF Settle, Place, Key
  <2>2. entry' \in [Batches -> [Keys -> Entry]] /\ spent' \in [Batches -> Nat]
    BY <1>2, <1>4, <2>1, WriteOutcomeType DEF Settle
  <2>3. FilesOK' /\ ProviderOK'
    BY <1>4, <2>2 DEF Settle, provider, FilesOK, ProviderOK
  <2>4. "running" \in PC /\ Place("running", at[p], step[p])
    BY <1>1, <1>4 DEF Settle, Place, PC
  <2>5. LocalsOK'
    <3>1. CASE pc' = [pc EXCEPT ![p] = "running"] /\ UNCHANGED step
      BY <1>4, <2>4, <3>1, AdvanceType DEF Settle
    <3>2. CASE \E verdict \in FailureVerdicts(at[p].batch, step[p], SpendOutcome(step[p]) = "settled") :
                 Concludes(p, verdict)
      BY <1>3, <1>4, <3>2 DEF Settle
    <3> QED BY <1>4, <3>1, <3>2 DEF Settle
  <2> QED BY <2>3, <2>5
<1>5. CASE SettleFails(p)
  <2>1. at[p].batch \in Batches /\ Key(p) \in Keys
    BY <1>1, <1>5 DEF SettleFails, Place, Key
  <2>2. entry' \in [Batches -> [Keys -> Entry]] /\ spent' \in [Batches -> Nat]
    <3>1. CASE UNCHANGED <<entry, spent>>
      BY <3>1 DEF FilesOK
    <3>2. CASE entry' = [entry EXCEPT ![at[p].batch][Key(p)].out = "torn"] /\ UNCHANGED spent
      BY <2>1, <3>2, TornOutcomeType DEF FilesOK
    <3>3. CASE WriteOutcome(at[p].batch, Key(p), step[p])
      BY <1>2, <2>1, <3>3, WriteOutcomeType
    <3> QED BY <1>5, <3>1, <3>2, <3>3 DEF SettleFails
  <2>3. FilesOK' /\ ProviderOK'
    BY <1>5, <2>2 DEF SettleFails, provider, FilesOK, ProviderOK
  <2>4. LocalsOK'
    BY <1>3, <1>5 DEF SettleFails, Unaccounted
  <2> QED BY <2>3, <2>4
<1>6. ASSUME NEW r \in Run, pc[p] \in {"finishing", "running"},
             run' = [run EXCEPT ![at[p].batch][at[p].cell] = r],
             pc' = [pc EXCEPT ![p] = "recording"],
             UNCHANGED <<claim, outcome, policy, entry, spent, lock, at, offer, step, provider>>
      PROVE  FilesOK' /\ LocalsOK' /\ ProviderOK'
  <2> DEFINE b == at[p].batch
             c == at[p].cell
  <2>1. b \in Batches /\ c \in Cells
    BY <1>1, <1>6 DEF Place
  <2>2. run' = [run EXCEPT ![b] = [run[b] EXCEPT ![c] = r]]
    BY <1>6, <2>1 DEF FilesOK
  <2>3. FilesOK' /\ ProviderOK'
    BY <1>6, <2>1, <2>2 DEF provider, FilesOK, ProviderOK
  <2>4. "recording" \in PC /\ Place("recording", at[p], step[p])
    BY <1>1, <1>6 DEF Place, PC
  <2>5. LocalsOK'
    BY <1>6, <2>4, AdvanceType
  <2> QED BY <2>3, <2>5
<1>7. CASE Finish(p)
  <2>1. [state |-> "finished", requests |-> step[p].decision,
         offline |-> FALSE, verdict |-> step[p].verdict] \in Run
    BY <1>1 DEF Step, Run
  <2> QED BY <1>6, <1>7, <2>1 DEF Finish
<1>8. CASE RunOffline(p)
  <2>1. ArmRequests[at[p].cell] \in 1..3
    BY <1>1, <1>8, SpendAssumption DEF RunOffline, Place
  <2>2. PICK n \in 0..ArmRequests[at[p].cell], verdict \in OutcomeState :
               run' = [run EXCEPT ![at[p].batch][at[p].cell] =
                 [state |-> "finished", requests |-> n, offline |-> TRUE, verdict |-> verdict]]
    BY <1>8 DEF RunOffline
  <2>3. n \in 0..3
    BY <2>1
  <2>4. [state |-> "finished", requests |-> n, offline |-> TRUE, verdict |-> verdict] \in Run
    BY <2>3 DEF Run
  <2> QED BY <1>6, <1>8, <2>2, <2>4 DEF RunOffline
<1>9. CASE Record(p)
  <2> DEFINE b == at[p].batch
             c == at[p].cell
  <2>1. b \in Batches /\ c \in Cells
    BY <1>1, <1>9 DEF Record, Place
  <2>2. PICK state \in {run[b][c].verdict, "torn", "halted_model_drift"} :
               outcome' = [outcome EXCEPT ![b][c] = state]
    BY <1>9 DEF Record
  <2>3. state \in {"none", "torn"} \cup OutcomeState
    <3>1. run[b][c] \in Run
      BY <2>1 DEF FilesOK
    <3> QED BY <2>2, <3>1 DEF Run, OutcomeState, HaltedState
  <2>4. outcome' \in [Batches -> [Cells -> {"none", "torn"} \cup OutcomeState]]
    BY <2>1, <2>2, <2>3 DEF FilesOK
  <2>5. FilesOK' /\ ProviderOK'
    BY <1>9, <2>4 DEF Record, provider, FilesOK, ProviderOK
  <2>6. LocalsOK'
    BY <1>9, LeaveType DEF Record
  <2> QED BY <2>5, <2>6
<1>10. CASE Abort(p)
  <2>1. FilesOK' /\ ProviderOK'
    BY <1>10 DEF Abort, files, provider, FilesOK, ProviderOK
  <2>2. LocalsOK'
    BY <1>10, LeaveType DEF Abort
  <2> QED BY <2>1, <2>2
<1> QED BY <1>4, <1>5, <1>7, <1>8, <1>9, <1>10

LEMMA TypeInit == Init => TypeOK
<1>1. SUFFICES ASSUME Init PROVE FilesOK /\ LocalsOK /\ ProviderOK
  BY TypeParts
<1>2. /\ NoRun \in Run /\ NoPolicy \in Policy /\ NoEntry \in Entry
      /\ [state |-> "none", pred |-> None, succ |-> None] \in Lock
  BY <1>1, SpendAssumption DEF NoRun, Run, NoPolicy, Policy, NoEntry, Entry, Lock
<1>3. FilesOK /\ ProviderOK
  BY <1>1, <1>2 DEF Init, FilesOK, ProviderOK
<1>4. "idle" \in PC /\ Nowhere \in At /\ NoOffer \in Offer /\ NoStep \in Step
  BY SpendAssumption DEF PC, Nowhere, NoOffer, NoStep, At, Offer, Step, Reply
<1>5. LocalsOK
  BY <1>1, <1>4 DEF Init, LocalsOK, Place
<1> QED BY <1>3, <1>5

LEMMA TypeStep == TypeOK /\ [Next]_vars => TypeOK'
<1> SUFFICES ASSUME TypeOK, [Next]_vars
             PROVE  TypeOK'
  OBVIOUS
<1>1. FilesOK /\ LocalsOK /\ ProviderOK
  BY TypeParts
<1>2. FilesOK' /\ LocalsOK' /\ ProviderOK'
  <2>1. CASE UNCHANGED vars
    BY <1>1, <2>1, StayType DEF vars, files, provider, locals, FilesOK, ProviderOK
  <2>2. CASE Next
    BY <1>1, <2>2, OpeningTypes, ClaimingTypes, RequestTypes, ClosingTypes DEF Next
  <2> QED BY <2>1, <2>2
<1> QED BY <1>2, TypeParts, PTL

(* Every file and every local keeps its type, whatever is written, torn or *)
(* left behind.                                                            *)
THEOREM TypeCorrect == Spec => []TypeOK
<1>1. Init => TypeOK
  BY TypeInit
<1>2. TypeOK /\ [Next]_vars => TypeOK'
  BY TypeStep
<1> QED BY <1>1, <1>2, PTL DEF Spec

--------------------------------------------------------------------------------
(* Steps of one process, and the files they write *)

Act(p) ==
  \/ \E b \in Batches :
       \/ \E pred \in Batches \cup {None} : Prepare(p, b, pred)
       \/ \E mode \in Modes : Admit(p, b, mode)
       \/ AdmitOffline(p, b)
  \/ DeriveCarry(p) \/ OpenLedger(p)
  \/ \E c \in Cells : Claim(p, c)
  \/ Start(p) \/ NextDecision(p) \/ Conclude(p)
  \/ Reserve(p) \/ ReserveFails(p) \/ Post(p) \/ Settle(p) \/ SettleFails(p)
  \/ Finish(p) \/ RunOffline(p) \/ Record(p) \/ Abort(p)

LEMMA NextIsAct == Next <=> \E p \in Processes : Act(p)
BY DEF Next, Act

(* Only the opening of a ledger writes its policy or the successor lock. *)
LEMMA PolicyFrame ==
  ASSUME NEW p \in Processes, Act(p)
  PROVE  UNCHANGED <<policy, lock>> \/ (OpenLedger(p) /\ UNCHANGED <<entry, spent>>)
BY DEF Act, Prepare, Admit, AdmitOffline, DeriveCarry, OpenLedger, Claim, Start, NextDecision,
       Conclude, Reserve, ReserveFails, Post, Settle, SettleFails, Finish, RunOffline, Record,
       Abort, files

(* An entry is written by its reservation ... *)
Reserves(p, b, k, e) ==
  /\ b = at[p].batch /\ k = Key(p) /\ pc[p] = "reserving"
  /\ CanReserve(b, k)
  /\ e.res # "none" /\ e.out = entry[b][k].out /\ e.charge = entry[b][k].charge
  /\ entry' = [entry EXCEPT ![b] = [entry[b] EXCEPT ![k] = e]]
  /\ UNCHANGED <<spent, policy>>

(* ... and by its outcome, which alone adds to what is spent. *)
Answers(p, b, k, e) ==
  /\ b = at[p].batch /\ k = Key(p) /\ pc[p] = "settling"
  /\ CanFinish(b, k)
  /\ e.res = entry[b][k].res /\ e.out # "none"
  /\ entry' = [entry EXCEPT ![b] = [entry[b] EXCEPT ![k] = e]]
  /\ \E charge \in 0..Reservation :
       /\ spent' = [spent EXCEPT ![b] = spent[b] + charge]
       /\ e.out # "settled" => charge = 0
       /\ e.out = "settled" => charge = step[p].cost /\ charge # 0
       /\ e.charge = charge \/ (charge = 0 /\ e.charge = entry[b][k].charge)
  /\ UNCHANGED policy

LEMMA ReservesEntry ==
  ASSUME TypeOK, NEW p \in Processes, pc[p] = "reserving", CanReserve(at[p].batch, Key(p)),
         NEW res \in {"torn", "held"}, entry' = [entry EXCEPT ![at[p].batch][Key(p)].res = res],
         UNCHANGED <<spent, policy>>
  PROVE  \E b \in Batches, k \in Keys, e \in Entry : Reserves(p, b, k, e)
<1> DEFINE b == at[p].batch
           k == Key(p)
           e == [entry[b][k] EXCEPT !.res = res]
<1>1. b \in Batches /\ k \in Keys
  BY DEF TypeOK
<1>2. entry[b][k] \in Entry
  BY <1>1 DEF TypeOK
<1>3. /\ e \in Entry /\ e.res # "none"
      /\ e.out = entry[b][k].out /\ e.charge = entry[b][k].charge
  BY <1>2 DEF Entry
<1>4. entry' = [entry EXCEPT ![b] = [entry[b] EXCEPT ![k] = e]]
  BY <1>1 DEF TypeOK
<1>5. Reserves(p, b, k, e)
  <2> HIDE DEF e
  <2> QED BY <1>3, <1>4 DEF Reserves
<1> QED BY <1>1, <1>3, <1>5

LEMMA AnswersEntry ==
  ASSUME TypeOK, NEW p \in Processes, pc[p] = "settling", CanFinish(at[p].batch, Key(p)),
         \/ WriteOutcome(at[p].batch, Key(p), step[p])
         \/ entry' = [entry EXCEPT ![at[p].batch][Key(p)].out = "torn"] /\ UNCHANGED spent,
         UNCHANGED policy
  PROVE  \E b \in Batches, k \in Keys, e \in Entry : Answers(p, b, k, e)
<1> DEFINE b == at[p].batch
           k == Key(p)
           out == SpendOutcome(step[p])
           charge == IF out = "settled" THEN step[p].cost ELSE 0
<1>1. b \in Batches /\ k \in Keys /\ step[p].cost \in Costs \cup {0}
  BY DEF TypeOK
<1>2. entry[b][k] \in Entry /\ spent[b] \in Nat
  BY <1>1 DEF TypeOK
<1>3. CASE WriteOutcome(b, k, step[p])
  <2> DEFINE e == [entry[b][k] EXCEPT !.out = out, !.charge = charge]
  <2>1. out \in {"unknown", "usage_unknown", "settled"} /\ charge \in 0..Reservation
    BY <1>1, OutcomeType
  <2>2. e \in Entry /\ e.res = entry[b][k].res /\ e.out = out /\ e.charge = charge
    BY <1>2, <2>1 DEF Entry
  <2>3. /\ entry' = [entry EXCEPT ![b] = [entry[b] EXCEPT ![k] = e]]
        /\ spent' = [spent EXCEPT ![b] = spent[b] + charge]
    BY <1>1, <1>3, WriteOutcomeShape, TypeParts
  <2>4. /\ out # "settled" => charge = 0
        /\ out = "settled" => charge = step[p].cost /\ charge # 0
    BY <1>1, OutcomeType
  <2>5. Answers(p, b, k, e)
    <3> HIDE DEF e, charge, out
    <3> QED BY <2>1, <2>2, <2>3, <2>4 DEF Answers
  <2> QED BY <1>1, <2>2, <2>5
<1>4. CASE entry' = [entry EXCEPT ![b][k].out = "torn"] /\ UNCHANGED spent
  <2> DEFINE e == [entry[b][k] EXCEPT !.out = "torn"]
  <2>1. /\ e \in Entry /\ e.res = entry[b][k].res /\ e.out = "torn"
        /\ e.charge = entry[b][k].charge
    BY <1>2 DEF Entry
  <2>2. entry' = [entry EXCEPT ![b] = [entry[b] EXCEPT ![k] = e]]
    BY <1>1, <1>4 DEF TypeOK
  <2>3. 0 \in 0..Reservation /\ spent' = [spent EXCEPT ![b] = spent[b] + 0]
    BY <1>2, <1>4, SpendAssumption DEF TypeOK
  <2>4. Answers(p, b, k, e)
    <3> HIDE DEF e
    <3> QED BY <2>1, <2>2, <2>3 DEF Answers
  <2> QED BY <1>1, <2>1, <2>4
<1> QED BY <1>3, <1>4

LEMMA LedgerStep ==
  ASSUME TypeOK, NEW p \in Processes, Act(p)
  PROVE  \/ UNCHANGED <<entry, spent>>
         \/ \E b \in Batches, k \in Keys, e \in Entry : Reserves(p, b, k, e)
         \/ \E b \in Batches, k \in Keys, e \in Entry : Answers(p, b, k, e)
<1>1. CASE Reserve(p)
  BY <1>1, ReservesEntry DEF Reserve
<1>2. CASE ReserveFails(p)
  <2>1. CASE UNCHANGED entry
    BY <1>2, <2>1 DEF ReserveFails
  <2>2. CASE ~UNCHANGED entry
    <3>1. PICK res \in {"torn", "held"} :
            entry' = [entry EXCEPT ![at[p].batch][Key(p)].res = res]
      BY <1>2, <2>2 DEF ReserveFails
    <3> QED BY <1>2, <2>2, <3>1, ReservesEntry DEF ReserveFails
  <2> QED BY <2>1, <2>2
<1>3. CASE Settle(p)
  BY <1>3, AnswersEntry DEF Settle
<1>4. CASE SettleFails(p)
  BY <1>4, AnswersEntry DEF SettleFails
<1>5. CASE ~(Reserve(p) \/ ReserveFails(p) \/ Settle(p) \/ SettleFails(p))
  BY <1>5 DEF Act, Prepare, Admit, AdmitOffline, DeriveCarry, OpenLedger, Claim, Start,
              NextDecision, Conclude, Post, Finish, RunOffline, Record, Abort, files
<1> QED BY <1>1, <1>2, <1>3, <1>4, <1>5

--------------------------------------------------------------------------------
(* One successor *)

(* A frozen carry holds the successor lock: CanLock admits a second one to *)
(* no ledger, and the lock is never written again.                         *)
LockOK ==
  \A b \in Batches :
    Frozen(b) /\ policy[b].pred # None =>
      lock = [state |-> "held", pred |-> policy[b].pred, succ |-> b]

LEMMA LockStep == TypeOK /\ LockOK /\ [Next]_vars => LockOK'
<1> SUFFICES ASSUME TypeOK, LockOK, [Next]_vars PROVE LockOK'
  OBVIOUS
<1>1. CASE UNCHANGED <<policy, lock>>
  BY <1>1 DEF LockOK, Frozen
<1>2. ASSUME NEW p \in Processes, OpenLedger(p)
      PROVE  LockOK'
  <2>1. PICK b \in Batches : b = at[p].batch /\ policy[b].state = "none"
    BY <1>2 DEF OpenLedger, TypeOK
  <2> DEFINE pred == offer[p].pred
             held == [state |-> "held", pred |-> pred, succ |-> b]
             frozen == [state |-> "frozen", pred |-> pred,
                        count |-> offer[p].count, spent |-> offer[p].spent]
  <2>2. pred # None => \A c \in Batches : Frozen(c) => policy[c].pred = None
    BY <1>2 DEF OpenLedger, CanLock, LockOK
  <2>3. ASSUME NEW c \in Batches, Frozen(c)', policy'[c].pred # None, c # b
        PROVE  lock' = [state |-> "held", pred |-> policy'[c].pred, succ |-> c]
    <3>1. policy'[c] = policy[c]
      BY <1>2, <2>1, <2>3 DEF OpenLedger, TypeOK
    <3>2. lock = [state |-> "held", pred |-> policy[c].pred, succ |-> c]
      BY <2>3, <3>1 DEF LockOK, Frozen
    <3>3. pred = None
      BY <2>2, <2>3, <3>1 DEF Frozen
    <3>4. lock' = lock
      BY <1>2, <3>3 DEF OpenLedger
    <3> QED BY <3>1, <3>2, <3>4
  <2>4. ASSUME Frozen(b)', policy'[b].pred # None
        PROVE  lock' = [state |-> "held", pred |-> policy'[b].pred, succ |-> b]
    <3>1. \/ policy' = [policy EXCEPT ![b] = frozen] /\ lock' = IF pred = None THEN lock ELSE held
          \/ policy' = [policy EXCEPT ![b].state = "dirs"]
          \/ UNCHANGED policy
      BY <1>2, <2>1 DEF OpenLedger
    <3>2. policy[b] \in Policy
      BY <2>1 DEF TypeOK
    <3>3. CASE policy' = [policy EXCEPT ![b].state = "dirs"]
      <4>1. policy'[b].state = "dirs"
        BY <2>1, <3>2, <3>3 DEF TypeOK, Policy
      <4> QED BY <2>4, <4>1 DEF Frozen
    <3>4. CASE UNCHANGED policy
      BY <2>1, <2>4, <3>4 DEF Frozen
    <3>5. CASE policy' = [policy EXCEPT ![b] = frozen] /\ lock' = IF pred = None THEN lock ELSE held
      <4>1. policy'[b] = frozen
        BY <2>1, <3>5 DEF TypeOK
      <4> QED BY <2>4, <3>5, <4>1
    <3> QED BY <3>1, <3>3, <3>4, <3>5
  <2> QED BY <2>3, <2>4 DEF LockOK
<1> QED BY <1>1, <1>2, NextIsAct, PolicyFrame DEF vars, files

(* cumulative-successor-lock.json: two batches that both continue the      *)
(* budget of a stopped one are the same batch.                             *)
THEOREM AtMostOneSuccessor == Spec => []OneSuccessor
<1>1. Init => LockOK
  BY DEF Init, LockOK, Frozen, NoPolicy
<1>2. LockOK => OneSuccessor
  BY DEF LockOK, OneSuccessor
<1> QED BY <1>1, <1>2, LockStep, TypeCorrect, PTL DEF Spec

--------------------------------------------------------------------------------
(* The budget of a ledger *)

(* Without policy.json nothing is reserved and nothing is spent: a request *)
(* is admitted only against a valid policy, and a ledger is opened once.   *)
EmptyOK ==
  \A b \in Batches : ~Frozen(b) => Reserved(b) = {} /\ spent[b] = 0

BudgetInv == EmptyOK /\ WithinBudget

(* The sets of a ledger after one of its entries was written. *)
LEMMA EntrySets ==
  ASSUME entry \in [Batches -> [Keys -> Entry]],
         NEW b \in Batches, NEW k \in Keys, NEW e \in Entry,
         entry' = [entry EXCEPT ![b] = [entry[b] EXCEPT ![k] = e]]
  PROVE  /\ Reserved(b)' = IF e.res = "none" THEN Reserved(b) \ {k} ELSE Reserved(b) \cup {k}
         /\ Answered(b)' = IF e.out = "none" THEN Answered(b) \ {k} ELSE Answered(b) \cup {k}
         /\ Settled(b)' = IF e.out = "settled" THEN Settled(b) \cup {k} ELSE Settled(b) \ {k}
         /\ \A c \in Batches : c # b =>
              Reserved(c)' = Reserved(c) /\ Answered(c)' = Answered(c) /\ Settled(c)' = Settled(c)
<1>1. \A j \in Keys : entry'[b][j] = IF j = k THEN e ELSE entry[b][j]
  OBVIOUS
<1>2. \A c \in Batches : c # b => entry'[c] = entry[c]
  OBVIOUS
<1> QED BY <1>1, <1>2 DEF Reserved, Answered, Settled

LEMMA HeldNone ==
  ASSUME NEW b, Reserved(b) \ Settled(b) = {}
  PROVE  Held(b) = 0
<1>1. Cardinality(Reserved(b) \ Settled(b)) = 0
  BY FS_EmptySet
<1> QED BY <1>1, SpendAssumption DEF Held

LEMMA HeldType ==
  ASSUME NEW b
  PROVE  Held(b) \in Nat
<1>1. Cardinality(Reserved(b) \ Settled(b)) \in Nat
  BY CardinalityOfKeys DEF Reserved
<1> QED BY <1>1, SpendAssumption DEF Held

(* Reserving counts one request and holds one reservation. *)
LEMMA ReserveBudget ==
  ASSUME TypeOK, BudgetInv, NEW p, NEW b \in Batches, NEW k \in Keys, NEW e \in Entry,
         Reserves(p, b, k, e)
  PROVE  BudgetInv'
<1>1. /\ Frozen(b) /\ UNCHANGED <<policy, spent>>
      /\ k \notin Reserved(b) /\ Reserved(b) = Settled(b)
      /\ RequestCount(b) < MaxRequests
      /\ Spent(b) + Held(b) + Reservation <= MaxUsd
  BY DEF Reserves, CanReserve, PolicyValid, Frozen, LedgerState, CanAfford, Reserved
<1>2. entry \in [Batches -> [Keys -> Entry]]
  BY DEF TypeOK
<1>3. /\ Reserved(b)' = Reserved(b) \cup {k} /\ Settled(b)' = Settled(b)
      /\ \A c \in Batches : c # b => Reserved(c)' = Reserved(c) /\ Settled(c)' = Settled(c)
  <2>1. e.res # "none" /\ e.out = entry[b][k].out
        /\ entry' = [entry EXCEPT ![b] = [entry[b] EXCEPT ![k] = e]]
    BY DEF Reserves
  <2> QED BY <1>2, <2>1, EntrySets DEF Settled
<1>4. /\ IsFiniteSet(Reserved(b))
      /\ Cardinality(Reserved(b)) \in Nat
      /\ Cardinality(Reserved(b)') = Cardinality(Reserved(b)) + 1
  <2> DEFINE R == Reserved(b)
  <2>1. R \in SUBSET Keys /\ k \notin R
    BY <1>1 DEF Reserved
  <2>2. IsFiniteSet(R) /\ Cardinality(R) \in Nat
    BY <2>1, CardinalityOfKeys
  <2>3. Cardinality(R \cup {k}) = Cardinality(R) + 1
    <3> HIDE DEF R
    <3> QED BY <2>1, <2>2, FS_AddElement
  <2> QED BY <1>3, <2>2, <2>3
<1>5. RequestCount(b)' <= MaxRequests
  <2>1. policy[b].count \in Nat
    BY DEF TypeOK, Policy
  <2>2. RequestCount(b)' = RequestCount(b) + 1
    BY <1>1, <1>4, <2>1 DEF RequestCount
  <2> QED BY <1>1, <1>4, <2>1, <2>2, SpendAssumption DEF RequestCount
<1>6. Spent(b)' + Held(b)' <= MaxUsd
  <2>1. Reserved(b)' \ Settled(b)' = {k}
    BY <1>1, <1>3
  <2>2. Held(b)' = Reservation
    <3>1. Cardinality(Reserved(b)' \ Settled(b)') = 1
      BY <2>1, FS_Singleton
    <3>2. Held(b)' = Reservation * Cardinality(Reserved(b)' \ Settled(b)')
      BY DEF Held
    <3> QED BY <3>1, <3>2, SpendAssumption
  <2>3. Held(b) = 0
    BY <1>1, HeldNone
  <2>4. Spent(b)' = Spent(b) /\ Spent(b) \in Nat
    BY <1>1 DEF Spent, TypeOK, Policy
  <2> QED BY <1>1, <2>2, <2>3, <2>4, SpendAssumption
<1>7. ASSUME NEW c \in Batches, c # b
      PROVE  (~Frozen(c) => Reserved(c) = {} /\ spent[c] = 0)' /\ (Frozen(c) => SummaryValid(c))'
  <2>1. Reserved(c)' = Reserved(c) /\ Settled(c)' = Settled(c)
    BY <1>3, <1>7
  <2>2. SummaryValid(c)' <=> SummaryValid(c)
    BY <1>1, <2>1 DEF SummaryValid, RequestCount, Spent, Held
  <2> QED BY <1>1, <2>1, <2>2 DEF BudgetInv, EmptyOK, WithinBudget, Frozen
<1>8. Frozen(b)' /\ SummaryValid(b)'
  BY <1>1, <1>5, <1>6 DEF SummaryValid, Frozen
<1> QED BY <1>7, <1>8 DEF BudgetInv, EmptyOK, WithinBudget

(* An outcome keeps the reservation held, or turns it into a charge that   *)
(* is not above it.                                                        *)
LEMMA AnswerBudget ==
  ASSUME TypeOK, BudgetInv, NEW p, NEW b \in Batches, NEW k \in Keys, NEW e \in Entry,
         Answers(p, b, k, e)
  PROVE  BudgetInv'
<1>1. /\ Frozen(b) /\ UNCHANGED policy
      /\ k \in Reserved(b) /\ k \notin Settled(b)
  BY DEF Answers, CanFinish, PolicyValid, Frozen, Reserved, Settled
<1>2. entry \in [Batches -> [Keys -> Entry]] /\ spent \in [Batches -> Nat]
  BY DEF TypeOK
<1>3. PICK charge \in 0..Reservation :
         /\ spent' = [spent EXCEPT ![b] = spent[b] + charge]
         /\ e.out # "settled" => charge = 0
  BY DEF Answers
<1>4. /\ Reserved(b)' = Reserved(b)
      /\ Settled(b)' = IF e.out = "settled" THEN Settled(b) \cup {k} ELSE Settled(b)
      /\ \A c \in Batches : c # b => Reserved(c)' = Reserved(c) /\ Settled(c)' = Settled(c)
  <2>1. e.res # "none" /\ entry' = [entry EXCEPT ![b] = [entry[b] EXCEPT ![k] = e]]
    BY DEF Answers, CanFinish
  <2>2. /\ Reserved(b)' = Reserved(b) \cup {k}
        /\ Settled(b)' = IF e.out = "settled" THEN Settled(b) \cup {k} ELSE Settled(b) \ {k}
        /\ \A c \in Batches : c # b => Reserved(c)' = Reserved(c) /\ Settled(c)' = Settled(c)
    BY <1>2, <2>1, EntrySets
  <2>3. Reserved(b) \cup {k} = Reserved(b) /\ Settled(b) \ {k} = Settled(b)
    BY <1>1
  <2> QED BY <2>2, <2>3
<1>5. SummaryValid(b)
  BY <1>1 DEF BudgetInv, WithinBudget
<1>6. RequestCount(b)' <= MaxRequests
  BY <1>1, <1>4, <1>5 DEF RequestCount, SummaryValid
<1>7. Spent(b)' + Held(b)' <= MaxUsd
  <2>1. spent[b] \in Nat /\ policy[b].spent \in Nat /\ charge \in Nat /\ charge <= Reservation
    BY SpendAssumption DEF TypeOK, Policy
  <2>2. Spent(b)' = Spent(b) + charge /\ Spent(b) \in Nat
    BY <1>1, <1>2, <1>3, <2>1 DEF Spent
  <2>3. CASE e.out = "settled"
    <3> DEFINE U == Reserved(b) \ Settled(b)
    <3>1. Reserved(b)' \ Settled(b)' = U \ {k} /\ k \in U
      BY <1>1, <1>4, <2>3
    <3>2. IsFiniteSet(U) /\ Cardinality(U) \in Nat
      BY CardinalityOfKeys DEF Reserved
    <3>3. Cardinality(U \ {k}) = Cardinality(U) - 1
      <4> HIDE DEF U
      <4> QED BY <3>1, <3>2, FS_RemoveElement
    <3>4. Held(b)' = Reservation * (Cardinality(U) - 1)
      BY <3>1, <3>3 DEF Held
    <3>5. Held(b) = Reservation * Cardinality(U)
      BY DEF Held
    <3>6. Held(b)' = Held(b) - Reservation
      <4> HIDE DEF U
      <4> QED BY <3>2, <3>4, <3>5, SpendAssumption
    <3> QED BY <1>5, <2>1, <2>2, <3>6, HeldType, SpendAssumption DEF SummaryValid
  <2>4. CASE e.out # "settled"
    <3>1. Held(b)' = Held(b) /\ charge = 0
      BY <1>3, <1>4, <2>4 DEF Held
    <3> QED BY <1>5, <2>2, <3>1 DEF SummaryValid
  <2> QED BY <2>3, <2>4
<1>8. ASSUME NEW c \in Batches, c # b
      PROVE  (~Frozen(c) => Reserved(c) = {} /\ spent[c] = 0)' /\ (Frozen(c) => SummaryValid(c))'
  <2>1. Reserved(c)' = Reserved(c) /\ Settled(c)' = Settled(c) /\ spent'[c] = spent[c]
    BY <1>2, <1>3, <1>4, <1>8
  <2>2. SummaryValid(c)' <=> SummaryValid(c)
    BY <1>1, <2>1 DEF SummaryValid, RequestCount, Spent, Held
  <2> QED BY <1>1, <2>1, <2>2 DEF BudgetInv, EmptyOK, WithinBudget, Frozen
<1>9. Frozen(b)' /\ SummaryValid(b)'
  BY <1>1, <1>6, <1>7 DEF SummaryValid, Frozen
<1> QED BY <1>8, <1>9 DEF BudgetInv, EmptyOK, WithinBudget

(* A ledger opens empty, with a carry that fits. *)
LEMMA OpenBudget ==
  ASSUME TypeOK, BudgetInv, NEW p \in Processes, OpenLedger(p), UNCHANGED <<entry, spent>>
  PROVE  BudgetInv'
<1>1. PICK b \in Batches : b = at[p].batch
  BY DEF OpenLedger, TypeOK
<1> DEFINE frozen == [state |-> "frozen", pred |-> offer[p].pred,
                      count |-> offer[p].count, spent |-> offer[p].spent]
<1>2. /\ policy[b].state = "none"
      /\ offer[p].count <= MaxRequests /\ offer[p].spent <= MaxUsd
      /\ offer[p].count \in Nat /\ offer[p].spent \in Nat
      /\ \/ policy' = [policy EXCEPT ![b] = frozen]
         \/ policy' = [policy EXCEPT ![b].state = "dirs"]
         \/ UNCHANGED policy
  BY <1>1 DEF OpenLedger, TypeOK
<1>3. \A c \in Batches : c # b => policy'[c] = policy[c]
  BY <1>2 DEF TypeOK
<1>4. \A c \in Batches : Reserved(c)' = Reserved(c) /\ Settled(c)' = Settled(c)
  BY DEF Reserved, Settled
<1>5. Reserved(b) = {} /\ spent[b] = 0
  BY <1>2 DEF BudgetInv, EmptyOK, Frozen
<1>6. ASSUME Frozen(b)'
      PROVE  SummaryValid(b)'
  <2>1. policy'[b] = frozen
    <3>1. policy[b] \in Policy
      BY DEF TypeOK
    <3>2. CASE policy' = [policy EXCEPT ![b].state = "dirs"]
      BY <1>6, <3>1, <3>2 DEF TypeOK, Policy, Frozen
    <3>3. CASE UNCHANGED policy
      BY <1>2, <1>6, <3>3 DEF Frozen
    <3>4. CASE policy' = [policy EXCEPT ![b] = frozen]
      BY <3>4 DEF TypeOK
    <3> QED BY <1>2, <3>2, <3>3, <3>4
  <2>2. RequestCount(b)' = offer[p].count
    <3>1. Cardinality(Reserved(b)') = 0
      BY <1>4, <1>5, FS_EmptySet
    <3> QED BY <1>2, <2>1, <3>1 DEF RequestCount
  <2>3. Spent(b)' = offer[p].spent
    BY <1>2, <1>5, <2>1 DEF Spent
  <2>4. Held(b)' = 0
    <3>1. Held(b)' = Held(b)
      BY <1>4 DEF Held
    <3>2. Held(b) = 0
      BY <1>5, HeldNone
    <3> QED BY <3>1, <3>2
  <2> QED BY <1>2, <2>2, <2>3, <2>4 DEF SummaryValid
<1>7. ASSUME NEW c \in Batches, c # b
      PROVE  (~Frozen(c) => Reserved(c) = {} /\ spent[c] = 0)' /\ (Frozen(c) => SummaryValid(c))'
  <2>1. SummaryValid(c)' <=> SummaryValid(c)
    BY <1>3, <1>4, <1>7 DEF SummaryValid, RequestCount, Spent, Held
  <2> QED BY <1>3, <1>4, <1>7, <2>1 DEF BudgetInv, EmptyOK, WithinBudget, Frozen
<1>8. (~Frozen(b) => Reserved(b) = {} /\ spent[b] = 0)'
  BY <1>4, <1>5
<1> QED BY <1>6, <1>7, <1>8 DEF BudgetInv, EmptyOK, WithinBudget

LEMMA BudgetStay ==
  ASSUME BudgetInv, UNCHANGED <<policy, entry, spent>>
  PROVE  BudgetInv'
BY DEF BudgetInv, EmptyOK, WithinBudget, Frozen, SummaryValid, RequestCount, Spent, Held,
       Reserved, Settled

LEMMA BudgetStep == TypeOK /\ BudgetInv /\ [Next]_vars => BudgetInv'
<1> SUFFICES ASSUME TypeOK, BudgetInv, [Next]_vars PROVE BudgetInv'
  OBVIOUS
<1>1. CASE UNCHANGED vars
  BY <1>1, BudgetStay DEF vars, files
<1>2. ASSUME NEW p \in Processes, Act(p)
      PROVE  BudgetInv'
  <2>1. CASE OpenLedger(p) /\ UNCHANGED <<entry, spent>>
    BY <2>1, OpenBudget
  <2>2. CASE UNCHANGED policy
    BY <1>2, <2>2, LedgerStep, ReserveBudget, AnswerBudget, BudgetStay
  <2> QED BY <1>2, <2>1, <2>2, PolicyFrame
<1> QED BY <1>1, <1>2, NextIsAct

(* _summary never raises "spend_entries_invalid" over its two ceilings:    *)
(* whatever was carried, reserved, lost or settled, in whatever order,     *)
(* stays within the approval.                                              *)
THEOREM BudgetKept == Spec => []WithinBudget
<1>1. Init => BudgetInv
  BY DEF Init, BudgetInv, EmptyOK, WithinBudget, Frozen, NoPolicy, Reserved, NoEntry
<1>2. BudgetInv => WithinBudget
  BY DEF BudgetInv
<1> QED BY <1>1, <1>2, BudgetStep, TypeCorrect, PTL DEF Spec

--------------------------------------------------------------------------------
(* One process at work *)

(* A process at work in a batch holds its one unresolved cell: its claim   *)
(* parses and is not closed, no file of the registry is torn and no cell   *)
(* has halted the batch.                                                   *)
HoldsCell(p) ==
  LET b == at[p].batch
      c == at[p].cell
  IN /\ claim[b][c] = "ticket" /\ outcome[b][c] = "none"
     /\ \A d \in Cells : claim[b][d] # "torn" /\ outcome[b][d] # "torn"
     /\ ~Halted(b)

WorkInv == OneAtWork /\ \A p \in Processes : AtWork(p) => HoldsCell(p)

(* A process moves alone. *)
Alone(p) == \A q \in Processes : q # p => pc'[q] = pc[q] /\ at'[q] = at[q] /\ step'[q] = step[q]

LEMMA LeaveAlone ==
  ASSUME TypeOK, NEW p \in Processes, Leave(p)
  PROVE  Alone(p) /\ pc'[p] = "idle"
BY DEF Leave, Alone, TypeOK

LEMMA ActAlone ==
  ASSUME TypeOK, NEW p \in Processes, Act(p)
  PROVE  Alone(p)
<1>1. CASE OpenLedger(p) \/ Record(p) \/ Abort(p)
  BY <1>1, LeaveAlone DEF OpenLedger, Record, Abort
<1>2. ASSUME NEW c \in Cells, Claim(p, c)
      PROVE  Alone(p)
  BY <1>2, LeaveAlone DEF Claim, Alone, TypeOK
<1>3. ASSUME NEW verdict, Concludes(p, verdict), UNCHANGED at
      PROVE  Alone(p)
  BY <1>3 DEF Concludes, Alone, TypeOK
<1>4. CASE Conclude(p) \/ ReserveFails(p) \/ SettleFails(p)
  BY <1>3, <1>4 DEF Conclude, ReserveFails, SettleFails, Unaccounted
<1>5. CASE Settle(p)
  BY <1>3, <1>5 DEF Settle, Alone, TypeOK
<1>6. ASSUME NEW b \in Batches,
             \/ \E pred \in Batches \cup {None} : Prepare(p, b, pred)
             \/ \E mode \in Modes : Admit(p, b, mode)
             \/ AdmitOffline(p, b)
      PROVE  Alone(p)
  BY <1>6 DEF Prepare, Admit, AdmitOffline, Alone, TypeOK
<1>7. CASE \/ DeriveCarry(p) \/ Start(p) \/ NextDecision(p) \/ Reserve(p)
           \/ Finish(p) \/ RunOffline(p)
  BY <1>7 DEF DeriveCarry, Start, NextDecision, Reserve, Finish, RunOffline, Alone, TypeOK
<1>8. CASE Post(p)
  BY <1>8 DEF Post, Alone, TypeOK
<1> QED BY <1>1, <1>2, <1>4, <1>5, <1>6, <1>7, <1>8 DEF Act

(* The registry is written by claims and by records only. *)
LEMMA RegistryFrame ==
  ASSUME NEW p \in Processes, Act(p)
  PROVE  \/ UNCHANGED <<claim, outcome>>
         \/ \E c \in Cells : Claim(p, c)
         \/ Record(p)
BY DEF Act, Prepare, Admit, AdmitOffline, DeriveCarry, OpenLedger, Start, NextDecision,
       Conclude, Reserve, ReserveFails, Post, Settle, SettleFails, Finish, RunOffline, Abort, files

(* Work begins with a claim and goes on in the same cell. *)
LEMMA WorkBegins ==
  ASSUME TypeOK, NEW p \in Processes, Act(p), AtWork(p)', ~\E c \in Cells : Claim(p, c)
  PROVE  AtWork(p) /\ at'[p] = at[p] /\ UNCHANGED <<claim, outcome>>
<1>1. ~Leave(p)
  BY LeaveAlone DEF AtWork
<1>2. ~(OpenLedger(p) \/ Record(p) \/ Abort(p))
  BY <1>1 DEF OpenLedger, Record, Abort
<1>3. UNCHANGED <<claim, outcome>>
  BY <1>2, RegistryFrame
<1>4. ASSUME NEW b \in Batches
      PROVE  /\ ~\E pred \in Batches \cup {None} : Prepare(p, b, pred)
             /\ ~\E mode \in Modes : Admit(p, b, mode)
             /\ ~AdmitOffline(p, b)
  BY DEF Prepare, Admit, AdmitOffline, AtWork, TypeOK
<1>5. ~DeriveCarry(p)
  BY DEF DeriveCarry, AtWork, TypeOK
<1>6. \/ Start(p) \/ NextDecision(p) \/ Conclude(p) \/ Reserve(p) \/ ReserveFails(p)
      \/ Post(p) \/ Settle(p) \/ SettleFails(p) \/ Finish(p) \/ RunOffline(p)
  BY <1>2, <1>4, <1>5 DEF Act
<1>7. UNCHANGED at
  BY <1>6 DEF Start, NextDecision, Conclude, Reserve, ReserveFails, Post, Settle, SettleFails,
              Finish, RunOffline
<1>8. AtWork(p)
  BY <1>6 DEF Start, NextDecision, Conclude, Reserve, ReserveFails, Post, Settle, SettleFails,
              Finish, RunOffline, AtWork
<1> QED BY <1>3, <1>7, <1>8

(* A claim that succeeds finds every earlier claim closed, so nobody else  *)
(* is at work in its batch.                                                *)
LEMMA ClaimFindsNobody ==
  ASSUME TypeOK, WorkInv, NEW p \in Processes, NEW c \in Cells, Claim(p, c),
         NEW q \in Processes, AtWork(q)
  PROVE  at[q].batch # at[p].batch
<1>1. at[q].cell \in Cells /\ HoldsCell(q)
  BY DEF WorkInv, AtWork, TypeOK
<1>2. CASE at[q].batch = at[p].batch
  <2>1. at[q].cell \in Claimed(at[p].batch) /\ at[q].cell \notin Closed(at[p].batch)
    BY <1>1, <1>2 DEF HoldsCell, Claimed, Closed
  <2> QED BY <2>1 DEF Claim, Claimable
<1> QED BY <1>2

LEMMA ClaimWork ==
  ASSUME TypeOK, WorkInv, NEW p \in Processes, NEW c \in Cells, Claim(p, c), Alone(p)
  PROVE  WorkInv'
<1>1. PICK b \in Batches : b = at[p].batch
  BY DEF Claim, TypeOK
<1>2. /\ Claimable(b, c) /\ UNCHANGED outcome
      /\ \/ claim' = [claim EXCEPT ![b][c] = "ticket"] /\ pc'[p] = "claimed"
            /\ at'[p].batch = b /\ at'[p].cell = c
         \/ claim' = [claim EXCEPT ![b][c] = "torn"] /\ pc'[p] = "idle"
  BY <1>1, LeaveAlone DEF Claim, TypeOK
<1>3. ASSUME NEW q \in Processes, q # p, AtWork(q)'
      PROVE  AtWork(q) /\ at'[q] = at[q] /\ at[q].batch # b /\ HoldsCell(q)'
  <2>1. AtWork(q) /\ at'[q] = at[q]
    BY <1>3 DEF Alone, AtWork
  <2>2. at[q].batch # b /\ at[q].batch \in Batches /\ HoldsCell(q)
    BY <1>1, <2>1, ClaimFindsNobody DEF WorkInv, AtWork, TypeOK
  <2>3. claim'[at[q].batch] = claim[at[q].batch]
    BY <1>2, <2>2 DEF TypeOK
  <2> QED BY <1>2, <2>1, <2>2, <2>3 DEF HoldsCell, Halted
<1>4. ASSUME AtWork(p)'
      PROVE  HoldsCell(p)' /\ at'[p].batch = b
  <2>1. claim' = [claim EXCEPT ![b][c] = "ticket"] /\ at'[p].batch = b /\ at'[p].cell = c
    BY <1>2, <1>4 DEF AtWork
  <2>2. /\ \A d \in Cells : claim[b][d] # "torn" /\ outcome[b][d] # "torn"
        /\ ~Halted(b) /\ outcome[b][c] = "none"
    BY <1>2 DEF Claimable, RegistryValid, Claimed, Closed
  <2>3. \A d \in Cells : claim'[b][d] = IF d = c THEN "ticket" ELSE claim[b][d]
    BY <2>1 DEF TypeOK
  <2> QED BY <1>2, <2>1, <2>2, <2>3 DEF HoldsCell, Halted
<1>5. OneAtWork'
  <2> SUFFICES ASSUME NEW q \in Processes, NEW r \in Processes,
                      AtWork(q)', AtWork(r)', at'[q].batch = at'[r].batch
               PROVE  q = r
    BY DEF OneAtWork, AtWork
  <2>1. CASE q # p /\ r # p
    BY <1>3, <2>1 DEF WorkInv, OneAtWork
  <2>2. CASE q = p \/ r = p
    BY <1>3, <1>4, <2>2
  <2> QED BY <2>1, <2>2
<1> QED BY <1>3, <1>4, <1>5 DEF WorkInv

LEMMA RecordWork ==
  ASSUME TypeOK, WorkInv, NEW p \in Processes, Record(p), Alone(p)
  PROVE  WorkInv'
<1>1. PICK b \in Batches : b = at[p].batch
  BY DEF Record, TypeOK
<1>2. pc'[p] = "idle" /\ AtWork(p) /\ UNCHANGED claim
  BY LeaveAlone DEF Record, AtWork
<1>3. \A d \in Batches : d # b => outcome'[d] = outcome[d]
  BY <1>1 DEF Record, TypeOK
<1>4. ASSUME NEW q \in Processes, AtWork(q)'
      PROVE  AtWork(q) /\ at'[q] = at[q] /\ HoldsCell(q)'
  <2>1. q # p /\ AtWork(q) /\ at'[q] = at[q]
    BY <1>2, <1>4 DEF Alone, AtWork
  <2>2. at[q].batch # b /\ at[q].batch \in Batches /\ HoldsCell(q)
    BY <1>1, <1>2, <2>1 DEF WorkInv, OneAtWork, AtWork, TypeOK
  <2> QED BY <1>2, <1>3, <2>1, <2>2 DEF HoldsCell, Halted
<1>5. OneAtWork'
  BY <1>4 DEF WorkInv, OneAtWork, AtWork
<1> QED BY <1>4, <1>5 DEF WorkInv

LEMMA OtherWork ==
  ASSUME TypeOK, WorkInv, NEW p \in Processes, Act(p), UNCHANGED <<claim, outcome>>,
         ~\E c \in Cells : Claim(p, c)
  PROVE  WorkInv'
<1>1. ASSUME NEW q \in Processes, AtWork(q)'
      PROVE  AtWork(q) /\ at'[q] = at[q]
  <2>1. CASE q = p
    BY <1>1, <2>1, WorkBegins
  <2>2. CASE q # p
    BY <1>1, <2>2, ActAlone DEF Alone, AtWork
  <2> QED BY <2>1, <2>2
<1>2. ASSUME NEW q \in Processes, AtWork(q)'
      PROVE  HoldsCell(q)'
  <2>1. HoldsCell(q) /\ at'[q] = at[q]
    BY <1>1, <1>2 DEF WorkInv
  <2> QED BY <2>1 DEF HoldsCell, Halted
<1>3. OneAtWork'
  BY <1>1 DEF WorkInv, OneAtWork, AtWork
<1> QED BY <1>2, <1>3 DEF WorkInv

LEMMA WorkStep == TypeOK /\ WorkInv /\ [Next]_vars => WorkInv'
<1> SUFFICES ASSUME TypeOK, WorkInv, [Next]_vars PROVE WorkInv'
  OBVIOUS
<1>1. CASE UNCHANGED vars
  BY <1>1 DEF vars, files, locals, WorkInv, OneAtWork, AtWork, HoldsCell, Halted
<1>2. ASSUME NEW p \in Processes, Act(p)
      PROVE  WorkInv'
  <2>1. Alone(p)
    BY <1>2, ActAlone
  <2>2. CASE \E c \in Cells : Claim(p, c)
    BY <2>1, <2>2, ClaimWork
  <2>3. CASE Record(p)
    BY <2>1, <2>3, RecordWork
  <2>4. CASE UNCHANGED <<claim, outcome>> /\ ~\E c \in Cells : Claim(p, c)
    BY <1>2, <2>4, OtherWork
  <2> QED BY <1>2, <2>2, <2>3, <2>4, RegistryFrame
<1> QED BY <1>1, <1>2, NextIsAct

LEMMA WorkInit == Init => WorkInv
BY DEF Init, WorkInv, OneAtWork, AtWork

(* "no retry or parallel dispatch": of all the processes that ask for the  *)
(* next cell of a batch, one works, until its cell is closed.              *)
THEOREM NoParallelWork == Spec => []OneAtWork
<1>1. WorkInv => OneAtWork
  BY DEF WorkInv
<1> QED BY <1>1, WorkInit, WorkStep, TypeCorrect, PTL DEF Spec

--------------------------------------------------------------------------------
(* A request is sent once, after its reservation, and never after a stop *)

(* A request that is about to be sent is reserved and was never sent, and  *)
(* every other request of its batch is settled.                            *)
CanPost(p) ==
  LET b == at[p].batch
      k == Key(p)
  IN /\ entry[b][k].res = "held" /\ entry[b][k].out = "none" /\ sent[b][k] = 0
     /\ Answered(b) = Settled(b)
     /\ \A j \in Keys : entry[b][j].res # "torn" /\ entry[b][j].out # "torn"

PostInv == SentOnceReserved /\ \A p \in Processes : pc[p] = "posting" => CanPost(p)

(* Only a posting process sends. *)
LEMMA SentFrame ==
  ASSUME NEW p \in Processes, Act(p)
  PROVE  UNCHANGED sent \/ Post(p)
BY DEF Act, Prepare, Admit, AdmitOffline, DeriveCarry, OpenLedger, Claim, Start, NextDecision,
       Conclude, Reserve, ReserveFails, Settle, SettleFails, Finish, RunOffline, Record, Abort,
       provider

(* Only a reservation lets a process post. *)
LEMMA PostingBegins ==
  ASSUME TypeOK, NEW p \in Processes, Act(p), pc'[p] = "posting"
  PROVE  Reserve(p)
<1>1. ~Leave(p)
  BY LeaveAlone
<1>2. \A verdict : ~Concludes(p, verdict)
  BY DEF Concludes, TypeOK
<1> QED BY <1>1, <1>2 DEF Act, Prepare, Admit, AdmitOffline, DeriveCarry, OpenLedger, Claim,
                          Start, NextDecision, Conclude, ReserveFails, Post, AfterPost, Settle,
                          SettleFails, Unaccounted, Finish, RunOffline, Record, Abort, TypeOK

(* What a process at work writes in a ledger is in its own batch. *)
LEMMA OtherLedgers ==
  ASSUME TypeOK, WorkInv, NEW p \in Processes, Act(p),
         NEW q \in Processes, q # p, AtWork(q)
  PROVE  entry'[at[q].batch] = entry[at[q].batch] /\ sent'[at[q].batch] = sent[at[q].batch]
<1>1. at[q].batch \in Batches
  BY DEF AtWork, TypeOK
<1>2. AtWork(p) => at[p].batch # at[q].batch
  BY DEF WorkInv, OneAtWork
<1>3. entry'[at[q].batch] = entry[at[q].batch]
  <2>1. ASSUME NEW b \in Batches, NEW k \in Keys, NEW e \in Entry,
               Reserves(p, b, k, e) \/ Answers(p, b, k, e)
        PROVE  entry'[at[q].batch] = entry[at[q].batch]
    <3>1. b # at[q].batch
      BY <1>2, <2>1 DEF Reserves, Answers, AtWork
    <3>2. entry' = [entry EXCEPT ![b] = [entry[b] EXCEPT ![k] = e]]
      BY <2>1 DEF Reserves, Answers
    <3> QED BY <1>1, <3>1, <3>2 DEF TypeOK
  <2> QED BY <2>1, LedgerStep
<1>4. sent'[at[q].batch] = sent[at[q].batch]
  <2>1. CASE Post(p)
    <3>1. at[p].batch # at[q].batch
      BY <1>2, <2>1 DEF Post, AtWork
    <3> QED BY <1>1, <2>1, <3>1 DEF Post, TypeOK
  <2> QED BY <2>1, SentFrame
<1> QED BY <1>3, <1>4

LEMMA ReservePost ==
  ASSUME TypeOK, PostInv, NEW p \in Processes, Reserve(p)
  PROVE  CanPost(p)'
<1>1. PICK b \in Batches, k \in Keys : b = at[p].batch /\ k = Key(p)
  BY DEF Reserve, TypeOK
<1>2. at' = at /\ step' = step /\ sent' = sent /\ k = Key(p)'
  BY <1>1 DEF Reserve, provider, Key
<1> DEFINE e == [entry[b][k] EXCEPT !.res = "held"]
<1>3. /\ entry[b][k].res = "none" /\ Answered(b) = Settled(b) /\ Reserved(b) = Answered(b)
      /\ \A j \in Keys : entry[b][j].res # "torn" /\ entry[b][j].out # "torn"
  BY <1>1 DEF Reserve, CanReserve, LedgerState, RecordsValid
<1>4. entry[b][k].out = "none"
  BY <1>3 DEF Reserved, Answered
<1>5. e \in Entry /\ e.res = "held" /\ e.out = "none"
  <2>1. entry[b][k] \in Entry
    BY DEF TypeOK
  <2> QED BY <1>4, <2>1 DEF Entry
<1>6. entry' = [entry EXCEPT ![b] = [entry[b] EXCEPT ![k] = e]]
  BY <1>1 DEF Reserve, TypeOK
<1>7. \A j \in Keys : entry'[b][j] = IF j = k THEN e ELSE entry[b][j]
  <2> HIDE DEF e
  <2> QED BY <1>5, <1>6 DEF TypeOK
<1>8. Answered(b)' = Answered(b) /\ Settled(b)' = Settled(b)
  <2> HIDE DEF e
  <2> QED BY <1>4, <1>5, <1>7 DEF Answered, Settled
<1>9. sent'[b][k] = 0
  <2>1. sent[b][k] \in Nat /\ sent[b][k] <= 1 /\ sent[b][k] # 1
    <3>1. sent[b][k] \in Nat
      BY DEF TypeOK
    <3>2. sent[b][k] <= 1 /\ (sent[b][k] = 1 => entry[b][k].res = "held")
      BY DEF PostInv, SentOnceReserved
    <3> QED BY <1>3, <3>1, <3>2
  <2> QED BY <1>2, <2>1
<1> HIDE DEF e
<1>10. \A j \in Keys : entry'[b][j].res # "torn" /\ entry'[b][j].out # "torn"
  BY <1>3, <1>5, <1>7
<1>11. at'[p].batch = b
  BY <1>1, <1>2
<1> QED BY <1>2, <1>3, <1>5, <1>7, <1>8, <1>9, <1>10, <1>11 DEF CanPost

LEMMA SentStep ==
  ASSUME TypeOK, PostInv, NEW p \in Processes, Act(p)
  PROVE  SentOnceReserved'
<1> SUFFICES ASSUME NEW b \in Batches, NEW k \in Keys
             PROVE  sent'[b][k] <= 1 /\ (sent'[b][k] = 1 => entry'[b][k].res = "held")
  BY DEF SentOnceReserved
<1>1. /\ sent[b][k] \in Nat /\ sent[b][k] <= 1
      /\ sent[b][k] = 1 => entry[b][k].res = "held"
  BY DEF PostInv, SentOnceReserved, TypeOK
<1>2. CASE Post(p)
  <2>1. UNCHANGED entry
    BY <1>2 DEF Post, files
  <2>2. /\ at[p].batch \in Batches /\ Key(p) \in Keys
        /\ sent' = [sent EXCEPT ![at[p].batch][Key(p)] = @ + 1]
    BY <1>2 DEF Post, TypeOK
  <2>3. CASE b = at[p].batch /\ k = Key(p)
    <3>1. entry[b][k].res = "held" /\ sent[b][k] = 0
      BY <1>2, <2>3 DEF Post, PostInv, CanPost
    <3>2. sent'[b][k] = sent[b][k] + 1
      BY <2>2, <2>3 DEF TypeOK
    <3> QED BY <2>1, <3>1, <3>2
  <2>4. CASE ~(b = at[p].batch /\ k = Key(p))
    <3>1. sent'[b][k] = sent[b][k]
      BY <2>2, <2>4 DEF TypeOK
    <3> QED BY <1>1, <2>1, <3>1
  <2> QED BY <2>3, <2>4
<1>3. CASE UNCHANGED sent
  <2>1. CASE UNCHANGED entry
    BY <1>1, <1>3, <2>1
  <2>2. ASSUME NEW a \in Batches, NEW j \in Keys, NEW e \in Entry,
               Reserves(p, a, j, e) \/ Answers(p, a, j, e)
        PROVE  entry[b][k].res = "held" => entry'[b][k].res = "held"
    <3>1. entry' = [entry EXCEPT ![a] = [entry[a] EXCEPT ![j] = e]]
      BY <2>2 DEF Reserves, Answers
    <3>2. entry[a][j].res = "held" => e.res = "held"
      BY <2>2 DEF Reserves, Answers, CanReserve
    <3> QED BY <3>1, <3>2 DEF TypeOK
  <2> QED BY <1>1, <1>3, <2>1, <2>2, LedgerStep
<1> QED BY <1>2, <1>3, SentFrame

LEMMA PostStep == TypeOK /\ WorkInv /\ PostInv /\ [Next]_vars => PostInv'
<1> SUFFICES ASSUME TypeOK, WorkInv, PostInv, [Next]_vars PROVE PostInv'
  OBVIOUS
<1>1. CASE UNCHANGED vars
  BY <1>1 DEF vars, files, locals, provider, PostInv, SentOnceReserved, CanPost, Key, Answered, Settled
<1>2. ASSUME NEW p \in Processes, Act(p)
      PROVE  PostInv'
  <2>1. SentOnceReserved'
    BY <1>2, SentStep
  <2>2. ASSUME NEW q \in Processes, pc'[q] = "posting"
        PROVE  CanPost(q)'
    <3>1. CASE q = p
      BY <1>2, <2>2, <3>1, PostingBegins, ReservePost
    <3>2. CASE q # p
      <4>1. pc[q] = "posting" /\ at'[q] = at[q] /\ step'[q] = step[q]
        BY <1>2, <2>2, <3>2, ActAlone DEF Alone
      <4>2. CanPost(q) /\ AtWork(q)
        BY <4>1 DEF PostInv, AtWork
      <4>3. entry'[at[q].batch] = entry[at[q].batch] /\ sent'[at[q].batch] = sent[at[q].batch]
        BY <1>2, <3>2, <4>2, OtherLedgers
      <4> QED BY <4>1, <4>2, <4>3 DEF CanPost, Key, Answered, Settled
    <3> QED BY <3>1, <3>2
  <2> QED BY <2>1, <2>2 DEF PostInv
<1> QED BY <1>1, <1>2, NextIsAct

LEMMA PostInit == Init => PostInv
BY DEF Init, PostInv, SentOnceReserved

(* "Persist a full conservative reservation before any provider dispatch": *)
(* no request reaches the provider twice or without its reservation on     *)
(* disk, whichever processes die or meet.                                  *)
THEOREM NeverSentTwice == Spec => []SentOnceReserved
<1>1. PostInv => SentOnceReserved
  BY DEF PostInv
<1> QED BY <1>1, PostInit, PostStep, WorkInit, WorkStep, TypeCorrect, PTL DEF Spec

(* A batch that halted, has an unknown or unusable outcome or an           *)
(* unreadable file sends nothing more.                                     *)
THEOREM StopIsFinal == Spec => NoPostAfterStop
<1>1. TypeOK /\ WorkInv /\ PostInv /\ [Next]_vars
        => [\A b \in Batches : Stopped(b) => sent'[b] = sent[b]]_vars
  <2> SUFFICES ASSUME TypeOK, WorkInv, PostInv, NEW p \in Processes, Post(p),
                      NEW b \in Batches, Stopped(b)
               PROVE  sent'[b] = sent[b]
    BY NextIsAct, SentFrame
  <2>1. at[p].batch # b
    <3>1. CanPost(p) /\ HoldsCell(p)
      BY DEF Post, PostInv, WorkInv, AtWork
    <3> QED BY <3>1 DEF Stopped, Torn, CanPost, HoldsCell
  <2> QED BY <2>1 DEF Post, TypeOK
<1> QED BY <1>1, PostInit, PostStep, WorkInit, WorkStep, TypeCorrect, PTL DEF Spec, NoPostAfterStop

--------------------------------------------------------------------------------
(* What a step leaves alone: a process writes in the batch it works on, or *)
(* claims from, and nowhere else but in the policy and the lock.           *)

Unmoved(b) ==
  /\ claim'[b] = claim[b] /\ outcome'[b] = outcome[b] /\ run'[b] = run[b]
  /\ entry'[b] = entry[b] /\ spent'[b] = spent[b]
  /\ sent'[b] = sent[b] /\ billed'[b] = billed[b]

LEMMA RunFrame ==
  ASSUME NEW p \in Processes, Act(p)
  PROVE  UNCHANGED run \/ Start(p) \/ Finish(p) \/ RunOffline(p)
BY DEF Act, Prepare, Admit, AdmitOffline, DeriveCarry, OpenLedger, Claim, NextDecision,
       Conclude, Reserve, ReserveFails, Post, Settle, SettleFails, Record, Abort, files

LEMMA BillFrame ==
  ASSUME NEW p \in Processes, Act(p)
  PROVE  UNCHANGED <<sent, billed>> \/ Post(p)
BY DEF Act, Prepare, Admit, AdmitOffline, DeriveCarry, OpenLedger, Claim, Start, NextDecision,
       Conclude, Reserve, ReserveFails, Settle, SettleFails, Finish, RunOffline, Record, Abort,
       provider

LEMMA BatchFrame ==
  ASSUME TypeOK, NEW p \in Processes, Act(p), NEW b \in Batches,
         AtWork(p) => at[p].batch # b, \A c \in Cells : Claim(p, c) => at[p].batch # b
  PROVE  Unmoved(b)
<1>1. claim'[b] = claim[b] /\ outcome'[b] = outcome[b]
  <2>1. CASE UNCHANGED <<claim, outcome>>
    BY <2>1
  <2>2. ASSUME NEW c \in Cells, Claim(p, c)
        PROVE  claim'[b] = claim[b] /\ outcome'[b] = outcome[b]
    <3>1. at[p].batch # b
      BY <2>2
    <3> QED BY <2>2, <3>1 DEF Claim, TypeOK
  <2>3. CASE Record(p)
    <3>1. at[p].batch # b
      BY <2>3 DEF Record, AtWork
    <3> QED BY <2>3, <3>1 DEF Record, TypeOK
  <2> QED BY <2>1, <2>2, <2>3, RegistryFrame
<1>2. run'[b] = run[b]
  <2>1. CASE Start(p) \/ Finish(p) \/ RunOffline(p)
    <3>1. at[p].batch # b
      BY <2>1 DEF Start, Finish, RunOffline, AtWork
    <3> QED BY <2>1, <3>1 DEF Start, Finish, RunOffline, TypeOK
  <2> QED BY <2>1, RunFrame
<1>3. entry'[b] = entry[b] /\ spent'[b] = spent[b]
  <2>1. ASSUME NEW a \in Batches, NEW k \in Keys, NEW e \in Entry, Reserves(p, a, k, e)
        PROVE  entry'[b] = entry[b] /\ spent'[b] = spent[b]
    <3>1. a # b
      BY <2>1 DEF Reserves, AtWork
    <3> QED BY <2>1, <3>1 DEF Reserves, TypeOK
  <2>2. ASSUME NEW a \in Batches, NEW k \in Keys, NEW e \in Entry, Answers(p, a, k, e)
        PROVE  entry'[b] = entry[b] /\ spent'[b] = spent[b]
    <3>1. a # b
      BY <2>2 DEF Answers, AtWork
    <3> QED BY <2>2, <3>1 DEF Answers, TypeOK
  <2> QED BY <2>1, <2>2, LedgerStep
<1>4. sent'[b] = sent[b] /\ billed'[b] = billed[b]
  <2>1. CASE Post(p)
    <3>1. at[p].batch # b
      BY <2>1 DEF Post, AtWork
    <3> QED BY <2>1, <3>1 DEF Post, TypeOK
  <2> QED BY <2>1, BillFrame
<1> QED BY <1>1, <1>2, <1>3, <1>4 DEF Unmoved

(* Nobody else writes in the batch of a process at work ... *)
LEMMA OthersUnmoved ==
  ASSUME TypeOK, WorkInv, NEW p \in Processes, Act(p), NEW q \in Processes, q # p, AtWork(q)
  PROVE  at[q].batch \in Batches /\ Unmoved(at[q].batch)
<1>1. at[q].batch \in Batches
  BY DEF AtWork, TypeOK
<1>2. AtWork(p) => at[p].batch # at[q].batch
  BY DEF WorkInv, OneAtWork
<1>3. \A c \in Cells : Claim(p, c) => at[p].batch # at[q].batch
  BY ClaimFindsNobody
<1> QED BY <1>1, <1>2, <1>3, BatchFrame

(* ... and nobody at all in a batch that has halted. *)
LEMMA HaltedUnmoved ==
  ASSUME TypeOK, WorkInv, NEW p \in Processes, Act(p), NEW b \in Batches, Halted(b)
  PROVE  Unmoved(b)
<1>1. AtWork(p) => at[p].batch # b
  BY DEF WorkInv, HoldsCell
<1>2. \A c \in Cells : Claim(p, c) => at[p].batch # b
  BY DEF Claim, Claimable
<1> QED BY <1>1, <1>2, BatchFrame

--------------------------------------------------------------------------------
(* The registry of a batch *)

(* Every claim follows the outcomes of all earlier cells, and an outcome   *)
(* repeats the verdict its runner left.                                    *)
RegistryOf(b) ==
  /\ Closed(b) \subseteq Claimed(b)
  /\ \A c \in Claimed(b) : c > 1 => c - 1 \in Closed(b)
  /\ \A c \in Cells : outcome[b][c] \in OutcomeState =>
       /\ run[b][c].state = "finished"
       /\ outcome[b][c] \in {run[b][c].verdict, "halted_model_drift"}

RegistryInv == \A b \in Batches : RegistryOf(b)

LEMMA RegistryUnmoved ==
  ASSUME NEW b \in Batches, RegistryOf(b), claim'[b] = claim[b], outcome'[b] = outcome[b],
         run'[b] = run[b]
  PROVE  RegistryOf(b)'
BY DEF RegistryOf, Closed, Claimed

LEMMA RegistryStep ==
  ASSUME TypeOK, WorkInv, RegistryInv, NEW p \in Processes, Act(p)
  PROVE  RegistryInv'
<1> SUFFICES ASSUME NEW b \in Batches PROVE RegistryOf(b)'
  BY DEF RegistryInv
<1>1. RegistryOf(b)
  BY DEF RegistryInv
<1>2. ASSUME NEW c \in Cells, Claim(p, c), at[p].batch = b
      PROVE  RegistryOf(b)'
  <2>1. /\ Claimed(b) = Closed(b) /\ 1..(c - 1) \subseteq Claimed(b)
        /\ UNCHANGED <<outcome, run>>
        /\ \E state \in {"ticket", "torn"} : claim' = [claim EXCEPT ![b][c] = state]
    BY <1>2 DEF Claim, Claimable
  <2>2. Claimed(b)' = Claimed(b) \cup {c} /\ Closed(b)' = Closed(b)
    BY <2>1 DEF Claimed, Closed, TypeOK
  <2>3. \A d \in Claimed(b)' : d > 1 => d - 1 \in Closed(b)'
    <3>1. c > 1 => c - 1 \in 1..(c - 1)
      BY SpendAssumption DEF Cells
    <3> QED BY <1>1, <2>1, <2>2, <3>1 DEF RegistryOf
  <2> QED BY <1>1, <2>1, <2>2, <2>3 DEF RegistryOf
<1>3. CASE Record(p) /\ at[p].batch = b
  <2> DEFINE c == at[p].cell
  <2>1. c \in Cells
    BY <1>3 DEF Record, TypeOK
  <2>2. PICK state \in {run[b][c].verdict, "torn", "halted_model_drift"} :
          outcome' = [outcome EXCEPT ![b][c] = state]
    BY <1>3 DEF Record
  <2>3. /\ run[b][c].state = "finished" /\ UNCHANGED <<claim, run>>
        /\ c \in Claimed(b)
    BY <1>3, <2>1 DEF Record, Claimed
  <2>4. outcome'[b] = [outcome[b] EXCEPT ![c] = state]
    BY <2>1, <2>2 DEF TypeOK
  <2>5. \A d \in Cells : outcome'[b][d] = IF d = c THEN state ELSE outcome[b][d]
    BY <2>1, <2>4 DEF TypeOK
  <2>6. Claimed(b)' = Claimed(b)
    BY <2>3 DEF Claimed
  <2>7. Closed(b) \subseteq Closed(b)' /\ Closed(b)' \subseteq Closed(b) \cup {c}
    <3>1. outcome[b][c] = "none"
      BY <1>3 DEF Record
    <3> QED BY <2>5, <3>1 DEF Closed
  <2>8. "torn" \notin OutcomeState
    BY DEF OutcomeState, HaltedState
  <2> QED BY <1>1, <2>2, <2>3, <2>5, <2>6, <2>7, <2>8 DEF RegistryOf
<1>4. CASE (Start(p) \/ Finish(p) \/ RunOffline(p)) /\ at[p].batch = b
  <2> DEFINE c == at[p].cell
  <2>1. /\ outcome[b][c] = "none" /\ UNCHANGED <<claim, outcome>>
        /\ \A d \in Cells : d # c => run'[b][d] = run[b][d]
    <3>1. HoldsCell(p)
      BY <1>4 DEF Start, Finish, RunOffline, WorkInv, AtWork
    <3>2. UNCHANGED <<claim, outcome>>
      BY <1>4 DEF Start, Finish, RunOffline
    <3>3. \A d \in Cells : d # c => run'[b][d] = run[b][d]
      <4>1. CASE Start(p)
        BY <1>4, <4>1 DEF Start, TypeOK
      <4>2. CASE Finish(p)
        BY <1>4, <4>2 DEF Finish, TypeOK
      <4>3. CASE RunOffline(p)
        BY <1>4, <4>3 DEF RunOffline, TypeOK
      <4> QED BY <1>4, <4>1, <4>2, <4>3
    <3> QED BY <1>4, <3>1, <3>2, <3>3 DEF HoldsCell
  <2>2. "none" \notin OutcomeState
    BY DEF OutcomeState, HaltedState
  <2>3. Closed(b)' = Closed(b) /\ Claimed(b)' = Claimed(b)
    BY <2>1 DEF Closed, Claimed
  <2> QED BY <1>1, <2>1, <2>2, <2>3 DEF RegistryOf
<1>5. CASE ~(\E c \in Cells : Claim(p, c)) /\ ~Record(p) /\ ~(Start(p) \/ Finish(p) \/ RunOffline(p))
  BY <1>1, <1>5, RegistryFrame, RunFrame, RegistryUnmoved
<1>6. CASE at[p].batch # b
  BY <1>1, <1>6, BatchFrame, RegistryUnmoved DEF Unmoved
<1> QED BY <1>2, <1>3, <1>4, <1>5, <1>6

--------------------------------------------------------------------------------
(* The entries of a ledger *)

(* Only reserved requests of claimed cells are answered, and a request is  *)
(* reserved after every earlier one of its cell has settled.               *)
RecordsOf(b) ==
  /\ Answered(b) \subseteq Reserved(b)
  /\ \A k \in Reserved(b) :
       /\ claim[b][k[1]] = "ticket"
       /\ \A d \in 1..(k[2] - 1) : <<k[1], d>> \in Settled(b)

RecordsInv == \A b \in Batches : RecordsOf(b)

LEMMA RecordsGrow ==
  ASSUME NEW b \in Batches, RecordsOf(b), Answered(b)' \subseteq Reserved(b)',
         Settled(b) \subseteq Settled(b)',
         \A c \in Cells : claim[b][c] = "ticket" => claim'[b][c] = "ticket",
         \A k \in Reserved(b)' : k \notin Reserved(b) =>
           /\ claim'[b][k[1]] = "ticket"
           /\ \A d \in 1..(k[2] - 1) : <<k[1], d>> \in Settled(b)
  PROVE  RecordsOf(b)'
<1> SUFFICES ASSUME NEW k \in Reserved(b)'
             PROVE  /\ claim'[b][k[1]] = "ticket"
                    /\ \A d \in 1..(k[2] - 1) : <<k[1], d>> \in Settled(b)'
  BY DEF RecordsOf
<1>1. k[1] \in Cells
  BY DEF Reserved, Keys
<1> QED BY <1>1 DEF RecordsOf

(* A claim that parses is never written again. *)
LEMMA TicketsStay ==
  ASSUME TypeOK, NEW p \in Processes, Act(p), NEW b \in Batches, NEW c \in Cells,
         claim[b][c] = "ticket"
  PROVE  claim'[b][c] = "ticket"
<1>1. ASSUME NEW d \in Cells, Claim(p, d)
      PROVE  claim'[b][c] = "ticket"
  <2>1. ~(at[p].batch = b /\ d = c)
    BY <1>1 DEF Claim, Claimable, Claimed
  <2>2. PICK state \in {"ticket", "torn"} : claim' = [claim EXCEPT ![at[p].batch][d] = state]
    BY <1>1 DEF Claim
  <2> QED BY <1>1, <2>1, <2>2 DEF Claim, TypeOK
<1>2. CASE Record(p)
  BY <1>2 DEF Record
<1> QED BY <1>1, <1>2, RegistryFrame

LEMMA RecordsStep ==
  ASSUME TypeOK, RecordsInv, NEW p \in Processes, Act(p)
  PROVE  RecordsInv'
<1> SUFFICES ASSUME NEW b \in Batches PROVE RecordsOf(b)'
  BY DEF RecordsInv
<1>1. RecordsOf(b)
  BY DEF RecordsInv
<1>2. \A c \in Cells : claim[b][c] = "ticket" => claim'[b][c] = "ticket"
  BY TicketsStay
<1>3. entry \in [Batches -> [Keys -> Entry]]
  BY DEF TypeOK
<1>4. CASE entry'[b] = entry[b]
  <2>1. Reserved(b)' = Reserved(b) /\ Answered(b)' = Answered(b) /\ Settled(b)' = Settled(b)
    BY <1>4 DEF Reserved, Answered, Settled
  <2> QED BY <1>1, <1>2, <2>1, RecordsGrow DEF RecordsOf
<1>5. ASSUME NEW k \in Keys, NEW e \in Entry, Reserves(p, b, k, e)
      PROVE  RecordsOf(b)'
  <2>1. /\ claim[b][k[1]] = "ticket" /\ k[1] \in Cells
        /\ \A d \in 1..(k[2] - 1) : <<k[1], d>> \in Settled(b)
        /\ e.res # "none" /\ e.out = entry[b][k].out
        /\ entry' = [entry EXCEPT ![b] = [entry[b] EXCEPT ![k] = e]]
    BY <1>5 DEF Reserves, CanReserve, Keys
  <2>2. /\ Reserved(b)' = Reserved(b) \cup {k} /\ Settled(b)' = Settled(b)
        /\ Answered(b)' = Answered(b)
    BY <1>3, <2>1, EntrySets DEF Settled, Answered
  <2> QED BY <1>1, <1>2, <2>1, <2>2, RecordsGrow DEF RecordsOf
<1>6. ASSUME NEW k \in Keys, NEW e \in Entry, Answers(p, b, k, e)
      PROVE  RecordsOf(b)'
  <2>1. /\ k \in Reserved(b) /\ k \notin Settled(b) /\ e.res # "none" /\ e.out # "none"
        /\ entry' = [entry EXCEPT ![b] = [entry[b] EXCEPT ![k] = e]]
    BY <1>6 DEF Answers, CanFinish, Reserved, Settled
  <2>2. /\ Reserved(b)' = Reserved(b) \cup {k}
        /\ Answered(b)' = Answered(b) \cup {k}
        /\ Settled(b)' = IF e.out = "settled" THEN Settled(b) \cup {k} ELSE Settled(b) \ {k}
    BY <1>3, <2>1, EntrySets
  <2>3. Reserved(b)' = Reserved(b) /\ Settled(b) \subseteq Settled(b)'
    BY <2>1, <2>2
  <2> QED BY <1>1, <1>2, <2>1, <2>2, <2>3, RecordsGrow DEF RecordsOf
<1>7. ASSUME NEW a \in Batches, NEW k \in Keys, NEW e \in Entry, a # b,
             Reserves(p, a, k, e) \/ Answers(p, a, k, e)
      PROVE  entry'[b] = entry[b]
  BY <1>7 DEF Reserves, Answers, TypeOK
<1> QED BY <1>4, <1>5, <1>6, <1>7, LedgerStep

(* What the ledger says it spent is the sum of its charges, and nothing is *)
(* charged before the outcome.                                             *)
Charges(b) == [k \in Keys |-> entry[b][k].charge]

SumOf(b) ==
  /\ spent[b] = SumFunction(Charges(b))
  /\ \A k \in Keys : entry[b][k].out = "none" => entry[b][k].charge = 0

SumInv == \A b \in Batches : SumOf(b)

LEMMA SumStep ==
  ASSUME TypeOK, SumInv, NEW p \in Processes, Act(p)
  PROVE  SumInv'
<1> SUFFICES ASSUME NEW b \in Batches PROVE SumOf(b)'
  BY DEF SumInv
<1>1. SumOf(b)
  BY DEF SumInv
<1>2. entry[b] \in [Keys -> Entry] /\ spent[b] \in Nat
  BY DEF TypeOK
<1>3. Charges(b) \in [Keys -> Nat]
  <2>1. ASSUME NEW k \in Keys
        PROVE  entry[b][k].charge \in Nat
    BY <1>2, SpendAssumption DEF Entry
  <2> QED BY <2>1 DEF Charges
<1>4. CASE entry'[b] = entry[b] /\ spent'[b] = spent[b]
  BY <1>1, <1>4 DEF SumOf, Charges
<1>5. ASSUME NEW k \in Keys, NEW e \in Entry, Reserves(p, b, k, e)
      PROVE  SumOf(b)'
  <2>1. \A j \in Keys : entry'[b][j] = IF j = k THEN e ELSE entry[b][j]
    BY <1>2, <1>5 DEF Reserves, TypeOK
  <2>2. e.out = entry[b][k].out /\ e.charge = entry[b][k].charge /\ spent' = spent
    BY <1>5 DEF Reserves
  <2>3. Charges(b)' = Charges(b)
    BY <2>1, <2>2 DEF Charges
  <2> QED BY <1>1, <2>1, <2>2, <2>3 DEF SumOf
<1>6. ASSUME NEW k \in Keys, NEW e \in Entry, Answers(p, b, k, e)
      PROVE  SumOf(b)'
  <2>1. \A j \in Keys : entry'[b][j] = IF j = k THEN e ELSE entry[b][j]
    BY <1>2, <1>6 DEF Answers, TypeOK
  <2>2. entry[b][k].charge = 0 /\ e.out # "none"
    BY <1>1, <1>6 DEF Answers, CanFinish, SumOf
  <2>3. PICK charge \in 0..Reservation :
          spent' = [spent EXCEPT ![b] = spent[b] + charge] /\ e.charge = charge
    BY <1>6, <2>2 DEF Answers
  <2>4. charge \in Nat /\ spent'[b] = spent[b] + charge
    BY <2>3, SpendAssumption DEF TypeOK
  <2>5. PICK f, g : f = Charges(b) /\ g = Charges(b)'
    OBVIOUS
  <2>6. /\ f \in [Keys -> Nat] /\ g \in [Keys -> Nat] /\ f[k] = 0 /\ g[k] = charge
        /\ \A j \in Keys \ {k} : g[j] = f[j]
    <3>1. f \in [Keys -> Nat]
      BY <1>3, <2>5
    <3>2. g = [f EXCEPT ![k] = charge]
      BY <2>1, <2>3, <2>5 DEF Charges
    <3>3. f[k] = 0
      BY <2>2, <2>5 DEF Charges
    <3> QED  BY <2>4, <3>1, <3>2, <3>3
  <2>7. SumFunction(g) + f[k] = SumFunction(f) + g[k]
    BY <2>6, KeysFinite, SumUpdate
  <2>8. SumFunction(f) \in Nat /\ SumFunction(g) \in Nat
    BY <2>6, KeysFinite, SumType
  <2>9. spent'[b] = SumFunction(Charges(b)')
    BY <1>1, <2>4, <2>5, <2>6, <2>7, <2>8 DEF SumOf
  <2> QED BY <1>1, <2>1, <2>2, <2>9 DEF SumOf
<1>7. ASSUME NEW a \in Batches, NEW k \in Keys, NEW e \in Entry, a # b,
             Reserves(p, a, k, e) \/ Answers(p, a, k, e)
      PROVE  entry'[b] = entry[b] /\ spent'[b] = spent[b]
  BY <1>7 DEF Reserves, Answers, TypeOK
<1> QED BY <1>4, <1>5, <1>6, <1>7, LedgerStep

--------------------------------------------------------------------------------
(* Carried budgets *)

(* What an opening or a frozen ledger carries is what its predecessor's    *)
(* files say.                                                              *)
Carried(o) ==
  o.pred # None =>
    /\ Carriable(o.pred)
    /\ Carry(o.pred) = [pred |-> o.pred, count |-> o.count, spent |-> o.spent]

CarryInv ==
  /\ \A p \in Processes : pc[p] = "opening" => Carried(offer[p])
  /\ \A b \in Batches : Frozen(b) => Carried(policy[b])

(* A ledger is opened once. *)
LEMMA FrozenStays ==
  ASSUME TypeOK, NEW p \in Processes, Act(p), NEW b \in Batches, Frozen(b)
  PROVE  policy'[b] = policy[b]
<1>1. CASE OpenLedger(p)
  <2>1. at[p].batch # b
    BY <1>1 DEF OpenLedger, Frozen
  <2> QED BY <1>1, <2>1 DEF OpenLedger, TypeOK
<1> QED BY <1>1, PolicyFrame

(* A batch that has stopped can be carried for ever, and always for the    *)
(* same amount: nobody works in it any more.                               *)
LEMMA CarriableStays ==
  ASSUME TypeOK, WorkInv, NEW p \in Processes, Act(p), NEW b \in Batches, Carriable(b)
  PROVE  Carriable(b)' /\ Carry(b)' = Carry(b)
<1>1. Unmoved(b)
  BY HaltedUnmoved DEF Carriable
<1>2. policy'[b] = policy[b]
  BY FrozenStays DEF Carriable, Frozen
<1>3. /\ claim'[b] = claim[b] /\ outcome'[b] = outcome[b] /\ run'[b] = run[b]
      /\ entry'[b] = entry[b] /\ spent'[b] = spent[b]
  BY <1>1 DEF Unmoved
<1>4. /\ Claimed(b)' = Claimed(b) /\ Closed(b)' = Closed(b) /\ Halted(b)' = Halted(b)
      /\ Reserved(b)' = Reserved(b) /\ Answered(b)' = Answered(b) /\ Settled(b)' = Settled(b)
  BY <1>3 DEF Claimed, Closed, Halted, Reserved, Answered, Settled
<1>5. Attempted(b)' = Attempted(b) /\ Carry(b)' = Carry(b)
  BY <1>3, <1>4 DEF Attempted, Carry
<1>6. RegistryValid(b)'
  BY <1>3, <1>4 DEF Carriable, RegistryValid
<1>7. RecordsValid(b)'
  BY <1>3, <1>4 DEF Carriable, RecordsValid
<1> QED BY <1>2, <1>4, <1>5, <1>6, <1>7 DEF Carriable

LEMMA CarriedStays ==
  ASSUME TypeOK, WorkInv, NEW p \in Processes, Act(p),
         NEW o, o.pred \in Batches \cup {None}, Carried(o)
  PROVE  Carried(o)'
BY CarriableStays DEF Carried

(* A process opens a ledger with what it has just derived. *)
LEMMA OpeningBegins ==
  ASSUME TypeOK, NEW p \in Processes, Act(p), NEW q \in Processes, pc'[q] = "opening"
  PROVE  \/ pc[q] = "opening" /\ offer'[q] = offer[q]
         \/ q = p /\ DeriveCarry(p)
<1>1. CASE q # p
  <2>1. pc[q] = "opening"
    BY <1>1, ActAlone DEF Alone
  <2>2. ASSUME Leave(p)
        PROVE  offer'[q] = offer[q]
    BY <1>1, <2>2 DEF Leave, TypeOK
  <2>3. offer'[q] = offer[q]
    BY <1>1, <2>2 DEF TypeOK, Act, Prepare, Admit, AdmitOffline, DeriveCarry, OpenLedger, Claim,
       Start, NextDecision, Conclude, Reserve, ReserveFails, Post, Settle, SettleFails,
       Finish, RunOffline, Record, Abort
  <2> QED BY <2>1, <2>3
<1>2. CASE q = p
  <2>1. ~Leave(p)
    BY <1>2, LeaveAlone
  <2>2. \A verdict : ~Concludes(p, verdict)
    BY <1>2 DEF Concludes, TypeOK
  <2> QED BY <1>2, <2>1, <2>2 DEF TypeOK, Act, Prepare, Admit, AdmitOffline, DeriveCarry,
         OpenLedger, Claim, Start, NextDecision, Conclude, Reserve, ReserveFails, Post, AfterPost,
         Settle, SettleFails, Unaccounted, Finish, RunOffline, Record, Abort
<1> QED BY <1>1, <1>2

LEMMA CarryStep ==
  ASSUME TypeOK, WorkInv, CarryInv, NEW p \in Processes, Act(p)
  PROVE  CarryInv'
<1>1. ASSUME NEW q \in Processes, pc'[q] = "opening"
      PROVE  Carried(offer[q])'
  <2>1. offer[q].pred \in Batches \cup {None}
    BY DEF TypeOK
  <2>2. CASE pc[q] = "opening" /\ offer'[q] = offer[q]
    <3>1. PICK o : o = offer[q] /\ o.pred \in Batches \cup {None} /\ Carried(o)
      BY <2>1, <2>2 DEF CarryInv
    <3>2. Carried(o)'
      BY <3>1, CarriedStays
    <3> QED BY <2>2, <3>1, <3>2 DEF Carried
  <2>3. CASE q = p /\ DeriveCarry(p)
    <3>1. CASE offer[p].pred = None
      <4>1. offer'[p] = offer[p]
        BY <2>3, <3>1 DEF DeriveCarry
      <4> QED BY <2>3, <3>1, <4>1 DEF Carried
    <3>2. CASE offer[p].pred # None
      <4>1. PICK b \in Batches : b = offer[p].pred
        BY <2>1, <2>3, <3>2
      <4>2. Carriable(b) /\ offer'[p] = Carry(b)
        BY <2>3, <3>2, <4>1 DEF DeriveCarry, DerivesFrom, TypeOK
      <4>3. Carriable(b)' /\ Carry(b)' = Carry(b)
        BY <4>2, CarriableStays
      <4>4. offer'[p].pred = b /\ Carry(b) =
              [pred |-> b, count |-> offer'[p].count, spent |-> offer'[p].spent]
        BY <4>2 DEF Carry
      <4> QED BY <2>3, <4>3, <4>4 DEF Carried
    <3> QED BY <3>1, <3>2
  <2> QED BY <1>1, <2>2, <2>3, OpeningBegins
<1>2. ASSUME NEW b \in Batches, Frozen(b)'
      PROVE  Carried(policy[b])'
  <2>1. CASE Frozen(b)
    <3>1. policy'[b] = policy[b]
      BY <2>1, FrozenStays
    <3>2. PICK o : o = policy[b] /\ o.pred \in Batches \cup {None} /\ Carried(o)
      BY <2>1 DEF CarryInv, TypeOK, Policy
    <3>3. Carried(o)'
      BY <3>2, CarriedStays
    <3> QED BY <3>1, <3>2, <3>3 DEF Carried
  <2>2. CASE ~Frozen(b)
    <3>1. policy'[b] # policy[b]
      BY <1>2, <2>2 DEF Frozen
    <3>2. OpenLedger(p)
      BY <3>1, PolicyFrame
    <3>3. at[p].batch = b
      BY <3>1, <3>2 DEF OpenLedger, TypeOK
    <3>4. PICK o : o = offer[p] /\ o.pred \in Batches \cup {None} /\ Carried(o)
      BY <3>2 DEF CarryInv, OpenLedger, TypeOK
    <3>5. policy'[b] = [state |-> "frozen", pred |-> o.pred, count |-> o.count, spent |-> o.spent]
      <4>1. CASE policy' = [policy EXCEPT ![b].state = "dirs"]
        <5>1. policy[b] \in Policy
          BY DEF TypeOK
        <5>2. policy'[b].state = "dirs"
          BY <4>1, <5>1 DEF TypeOK, Policy
        <5> QED BY <1>2, <5>2 DEF Frozen
      <4>2. CASE policy' = [policy EXCEPT ![b] =
                   [state |-> "frozen", pred |-> o.pred, count |-> o.count, spent |-> o.spent]]
        BY <4>2 DEF TypeOK
      <4> QED BY <3>1, <3>2, <3>3, <3>4, <4>1, <4>2 DEF OpenLedger
    <3>6. Carried(o)'
      BY <3>4, CarriedStays
    <3> QED BY <3>5, <3>6 DEF Carried
  <2> QED BY <2>1, <2>2
<1> QED BY <1>1, <1>2 DEF CarryInv

--------------------------------------------------------------------------------
(* The files accept themselves *)

FilesInv == BudgetInv /\ LockOK /\ WorkInv /\ RegistryInv /\ RecordsInv /\ SumInv /\ CarryInv

LEMMA FilesInit == Init => TypeOK /\ FilesInv
<1> SUFFICES ASSUME Init PROVE TypeOK /\ FilesInv
  OBVIOUS
<1>1. TypeOK /\ WorkInv /\ BudgetInv /\ LockOK
  BY TypeInit, WorkInit DEF Init, BudgetInv, EmptyOK, WithinBudget, Frozen, NoPolicy, Reserved,
     NoEntry, LockOK
<1>2. RegistryInv
  BY DEF Init, RegistryInv, RegistryOf, Closed, Claimed, OutcomeState, HaltedState
<1>3. RecordsInv
  BY DEF Init, RecordsInv, RecordsOf, Answered, Reserved, NoEntry
<1>4. SumInv
  <2> SUFFICES ASSUME NEW b \in Batches PROVE SumOf(b)
    BY DEF SumInv
  <2>1. \A k \in Keys : entry[b][k].charge = 0
    BY DEF Init, NoEntry
  <2>2. Charges(b) = [k \in Keys |-> 0]
    BY <2>1 DEF Charges
  <2>3. SumFunction([k \in Keys |-> 0]) = 0
    BY KeysFinite, SumZero
  <2>4. spent[b] = 0
    BY DEF Init
  <2> QED BY <2>1, <2>2, <2>3, <2>4 DEF SumOf
<1>5. CarryInv
  BY DEF Init, CarryInv, Frozen, NoPolicy
<1> QED BY <1>1, <1>2, <1>3, <1>4, <1>5 DEF FilesInv

LEMMA FilesStay ==
  ASSUME RegistryInv, RecordsInv, SumInv, CarryInv, UNCHANGED vars
  PROVE  RegistryInv' /\ RecordsInv' /\ SumInv' /\ CarryInv'
<1>1. UNCHANGED <<claim, outcome, run, policy, entry, spent, pc, offer>>
  BY DEF vars, files, locals
<1>2. RegistryInv'
  BY <1>1 DEF RegistryInv, RegistryOf, Closed, Claimed
<1>3. RecordsInv'
  BY <1>1 DEF RecordsInv, RecordsOf, Answered, Reserved, Settled
<1>4. SumInv'
  BY <1>1 DEF SumInv, SumOf, Charges
<1>5. \A b : Carriable(b)' = Carriable(b) /\ Carry(b)' = Carry(b)
  BY <1>1 DEF Carriable, Carry, RecordsValid, RegistryValid, Claimed, Closed, Halted, Attempted,
     Reserved, Answered, Settled
<1>6. CarryInv'
  BY <1>1, <1>5 DEF CarryInv, Carried, Frozen
<1> QED BY <1>2, <1>3, <1>4, <1>6

LEMMA FilesStep == TypeOK /\ FilesInv /\ [Next]_vars => FilesInv'
<1> SUFFICES ASSUME TypeOK, FilesInv, [Next]_vars PROVE FilesInv'
  OBVIOUS
<1>1. BudgetInv' /\ LockOK' /\ WorkInv'
  BY BudgetStep, LockStep, WorkStep DEF FilesInv
<1>2. CASE UNCHANGED vars
  BY <1>1, <1>2, FilesStay DEF FilesInv
<1>3. ASSUME NEW p \in Processes, Act(p)
      PROVE  FilesInv'
  <2>1. RegistryInv' /\ RecordsInv' /\ SumInv' /\ CarryInv'
    BY <1>3, RegistryStep, RecordsStep, SumStep, CarryStep DEF FilesInv
  <2> QED BY <1>1, <2>1 DEF FilesInv
<1> QED BY <1>2, <1>3, NextIsAct

LEMMA ReadableRegistry ==
  ASSUME NEW b \in Batches, RegistryInv, ~Torn(b), TypeOK
  PROVE  RegistryValid(b)
<1>1. /\ RegistryOf(b)
      /\ \A c \in Cells : claim[b][c] # "torn" /\ outcome[b][c] # "torn"
  BY DEF RegistryInv, Torn
<1>2. ASSUME NEW c \in Closed(b)
      PROVE  outcome[b][c] \in OutcomeState
  <2>1. outcome[b][c] \in {"none", "torn"} \cup OutcomeState /\ outcome[b][c] # "none"
    BY DEF Closed, TypeOK
  <2> QED BY <1>1, <2>1 DEF Closed
<1>3. \A c \in Cells : c > 1 /\ c \in Closed(b) => c - 1 \in Closed(b)
  BY <1>1 DEF RegistryOf
<1>4. \A c \in Cells : c > 1 /\ c \in Claimed(b) => c - 1 \in Claimed(b)
  BY <1>1 DEF RegistryOf
<1>5. Closed(b) \subseteq Cells
  BY DEF Closed
<1> QED BY <1>1, <1>2, <1>3, <1>4, <1>5 DEF RegistryValid, RegistryOf

LEMMA ReadableRecords ==
  ASSUME NEW b \in Batches, TypeOK, RecordsInv, BudgetInv, ~Torn(b)
  PROVE  RecordsValid(b)
<1>1. RecordsOf(b) /\ Settled(b) \subseteq Answered(b)
  BY DEF RecordsInv, Settled, Answered
<1>2. Cardinality(Reserved(b)) <= MaxRequests
  <2>1. CASE Frozen(b)
    <3>1. policy[b].count + Cardinality(Reserved(b)) <= MaxRequests
      BY <2>1 DEF BudgetInv, WithinBudget, SummaryValid, RequestCount
    <3>2. policy[b].count \in Nat /\ Cardinality(Reserved(b)) \in Nat
      BY CardinalityOfKeys DEF TypeOK, Policy, Reserved
    <3> QED BY <3>1, <3>2, SpendAssumption
  <2>2. CASE ~Frozen(b)
    <3>1. Cardinality(Reserved(b)) = 0
      BY <2>2, FS_EmptySet DEF BudgetInv, EmptyOK
    <3> QED BY <3>1, SpendAssumption
  <2> QED BY <2>1, <2>2
<1>3. \A k \in Keys : entry[b][k].res # "torn" /\ entry[b][k].out # "torn"
  BY DEF Torn
<1> QED BY <1>1, <1>2, <1>3 DEF RecordsValid, RecordsOf

(* deepseek_policy_spend.py and deepseek_policy_batch.py: no sequence of   *)
(* operations and deaths makes the files refuse themselves.  Unless a      *)
(* write was torn, the registry and the ledger of every batch parse, a     *)
(* frozen policy still equals what its predecessor's files say, and the    *)
(* spent total is the sum of the charges.                                  *)
THEOREM FilesAcceptThemselves == Spec => []FilesReadable
<1>1. TypeOK /\ FilesInv => FilesReadable
  <2> SUFFICES ASSUME TypeOK, FilesInv, NEW b \in Batches
               PROVE  /\ ~Torn(b) => RegistryValid(b) /\ RecordsValid(b)
                      /\ Frozen(b) => PolicyValid(b)
                      /\ spent[b] = SumFunction([k \in Keys |-> entry[b][k].charge])
    BY DEF FilesReadable
  <2>1. ~Torn(b) => RegistryValid(b) /\ RecordsValid(b)
    BY ReadableRegistry, ReadableRecords DEF FilesInv
  <2>2. Frozen(b) => PolicyValid(b)
    BY DEF FilesInv, LockOK, CarryInv, Carried, PolicyValid, Frozen
  <2>3. spent[b] = SumFunction([k \in Keys |-> entry[b][k].charge])
    BY DEF FilesInv, SumInv, SumOf, Charges
  <2> QED BY <2>1, <2>2, <2>3
<1> QED BY <1>1, FilesInit, FilesStep, TypeCorrect, PTL DEF Spec

--------------------------------------------------------------------------------
(* What the provider really charges *)

(* A batch is billed no more than what its ledger spent and still holds.   *)
(* The one request in flight is the ledger's only unsettled entry: before  *)
(* it is sent everything billed is spent, and after it, if it shows its    *)
(* price, spending that price covers the bill.                             *)
Covered(b) == billed[b] <= spent[b] + Held(b)

InFlight(p) ==
  LET b == at[p].batch IN
    /\ pc[p] \in {"posting", "settling"} => Reserved(b) \ Settled(b) = {Key(p)}
    /\ pc[p] = "posting" => billed[b] <= spent[b]
    /\ pc[p] = "settling" /\ step[p].cost # 0 => billed[b] <= spent[b] + step[p].cost

BillInv == (\A b \in Batches : Covered(b)) /\ \A p \in Processes : InFlight(p)

LEMMA HeldOne ==
  ASSUME NEW b, NEW k, Reserved(b) \ Settled(b) = {k}
  PROVE  Held(b) = Reservation
<1>1. Cardinality(Reserved(b) \ Settled(b)) = 1
  BY FS_Singleton
<1> QED BY <1>1, SpendAssumption DEF Held

(* A reservation holds more; an answer spends what it no longer holds.     *)
LEMMA ReserveHeld ==
  ASSUME TypeOK, NEW p, NEW b \in Batches, NEW k \in Keys, NEW e \in Entry,
         Reserves(p, b, k, e)
  PROVE  /\ Held(b) = 0 /\ Reserved(b)' \ Settled(b)' = {k}
         /\ Held(b)' = Reservation
<1>1. k \notin Reserved(b) /\ Reserved(b) = Settled(b)
  BY DEF Reserves, CanReserve, LedgerState, Reserved
<1>2. Reserved(b)' = Reserved(b) \cup {k} /\ Settled(b)' = Settled(b)
  <2>1. entry \in [Batches -> [Keys -> Entry]] /\ e.res # "none" /\ e.out = entry[b][k].out
        /\ entry' = [entry EXCEPT ![b] = [entry[b] EXCEPT ![k] = e]]
    BY DEF Reserves, TypeOK
  <2> QED BY <2>1, EntrySets DEF Settled
<1>3. Held(b) = 0
  BY <1>1, HeldNone
<1>4. Reserved(b)' \ Settled(b)' = {k}
  BY <1>1, <1>2
<1>5. Held(b)' = Reservation
  <2>1. Cardinality(Reserved(b)' \ Settled(b)') = 1
    BY <1>4, FS_Singleton
  <2>2. Held(b)' = Reservation * Cardinality(Reserved(b)' \ Settled(b)')
    BY DEF Held
  <2> QED BY <2>1, <2>2, SpendAssumption
<1> QED BY <1>3, <1>4, <1>5


(* A process settles what it has just posted. *)
LEMMA SettlingBegins ==
  ASSUME TypeOK, NEW p \in Processes, Act(p), pc'[p] = "settling"
  PROVE  Post(p)
<1>1. ~Leave(p)
  BY LeaveAlone
<1>2. \A verdict : ~Concludes(p, verdict)
  BY DEF Concludes, TypeOK
<1> QED BY <1>1, <1>2 DEF Act, Prepare, Admit, AdmitOffline, DeriveCarry, OpenLedger, Claim,
                          Start, NextDecision, Conclude, Reserve, ReserveFails, Settle,
                          SettleFails, Unaccounted, Finish, RunOffline, Record, Abort, TypeOK

(* What a post shows and what it is billed. *)
LEMMA PostShape ==
  ASSUME TypeOK, NEW p \in Processes, Post(p), NEW b \in Batches, b = at[p].batch
  PROVE  \E bill \in 0..Reservation :
           /\ billed' = [billed EXCEPT ![b] = billed[b] + bill]
           /\ step'[p].cost # 0 => step'[p].cost = bill
           /\ Key(p)' = Key(p) /\ UNCHANGED <<entry, spent, at>>
           /\ pc'[p] = "settling" /\ step'[p].decision = step[p].decision
<1>1. PICK bill \in Costs \cup {0} : \E x \in Exchange(bill) :
         /\ billed' = [billed EXCEPT ![b] = @ + bill]
         /\ step' = [step EXCEPT ![p].reply = x.reply, ![p].cost = x.cost]
         /\ pc' = [pc EXCEPT ![p] = AfterPost(x.reply)]
  BY DEF Post
<1>2. PICK x \in Exchange(bill) :
         /\ billed' = [billed EXCEPT ![b] = @ + bill]
         /\ step' = [step EXCEPT ![p].reply = x.reply, ![p].cost = x.cost]
         /\ pc' = [pc EXCEPT ![p] = AfterPost(x.reply)]
  BY <1>1
<1>3. x.cost # 0 => x.cost = bill
  BY DEF Exchange
<1>4. step'[p].cost = x.cost /\ step'[p].decision = step[p].decision
  BY <1>2 DEF TypeOK
<1>5. bill \in 0..Reservation
  BY SpendAssumption
<1>6. billed' = [billed EXCEPT ![b] = billed[b] + bill]
  BY <1>2 DEF TypeOK
<1>7. UNCHANGED <<entry, spent, at>> /\ Key(p)' = Key(p)
  BY <1>4 DEF Post, files, Key
<1>8. pc'[p] = "settling"
  BY <1>2 DEF AfterPost, TypeOK
<1> QED BY <1>3, <1>4, <1>5, <1>6, <1>7, <1>8

(* An answer keeps what is held, or spends the price the reply showed.     *)
LEMMA AnswerCovered ==
  ASSUME TypeOK, BillInv, NEW p \in Processes, NEW b \in Batches, NEW k \in Keys, NEW e \in Entry,
         Answers(p, b, k, e), UNCHANGED billed
  PROVE  Covered(b)'
<1>1. /\ k \in Reserved(b) /\ k \notin Settled(b) /\ e.res # "none" /\ e.out # "none"
      /\ entry' = [entry EXCEPT ![b] = [entry[b] EXCEPT ![k] = e]]
  BY DEF Answers, CanFinish, Reserved, Settled
<1>2. PICK charge \in 0..Reservation :
         /\ spent' = [spent EXCEPT ![b] = spent[b] + charge]
         /\ e.out # "settled" => charge = 0
         /\ e.out = "settled" => charge = step[p].cost /\ charge # 0
  BY DEF Answers
<1>3. charge \in Nat /\ spent[b] \in Nat /\ billed[b] \in Nat /\ spent'[b] = spent[b] + charge
  BY <1>2, SpendAssumption DEF TypeOK
<1>4. /\ Reserved(b)' = Reserved(b)
      /\ Settled(b)' = IF e.out = "settled" THEN Settled(b) \cup {k} ELSE Settled(b)
  <2>1. /\ Reserved(b)' = Reserved(b) \cup {k}
        /\ Settled(b)' = IF e.out = "settled" THEN Settled(b) \cup {k} ELSE Settled(b) \ {k}
    BY <1>1, EntrySets DEF TypeOK
  <2> QED BY <1>1, <2>1
<1>5. CASE e.out = "settled"
  <2>1. billed[b] <= spent[b] + charge
    BY <1>2, <1>5 DEF BillInv, InFlight, Answers
  <2>2. Held(b)' \in Nat
    <3>1. Cardinality(Reserved(b)' \ Settled(b)') \in Nat
      BY CardinalityOfKeys DEF Reserved
    <3> QED BY <3>1, SpendAssumption DEF Held
  <2> QED BY <1>3, <2>1, <2>2 DEF Covered
<1>6. CASE e.out # "settled"
  <2>1. Held(b)' = Held(b)
    BY <1>4, <1>6 DEF Held
  <2>2. spent'[b] = spent[b]
    BY <1>2, <1>3, <1>6
  <2> QED BY <2>1, <2>2 DEF BillInv, Covered
<1> QED BY <1>5, <1>6

LEMMA CoveredStep ==
  ASSUME TypeOK, BillInv, NEW p \in Processes, Act(p), NEW b \in Batches
  PROVE  Covered(b)'
<1>1. Covered(b) /\ billed[b] \in Nat /\ spent[b] \in Nat
  BY DEF BillInv, TypeOK
<1>2. CASE entry'[b] = entry[b] /\ spent'[b] = spent[b] /\ billed'[b] = billed[b]
  BY <1>1, <1>2 DEF Covered, Held, Reserved, Settled
<1>3. CASE Post(p)
  <2>1. CASE at[p].batch = b
    <3>1. PICK bill \in 0..Reservation :
             billed' = [billed EXCEPT ![b] = billed[b] + bill] /\ UNCHANGED <<entry, spent>>
      BY <1>3, <2>1, PostShape
    <3>2. Reserved(b) \ Settled(b) = {Key(p)} /\ billed[b] <= spent[b]
      BY <1>3, <2>1 DEF Post, BillInv, InFlight
    <3>3. Held(b)' = Reservation
      <4>1. Held(b)' = Held(b)
        BY <3>1 DEF Held, Reserved, Settled
      <4> QED BY <3>2, <4>1, HeldOne
    <3>4. billed'[b] = billed[b] + bill /\ bill \in Nat /\ bill <= Reservation
      BY <3>1, SpendAssumption DEF TypeOK
    <3> QED BY <1>1, <3>1, <3>2, <3>3, <3>4, SpendAssumption DEF Covered
  <2>2. CASE at[p].batch # b
    <3>1. entry'[b] = entry[b] /\ spent'[b] = spent[b] /\ billed'[b] = billed[b]
      BY <1>3, <2>2 DEF Post, files, TypeOK
    <3> QED BY <1>2, <3>1
  <2> QED BY <2>1, <2>2
<1>4. CASE UNCHANGED billed
  <2>1. ASSUME NEW a \in Batches, NEW k \in Keys, NEW e \in Entry, Reserves(p, a, k, e)
        PROVE  Covered(b)'
    <3>1. CASE a = b
      <4>1. Held(b) = 0 /\ Held(b)' = Reservation /\ spent' = spent
        BY <2>1, <3>1, ReserveHeld DEF Reserves
      <4> QED BY <1>1, <1>4, <4>1, SpendAssumption DEF Covered
    <3>2. CASE a # b
      <4>1. entry'[b] = entry[b] /\ spent'[b] = spent[b]
        BY <2>1, <3>2 DEF Reserves, TypeOK
      <4> QED BY <1>2, <1>4, <4>1
    <3> QED BY <3>1, <3>2
  <2>2. ASSUME NEW a \in Batches, NEW k \in Keys, NEW e \in Entry, Answers(p, a, k, e)
        PROVE  Covered(b)'
    <3>1. CASE a = b
      BY <1>4, <2>2, <3>1, AnswerCovered
    <3>2. CASE a # b
      <4>1. entry'[b] = entry[b] /\ spent'[b] = spent[b]
        BY <2>2, <3>2 DEF Answers, TypeOK
      <4> QED BY <1>2, <1>4, <4>1
    <3> QED BY <3>1, <3>2
  <2> QED BY <1>2, <1>4, <2>1, <2>2, LedgerStep
<1> QED BY <1>3, <1>4, BillFrame

LEMMA InFlightOther ==
  ASSUME TypeOK, WorkInv, BillInv, NEW p \in Processes, Act(p), NEW q \in Processes, q # p
  PROVE  InFlight(q)'
<1>1. pc'[q] = pc[q] /\ at'[q] = at[q] /\ step'[q] = step[q]
  BY ActAlone DEF Alone
<1>2. CASE pc[q] \in {"posting", "settling"}
  <2>1. PICK b \in Batches : b = at[q].batch /\ Unmoved(b)
    BY <1>2, OthersUnmoved DEF AtWork
  <2>2. Reserved(b)' = Reserved(b) /\ Settled(b)' = Settled(b)
        /\ spent'[b] = spent[b] /\ billed'[b] = billed[b]
    BY <2>1 DEF Unmoved, Reserved, Settled
  <2>3. Key(q)' = Key(q) /\ at'[q].batch = b
    BY <1>1, <2>1 DEF Key
  <2>4. InFlight(q)
    BY DEF BillInv
  <2>5. /\ Reserved(b) \ Settled(b) = {Key(q)}
        /\ pc[q] = "posting" => billed[b] <= spent[b]
        /\ pc[q] = "settling" /\ step[q].cost # 0 => billed[b] <= spent[b] + step[q].cost
    BY <1>2, <2>1, <2>4 DEF InFlight
  <2> QED BY <1>1, <2>2, <2>3, <2>5 DEF InFlight
<1> QED BY <1>1, <1>2 DEF InFlight

LEMMA InFlightSelf ==
  ASSUME TypeOK, BillInv, NEW p \in Processes, Act(p)
  PROVE  InFlight(p)'
<1>1. CASE pc'[p] = "posting"
  <2>1. Reserve(p)
    BY <1>1, PostingBegins
  <2>2. PICK b \in Batches, k \in Keys, e \in Entry : Reserves(p, b, k, e)
    BY <2>1, ReservesEntry DEF Reserve
  <2>3. at' = at /\ b = at[p].batch /\ k = Key(p)' /\ UNCHANGED <<spent, billed>>
    BY <2>1, <2>2 DEF Reserve, Reserves, Key, provider
  <2>4. Reserved(b)' \ Settled(b)' = {k} /\ Held(b) = 0
    BY <2>2, ReserveHeld
  <2>5. billed[b] <= spent[b]
    BY <2>4 DEF BillInv, Covered, TypeOK
  <2> QED BY <1>1, <2>3, <2>4, <2>5 DEF InFlight
<1>2. CASE pc'[p] = "settling"
  <2>1. Post(p)
    BY <1>2, SettlingBegins
  <2>2. PICK b \in Batches : b = at[p].batch
    BY <2>1 DEF Post, TypeOK
  <2>3. PICK bill \in 0..Reservation :
          /\ billed' = [billed EXCEPT ![b] = billed[b] + bill]
          /\ step'[p].cost # 0 => step'[p].cost = bill
          /\ Key(p)' = Key(p) /\ UNCHANGED <<entry, spent, at>>
    BY <2>1, <2>2, PostShape
  <2>4. Reserved(b) \ Settled(b) = {Key(p)} /\ billed[b] <= spent[b]
    BY <2>1, <2>2 DEF Post, BillInv, InFlight
  <2>5. billed'[b] = billed[b] + bill /\ billed[b] \in Nat /\ spent[b] \in Nat /\ bill \in Nat
    BY <2>3, SpendAssumption DEF TypeOK
  <2>6. Reserved(b)' = Reserved(b) /\ Settled(b)' = Settled(b)
    BY <2>3 DEF Reserved, Settled
  <2>7. step'[p].cost # 0 => billed'[b] <= spent'[b] + step'[p].cost
    BY <2>3, <2>4, <2>5
  <2> QED BY <1>2, <2>2, <2>3, <2>4, <2>6, <2>7 DEF InFlight
<1> QED BY <1>1, <1>2 DEF InFlight

LEMMA BillStep == TypeOK /\ WorkInv /\ BillInv /\ [Next]_vars => BillInv'
<1> SUFFICES ASSUME TypeOK, WorkInv, BillInv, [Next]_vars PROVE BillInv'
  OBVIOUS
<1>1. CASE UNCHANGED vars
  BY <1>1 DEF vars, files, locals, provider, BillInv, Covered, InFlight, Held, Reserved, Settled, Key
<1>2. ASSUME NEW p \in Processes, Act(p)
      PROVE  BillInv'
  <2>1. \A b \in Batches : Covered(b)'
    BY <1>2, CoveredStep
  <2>2. \A q \in Processes : InFlight(q)'
    BY <1>2, InFlightOther, InFlightSelf
  <2> QED BY <2>1, <2>2 DEF BillInv
<1> QED BY <1>1, <1>2, NextIsAct

LEMMA BillInit == Init => BillInv
<1> SUFFICES ASSUME Init PROVE BillInv
  OBVIOUS
<1>1. \A p \in Processes : InFlight(p)
  BY DEF Init, InFlight
<1>2. ASSUME NEW b \in Batches
      PROVE  Covered(b)
  <2>1. billed[b] = 0 /\ spent[b] = 0
    BY DEF Init
  <2> QED BY <2>1, HeldType DEF Covered
<1> QED BY <1>1, <1>2 DEF BillInv

(* The approval bounds the bill: what the provider really charged a batch  *)
(* and the stopped batch whose budget it continues stays within max_usd,   *)
(* also when an outcome was lost, unknown or unusable, and a batch without *)
(* a frozen policy was never charged.                                      *)
THEOREM BillWithinApproval == Spec => []BilledWithinBudget
<1>1. TypeOK /\ FilesInv /\ BillInv => BilledWithinBudget
  <2> SUFFICES ASSUME TypeOK, FilesInv, BillInv, NEW b \in Batches
               PROVE  IF Frozen(b)
                      THEN billed[b] + (IF policy[b].pred = None THEN 0
                                        ELSE billed[policy[b].pred]) <= MaxUsd
                      ELSE billed[b] = 0
    BY DEF BilledWithinBudget
  <2>1. /\ billed[b] \in Nat /\ spent[b] \in Nat /\ policy[b].spent \in Nat /\ Held(b) \in Nat
        /\ policy[b].pred \in Batches \cup {None} /\ MaxUsd \in Nat
        /\ billed[b] <= spent[b] + Held(b)
    BY HeldType, SpendAssumption DEF TypeOK, Policy, BillInv, Covered
  <2>2. CASE ~Frozen(b)
    <3>1. spent[b] = 0 /\ Reserved(b) \ Settled(b) = {}
      BY <2>2 DEF FilesInv, BudgetInv, EmptyOK
    <3>2. Held(b) = 0
      BY <3>1, HeldNone
    <3> QED BY <2>1, <2>2, <3>1, <3>2
  <2>3. CASE Frozen(b)
    <3>1. policy[b].spent + spent[b] + Held(b) <= MaxUsd
      BY <2>3 DEF FilesInv, BudgetInv, WithinBudget, SummaryValid, Spent
    <3>2. CASE policy[b].pred = None
      BY <2>1, <2>3, <3>1, <3>2
    <3>3. CASE policy[b].pred # None
      <4>1. PICK a \in Batches : a = policy[b].pred
        BY <2>1, <3>3
      <4>2. Carriable(a) /\ spent[a] = policy[b].spent
        BY <2>3, <3>3, <4>1 DEF FilesInv, CarryInv, Carried, Carry
      <4>3. Held(a) = 0
        BY <4>2, HeldNone DEF Carriable
      <4>4. billed[a] \in Nat /\ billed[a] <= spent[a]
        BY <4>3 DEF BillInv, Covered, TypeOK
      <4> QED BY <2>1, <2>3, <3>1, <3>3, <4>1, <4>2, <4>4
    <3> QED BY <3>2, <3>3
  <2> QED BY <2>2, <2>3
<1>2. TypeOK /\ FilesInv /\ BillInv /\ [Next]_vars => BillInv'
  BY BillStep DEF FilesInv
<1> QED BY <1>1, <1>2, BillInit, FilesInit, FilesStep, TypeCorrect, PTL DEF Spec

--------------------------------------------------------------------------------
(* The registry and the ledger agree *)

(* Of the requests of a cell, the first r are reserved and the first s are *)
(* settled.                                                                *)
Spans(b, c, r, s) ==
  \A k \in Keys : k[1] = c =>
    /\ k \in Reserved(b) <=> k[2] <= r
    /\ k \in Settled(b) <=> k[2] <= s

Sound == {"completed", "failed_contract"}

(* The decisions a process has counted are the requests of its cell that   *)
(* its ledger shows, and result.json comes only at the end.                *)
CellInv(p) ==
  LET b == at[p].batch
      c == at[p].cell
      d == step[p].decision
  IN /\ pc[p] \in {"idle", "preparing", "opening", "admitted", "claimed"} => d = 0
     /\ pc[p] \in {"claimed", "running"} => Spans(b, c, d, d)
     /\ pc[p] = "reserving" => Spans(b, c, d - 1, d - 1)
     /\ pc[p] \in {"posting", "settling"} => Spans(b, c, d, d - 1)
     /\ pc[p] = "finishing" /\ step[p].verdict \in Sound => Spans(b, c, d, d)
     /\ pc[p] \in {"reserving", "posting", "settling", "finishing"} => run[b][c].state = "open"
     /\ pc[p] = "running" => run[b][c].state = "open"

(* A finished run whose verdict lets the batch go on has exactly its       *)
(* requests in the ledger.                                                 *)
RunOf(b, c) ==
  run[b][c].state = "finished" /\ ~run[b][c].offline /\ run[b][c].verdict \in Sound =>
    Spans(b, c, run[b][c].requests, run[b][c].requests)

AgreeInv ==
  /\ \A p \in Processes : CellInv(p)
  /\ \A b \in Batches, c \in Cells : RunOf(b, c)

LEMMA SpansFrame ==
  ASSUME NEW b \in Batches, NEW c, NEW r, NEW s, Spans(b, c, r, s),
         \A k \in Keys : k[1] = c => entry'[b][k] = entry[b][k]
  PROVE  Spans(b, c, r, s)'
BY DEF Spans, Reserved, Settled

LEMMA CellOther ==
  ASSUME TypeOK, WorkInv, NEW p \in Processes, Act(p), NEW q \in Processes, q # p, CellInv(q)
  PROVE  CellInv(q)'
<1>1. pc'[q] = pc[q] /\ at'[q] = at[q] /\ step'[q] = step[q]
  BY ActAlone DEF Alone
<1>2. CASE AtWork(q)
  <2>1. PICK b \in Batches, c \in 0..CellCount, d \in 0..3 :
          b = at[q].batch /\ c = at[q].cell /\ d = step[q].decision
    BY <1>2, OthersUnmoved DEF TypeOK
  <2>2. entry'[b] = entry[b] /\ run'[b] = run[b]
    BY <1>2, <2>1, OthersUnmoved DEF Unmoved
  <2>3. \A r, s : Spans(b, c, r, s) => Spans(b, c, r, s)'
    BY <2>2, SpansFrame
  <2>4. at'[q].batch = b /\ at'[q].cell = c /\ step'[q].decision = d
    BY <1>1, <2>1
  <2> QED BY <1>1, <2>1, <2>2, <2>3, <2>4 DEF CellInv
<1>3. CASE ~AtWork(q)
  BY <1>1, <1>3 DEF CellInv, AtWork
<1> QED BY <1>2, <1>3

(* Before its claim a process has counted nothing. *)
LEMMA CellEarly ==
  ASSUME TypeOK, NEW p \in Processes, CellInv(p), Act(p),
         pc'[p] \in {"idle", "preparing", "opening", "admitted"}
  PROVE  CellInv(p)'
<1>1. step'[p].decision = 0
  <2>1. CASE Leave(p)
    BY <2>1 DEF Leave, NoStep, TypeOK
  <2>2. CASE UNCHANGED step /\ pc[p] \in {"idle", "preparing"}
    BY <2>2 DEF CellInv
  <2>3. \A verdict : ~Concludes(p, verdict)
    BY DEF Concludes, TypeOK
  <2> QED BY <2>1, <2>2, <2>3 DEF TypeOK, Act, Prepare, Admit, AdmitOffline, DeriveCarry,
         OpenLedger, Claim, Start, NextDecision, Conclude, Reserve, ReserveFails, Post, AfterPost,
         Settle, SettleFails, Unaccounted, Finish, RunOffline, Record, Abort
<1> QED BY <1>1 DEF CellInv

LEMMA CellClaim ==
  ASSUME TypeOK, NEW p \in Processes, CellInv(p), RecordsInv, NEW c \in Cells, Claim(p, c),
         pc'[p] = "claimed"
  PROVE  CellInv(p)'
<1>1. PICK b \in Batches : b = at[p].batch
  BY DEF Claim, TypeOK
<1>2. ~Leave(p)
  BY LeaveAlone
<1>3. at'[p].batch = b /\ at'[p].cell = c /\ step' = step /\ entry' = entry
  BY <1>1, <1>2 DEF Claim, TypeOK
<1>4. step[p].decision = 0
  BY DEF CellInv, Claim
<1>5. Spans(b, c, 0, 0)
  <2>1. claim[b][c] = "none"
    BY <1>1 DEF Claim, Claimable, Claimed
  <2>2. ASSUME NEW k \in Keys, k[1] = c
        PROVE  k \notin Reserved(b) /\ k \notin Settled(b) /\ ~(k[2] <= 0)
    <3>1. k \notin Reserved(b)
      BY <2>1, <2>2 DEF RecordsInv, RecordsOf
    <3>2. k \notin Answered(b)
      BY <3>1 DEF RecordsInv, RecordsOf
    <3> QED BY <3>1, <3>2 DEF Answered, Settled, Keys
  <2> QED BY <2>2 DEF Spans
<1>6. Spans(b, c, 0, 0)'
  BY <1>3, <1>5, SpansFrame
<1> QED BY <1>3, <1>4, <1>6 DEF CellInv

(* A process that concludes with a verdict the batch goes on after has     *)
(* settled every request it counted.                                       *)
LEMMA CellConcludes ==
  ASSUME TypeOK, NEW p \in Processes, NEW verdict, Concludes(p, verdict), UNCHANGED <<at, run>>,
         NEW b \in Batches, b = at[p].batch, NEW c \in Cells, c = at[p].cell,
         NEW d \in 0..3, d = step[p].decision,
         run[b][c].state = "open", verdict \in Sound => Spans(b, c, d, d)'
  PROVE  CellInv(p)'
<1>1. pc'[p] = "finishing" /\ step'[p].verdict = verdict /\ step'[p].decision = d
  BY DEF Concludes, TypeOK
<1>2. at'[p].batch = b /\ at'[p].cell = c /\ run'[b][c].state = "open"
  OBVIOUS
<1> QED BY <1>1, <1>2 DEF CellInv

LEMMA CellWork ==
  ASSUME TypeOK, NEW p \in Processes, CellInv(p),
         \/ Start(p) \/ NextDecision(p) \/ Conclude(p) \/ Reserve(p) \/ ReserveFails(p) \/ Post(p)
  PROVE  CellInv(p)'
<1>1. AtWork(p)
  BY DEF Start, NextDecision, Conclude, Reserve, ReserveFails, Post, AtWork
<1>2. PICK b \in Batches, c \in Cells, d \in 0..3 :
        b = at[p].batch /\ c = at[p].cell /\ d = step[p].decision
  BY <1>1 DEF AtWork, TypeOK
<1>3. CASE Start(p)
  <2>1. Spans(b, c, d, d)
    BY <1>2, <1>3 DEF Start, CellInv
  <2>2. entry' = entry /\ at' = at /\ step' = step /\ pc'[p] = "running"
    BY <1>3 DEF Start, TypeOK
  <2>3. Spans(b, c, d, d)'
    BY <2>1, <2>2, SpansFrame
  <2>4. run' = [run EXCEPT ![b][c].state = "open"] /\ run[b][c] \in Run
    BY <1>2, <1>3 DEF Start, TypeOK
  <2>5. run'[b][c].state = "open"
    BY <2>4 DEF TypeOK, Run
  <2> QED BY <1>2, <2>2, <2>3, <2>5 DEF CellInv
<1>4. CASE NextDecision(p)
  <2>1. Spans(b, c, d, d) /\ run[b][c].state = "open"
    BY <1>2, <1>4 DEF NextDecision, CellInv
  <2>2. entry' = entry /\ run' = run /\ at' = at /\ pc'[p] = "reserving" /\ step'[p].decision = d + 1
    BY <1>2, <1>4 DEF NextDecision, files, TypeOK
  <2>3. Spans(b, c, d, d)'
    BY <2>1, <2>2, SpansFrame
  <2>4. step'[p].decision - 1 = d
    BY <2>2
  <2> QED BY <1>2, <2>1, <2>2, <2>3, <2>4 DEF CellInv
<1>5. CASE Conclude(p)
  <2>1. Spans(b, c, d, d) /\ run[b][c].state = "open"
    BY <1>2, <1>5 DEF Conclude, CellInv
  <2>2. entry' = entry /\ run' = run /\ at' = at /\ \E verdict : Concludes(p, verdict)
    BY <1>5 DEF Conclude, files
  <2>3. Spans(b, c, d, d)'
    BY <2>1, <2>2, SpansFrame
  <2> QED BY <1>2, <2>1, <2>2, <2>3, CellConcludes
<1>6. CASE Reserve(p)
  <2>1. Spans(b, c, d - 1, d - 1) /\ run[b][c].state = "open"
    BY <1>2, <1>6 DEF Reserve, CellInv
  <2>2. run' = run /\ at' = at /\ step' = step /\ pc'[p] = "posting"
    BY <1>6 DEF Reserve, TypeOK
  <2>3. PICK k \in Keys, e \in Entry : k = <<c, d>> /\ Reserves(p, b, k, e)
    <3>1. PICK a \in Batches, k \in Keys, e \in Entry : Reserves(p, a, k, e)
      BY <1>6, ReservesEntry DEF Reserve
    <3> QED BY <1>2, <3>1 DEF Reserves, Key
  <2>4. Reserved(b)' = Reserved(b) \cup {k} /\ Settled(b)' = Settled(b)
    <3>1. /\ e.res # "none" /\ e.out = entry[b][k].out
          /\ entry' = [entry EXCEPT ![b] = [entry[b] EXCEPT ![k] = e]]
      BY <2>3 DEF Reserves
    <3>2. entry \in [Batches -> [Keys -> Entry]]
      BY DEF TypeOK
    <3> QED BY <3>1, <3>2, EntrySets DEF Settled
  <2>5. \A j \in Keys : j[1] = c /\ j[2] <= d <=> j = k \/ (j[1] = c /\ j[2] <= d - 1)
    <3> SUFFICES ASSUME NEW j \in Keys
                 PROVE  j[1] = c /\ j[2] <= d <=> j = k \/ (j[1] = c /\ j[2] <= d - 1)
      OBVIOUS
    <3>1. j = <<j[1], j[2]>> /\ j[2] \in 1..3
      BY DEF Keys
    <3>2. j = k <=> j[1] = c /\ j[2] = d
      BY <2>3, <3>1
    <3>3. j[2] <= d <=> j[2] = d \/ j[2] <= d - 1
      BY <3>1
    <3> QED BY <3>2, <3>3
  <2>6. Spans(b, c, d, d - 1)'
    BY <2>1, <2>4, <2>5 DEF Spans
  <2> QED BY <1>2, <2>1, <2>2, <2>6 DEF CellInv
<1>7. CASE ReserveFails(p)
  <2>1. run[b][c].state = "open"
    BY <1>2, <1>7 DEF ReserveFails, CellInv
  <2>2. "halted_unknown" \notin Sound
    BY DEF Sound
  <2> QED BY <1>2, <1>7, <2>1, <2>2, CellConcludes DEF ReserveFails
<1>8. CASE Post(p)
  <2>1. Spans(b, c, d, d - 1) /\ run[b][c].state = "open"
    BY <1>2, <1>8 DEF Post, CellInv
  <2>2. entry' = entry /\ run' = run /\ at' = at
    BY <1>8 DEF Post, files
  <2>3. pc'[p] = "settling" /\ step'[p].decision = d
    BY <1>2, <1>8, PostShape
  <2>4. Spans(b, c, d, d - 1)'
    BY <2>1, <2>2, SpansFrame
  <2> QED BY <1>2, <2>1, <2>2, <2>3, <2>4 DEF CellInv
<1> QED BY <1>3, <1>4, <1>5, <1>6, <1>7, <1>8

(* An accounted settlement closes the span of the cell. *)
LEMMA SettleSpans ==
  ASSUME TypeOK, NEW p \in Processes, pc[p] = "settling",
         NEW b \in Batches, b = at[p].batch, NEW c \in Cells, c = at[p].cell,
         NEW d \in 0..3, d = step[p].decision, Spans(b, c, d, d - 1),
         CanFinish(b, Key(p)), WriteOutcome(b, Key(p), step[p]), UNCHANGED policy,
         SpendOutcome(step[p]) = "settled"
  PROVE  Spans(b, c, d, d)'
<1> DEFINE k == <<c, d>>
           charge == IF SpendOutcome(step[p]) = "settled" THEN step[p].cost ELSE 0
           e == [entry[b][k] EXCEPT !.out = SpendOutcome(step[p]), !.charge = charge]
<1>1. k \in Keys /\ k = Key(p)
  BY DEF TypeOK, Key
<1> HIDE DEF k
<1>2. entry' = [entry EXCEPT ![b] = [entry[b] EXCEPT ![k] = e]]
  <2>1. FilesOK /\ WriteOutcome(b, k, step[p])
    BY <1>1, TypeParts
  <2> QED BY <1>1, <2>1, WriteOutcomeShape
<1>3. entry[b][k] \in Entry /\ entry[b][k].res # "none"
  <2>1. entry[b][k].res # "none"
    BY <1>1 DEF CanFinish
  <2> QED BY <1>1, <2>1 DEF TypeOK
<1>4. e \in Entry /\ e.res # "none" /\ e.out = "settled"
  BY <1>3, OutcomeType DEF Entry, TypeOK
<1>5. Reserved(b)' = Reserved(b) \cup {k} /\ Settled(b)' = Settled(b) \cup {k}
  <2>1. entry \in [Batches -> [Keys -> Entry]]
    BY DEF TypeOK
  <2> HIDE DEF e
  <2> QED BY <1>1, <1>2, <1>4, <2>1, EntrySets
<1>6. \A j \in Keys : j[1] = c /\ j[2] <= d <=> j = k \/ (j[1] = c /\ j[2] <= d - 1)
  <2> SUFFICES ASSUME NEW j \in Keys
               PROVE  j[1] = c /\ j[2] <= d <=> j = k \/ (j[1] = c /\ j[2] <= d - 1)
    OBVIOUS
  <2>1. j = <<j[1], j[2]>> /\ j[2] \in 1..3
    BY DEF Keys
  <2>2. j = k <=> j[1] = c /\ j[2] = d
    BY <2>1 DEF k
  <2>3. j[2] <= d <=> j[2] = d \/ j[2] <= d - 1
    BY <2>1
  <2> QED BY <2>2, <2>3
<1>7. k \in Reserved(b)
  BY <1>1, <1>3 DEF Reserved
<1> QED BY <1>5, <1>6, <1>7 DEF Spans

(* A failure whose settlement was not confirmed never lets the batch go on.*)
LEMMA UnaccountedVerdict ==
  ASSUME NEW b, NEW s, NEW accounted, NEW verdict \in FailureVerdicts(b, s, accounted),
         verdict \in Sound
  PROVE  accounted
BY DEF FailureVerdicts, ContractVerdict, Sound

LEMMA CellSettles ==
  ASSUME TypeOK, NEW p \in Processes, CellInv(p), Settle(p) \/ SettleFails(p)
  PROVE  CellInv(p)'
<1>1. PICK b \in Batches, c \in Cells, d \in 0..3 :
        b = at[p].batch /\ c = at[p].cell /\ d = step[p].decision
  BY DEF Settle, SettleFails, TypeOK
<1>2. pc[p] = "settling" /\ UNCHANGED <<at, run, policy>>
  BY DEF Settle, SettleFails
<1>3. Spans(b, c, d, d - 1) /\ run[b][c].state = "open"
  BY <1>1, <1>2 DEF CellInv
<1>4. CASE Settle(p)
  <2>1. CanFinish(b, Key(p)) /\ WriteOutcome(b, Key(p), step[p])
    BY <1>1, <1>4 DEF Settle
  <2>2. SpendOutcome(step[p]) = "settled" => Spans(b, c, d, d)'
    BY <1>1, <1>2, <1>3, <2>1, SettleSpans
  <2>3. CASE SpendOutcome(step[p]) = "settled" /\ pc' = [pc EXCEPT ![p] = "running"] /\ UNCHANGED step
    <3>1. pc'[p] = "running"
      BY <2>3 DEF TypeOK
    <3> QED BY <1>1, <1>2, <1>3, <2>2, <2>3, <3>1 DEF CellInv
  <2>4. ASSUME NEW verdict \in FailureVerdicts(b, step[p], SpendOutcome(step[p]) = "settled"),
               Concludes(p, verdict)
        PROVE  CellInv(p)'
    <3>1. verdict \in Sound => Spans(b, c, d, d)'
      BY <2>2, UnaccountedVerdict
    <3> QED BY <1>1, <1>2, <1>3, <2>4, <3>1, CellConcludes
  <2> QED BY <1>1, <1>4, <2>3, <2>4 DEF Settle
<1>5. CASE SettleFails(p)
  <2>1. PICK verdict \in FailureVerdicts(b, step[p], FALSE) : Concludes(p, verdict)
    BY <1>1, <1>5 DEF SettleFails, Unaccounted
  <2>2. verdict \notin Sound
    BY UnaccountedVerdict
  <2> QED BY <1>1, <1>2, <1>3, <2>1, <2>2, CellConcludes
<1> QED BY <1>4, <1>5

LEMMA CellSelf ==
  ASSUME TypeOK, RecordsInv, NEW p \in Processes, CellInv(p), Act(p)
  PROVE  CellInv(p)'
<1>1. CASE pc'[p] \in {"idle", "preparing", "opening", "admitted"}
  BY <1>1, CellEarly
<1>2. CASE pc'[p] = "claimed"
  <2>1. \E c \in Cells : Claim(p, c)
    <3>1. ~Leave(p)
      BY <1>2, LeaveAlone
    <3>2. \A verdict : ~Concludes(p, verdict)
      BY <1>2 DEF Concludes, TypeOK
    <3> QED BY <1>2, <3>1, <3>2 DEF TypeOK, Act, Prepare, Admit, AdmitOffline, DeriveCarry,
         OpenLedger, Start, NextDecision, Conclude, Reserve, ReserveFails, Post, AfterPost,
         Settle, SettleFails, Unaccounted, Finish, RunOffline, Record, Abort
  <2> QED BY <1>2, <2>1, CellClaim
<1>3. CASE pc'[p] \in {"running", "reserving", "posting", "settling", "finishing"}
  <2>1. \/ Start(p) \/ NextDecision(p) \/ Conclude(p) \/ Reserve(p) \/ ReserveFails(p) \/ Post(p)
        \/ Settle(p) \/ SettleFails(p)
    <3>1. ~Leave(p)
      BY <1>3, LeaveAlone
    <3> QED BY <1>3, <3>1 DEF TypeOK, Act, Prepare, Admit, AdmitOffline, DeriveCarry,
         OpenLedger, Claim, Finish, RunOffline, Record, Abort
  <2> QED BY <2>1, CellWork, CellSettles
<1>4. CASE pc'[p] = "recording"
  BY <1>4 DEF CellInv
<1>5. pc'[p] \in PC
  BY TypeStep, NextIsAct DEF TypeOK
<1> QED BY <1>1, <1>2, <1>3, <1>4, <1>5 DEF PC

(* The entries of a cell change only while its run is open. *)
LEMMA RunStep ==
  ASSUME TypeOK, WorkInv, AgreeInv, NEW p \in Processes, Act(p), NEW b \in Batches, NEW c \in Cells
  PROVE  RunOf(b, c)'
<1>1. RunOf(b, c) /\ CellInv(p) /\ run[b][c] \in Run
  BY DEF AgreeInv, TypeOK
<1>2. CASE run'[b][c] = run[b][c]
  <2> SUFFICES ASSUME run[b][c].state = "finished", ~run[b][c].offline, run[b][c].verdict \in Sound
               PROVE  Spans(b, c, run[b][c].requests, run[b][c].requests)'
    BY <1>2 DEF RunOf
  <2>1. PICK n \in 0..3 : n = run[b][c].requests /\ Spans(b, c, n, n)
    BY <1>1 DEF RunOf, Run
  <2>2. ASSUME NEW k \in Keys, k[1] = c
        PROVE  entry'[b][k] = entry[b][k]
    <3>1. ASSUME NEW a \in Batches, NEW j \in Keys, NEW e \in Entry,
                 Reserves(p, a, j, e) \/ Answers(p, a, j, e)
          PROVE  entry'[b][k] = entry[b][k]
      <4>1. a = at[p].batch /\ j[1] = at[p].cell /\ pc[p] \in {"reserving", "settling"}
            /\ entry' = [entry EXCEPT ![a] = [entry[a] EXCEPT ![j] = e]]
        BY <3>1 DEF Reserves, Answers, Key
      <4>2. run[at[p].batch][at[p].cell].state = "open"
        BY <1>1, <4>1 DEF CellInv
      <4>3. ~(a = b /\ j = k)
        BY <2>2, <4>1, <4>2
      <4> QED BY <4>1, <4>3 DEF TypeOK
    <3> QED BY <3>1, LedgerStep
  <2>3. Spans(b, c, n, n)'
    BY <2>1, <2>2, SpansFrame
  <2>4. run'[b][c].requests = n
    BY <1>2, <2>1
  <2> QED BY <2>3, <2>4 DEF Spans
<1>3. CASE run'[b][c] # run[b][c]
  <2>1. (Start(p) \/ Finish(p) \/ RunOffline(p)) /\ at[p].batch = b /\ at[p].cell = c
    <3>1. CASE Start(p)
      BY <1>3, <3>1 DEF Start, TypeOK
    <3>2. CASE Finish(p)
      BY <1>3, <3>2 DEF Finish, TypeOK
    <3>3. CASE RunOffline(p)
      <4>1. \E r : run' = [run EXCEPT ![at[p].batch][at[p].cell] = r]
        BY <3>3 DEF RunOffline
      <4>2. run \in [Batches -> [Cells -> Run]]
        BY DEF TypeOK
      <4> QED BY <1>3, <3>3, <4>1, <4>2
    <3> QED BY <1>3, <3>1, <3>2, <3>3, RunFrame
  <2>2. CASE Start(p)
    <3>1. run' = [run EXCEPT ![b][c].state = "open"]
      BY <2>1, <2>2 DEF Start
    <3>2. run'[b][c].state = "open"
      BY <1>1, <3>1 DEF TypeOK, Run
    <3> QED BY <3>2 DEF RunOf
  <2>3. CASE Finish(p)
    <3>1. PICK d \in 0..3 : d = step[p].decision
      BY DEF TypeOK
    <3>2. run'[b][c] = [state |-> "finished", requests |-> d,
                        offline |-> FALSE, verdict |-> step[p].verdict]
      BY <2>1, <2>3, <3>1 DEF Finish, TypeOK
    <3>3. step[p].verdict \in Sound => Spans(b, c, d, d)
      BY <1>1, <2>1, <2>3, <3>1 DEF Finish, CellInv
    <3>4. entry' = entry
      BY <2>3 DEF Finish
    <3>5. step[p].verdict \in Sound => Spans(b, c, d, d)'
      BY <3>3, <3>4, SpansFrame
    <3> QED BY <3>2, <3>5 DEF RunOf, Spans
  <2>4. CASE RunOffline(p)
    <3>1. PICK n \in 0..ArmRequests[at[p].cell], verdict \in OutcomeState :
            run' = [run EXCEPT ![b][c] =
              [state |-> "finished", requests |-> n, offline |-> TRUE, verdict |-> verdict]]
      BY <2>1, <2>4 DEF RunOffline
    <3>2. run'[b][c].offline
      BY <3>1 DEF TypeOK
    <3> QED BY <3>2 DEF RunOf
  <2> QED BY <2>1, <2>2, <2>3, <2>4
<1> QED BY <1>2, <1>3

LEMMA AgreeStep == TypeOK /\ WorkInv /\ RecordsInv /\ AgreeInv /\ [Next]_vars => AgreeInv'
<1> SUFFICES ASSUME TypeOK, WorkInv, RecordsInv, AgreeInv, [Next]_vars PROVE AgreeInv'
  OBVIOUS
<1>1. CASE UNCHANGED vars
  BY <1>1 DEF vars, files, locals, AgreeInv, CellInv, RunOf, Spans, Reserved, Settled
<1>2. ASSUME NEW p \in Processes, Act(p)
      PROVE  AgreeInv'
  <2>1. \A q \in Processes : CellInv(q)'
    BY <1>2, CellSelf, CellOther DEF AgreeInv
  <2>2. \A b \in Batches, c \in Cells : RunOf(b, c)'
    BY <1>2, RunStep
  <2> QED BY <2>1, <2>2 DEF AgreeInv
<1> QED BY <1>1, <1>2, NextIsAct

LEMMA AgreeInit == Init => AgreeInv
BY DEF Init, AgreeInv, CellInv, RunOf, NoStep, NoRun

(* deepseek_policy_batch.py against deepseek_policy_spend.py: the registry *)
(* closes a metered cell so that the batch goes on only when the ledger    *)
(* has exactly the cell's attempted requests reserved and settled.         *)
THEOREM RegistryAndLedgerAgree == Spec => []ClosedMeansSettled
<1>1. RegistryInv /\ AgreeInv => ClosedMeansSettled
  <2> SUFFICES ASSUME RegistryInv, AgreeInv, NEW b \in Batches, NEW c \in Cells,
                      outcome[b][c] \in Sound, ~run[b][c].offline, NEW k \in Keys, k[1] = c
               PROVE  /\ k \in Settled(b) <=> k[2] <= run[b][c].requests
                      /\ k \in Reserved(b) <=> k[2] <= run[b][c].requests
    BY DEF ClosedMeansSettled, Sound
  <2>1. run[b][c].state = "finished" /\ run[b][c].verdict \in Sound
    BY DEF RegistryInv, RegistryOf, Sound, OutcomeState
  <2>2. Spans(b, c, run[b][c].requests, run[b][c].requests)
    BY <2>1 DEF AgreeInv, RunOf
  <2> QED BY <2>2 DEF Spans
<1>2. TypeOK /\ FilesInv /\ AgreeInv /\ [Next]_vars => AgreeInv'
  BY AgreeStep DEF FilesInv
<1>3. FilesInv => RegistryInv
  BY DEF FilesInv
<1> QED BY <1>1, <1>2, <1>3, AgreeInit, FilesInit, FilesStep, TypeCorrect, PTL DEF Spec

================================================================================
