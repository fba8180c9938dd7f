----------------------------- MODULE RunStoreProofs -----------------------------
(***************************************************************************)
(* Proofs about the run stores: a run stays readable and no action is      *)
(* journalled twice, and both stores implement the abstract journal of     *)
(* RunJournal, for every set of processes, actions and phases.             *)
(*                                                                         *)
(* What is loaded is a fold over the journal, so the proofs start with the *)
(* two facts about that fold they need: one more entry is one more step,   *)
(* and entries the checkpoint contains change nothing.                     *)
(***************************************************************************)
EXTENDS RunStore, SumFacts

(* What replaying one entry does to a state, when the checkpoint contains   *)
(* the entries up to q.                                                    *)
Replayed(q, s, entry) == IF entry.sequence > q THEN Apply(s, entry.event) ELSE s

Latest(s) == CHOOSE x \in s : \A y \in s : x >= y

(* The function of which a fold is one value.                              *)
PartialFolds(q, b, seq, S, t) ==
  t = [s \in SUBSET S |-> IF s = {} THEN b
                          ELSE Replayed(q, t[s \ {Latest(s)}], seq[Latest(s)])]

(* g[i] is the state after the first i entries.                            *)
Replay(q, b, seq, g) ==
  /\ g[0] = b
  /\ \A i \in 1..Len(seq) : g[i] = Replayed(q, g[i - 1], seq[i])

LEMMA LatestOfPrefix ==
  ASSUME NEW n \in Nat, n # 0
  PROVE  Latest(1..n) = n /\ (1..n) \ {n} = 1..(n - 1)
<1>1. n \in 1..n /\ \A y \in 1..n : n >= y
  OBVIOUS
<1>2. Latest(1..n) \in 1..n /\ \A y \in 1..n : Latest(1..n) >= y
  BY <1>1 DEF Latest
<1>3. Latest(1..n) = n
  BY <1>1, <1>2
<1> QED  BY <1>3

LEMMA LatestIsMember ==
  ASSUME NEW n \in Nat, NEW s \in SUBSET (1..n), s # {}
  PROVE  Latest(s) \in s
<1> DEFINE Good == {k \in Nat : \A r \in SUBSET (1..k) : r # {} => \E x \in r : \A y \in r : x >= y}
<1>1. 0 \in Good
  <2>1. 1..0 = {}
    OBVIOUS
  <2> QED  BY <2>1
<1>2. ASSUME NEW k \in Nat, k \in Good
      PROVE  k + 1 \in Good
  <2> SUFFICES ASSUME NEW r \in SUBSET (1..(k + 1)), r # {}
               PROVE  \E x \in r : \A y \in r : x >= y
    OBVIOUS
  <2>1. CASE k + 1 \in r
    BY <2>1
  <2>2. CASE k + 1 \notin r
    <3>1. r \in SUBSET (1..k)
      BY <2>2
    <3> QED  BY <1>2, <3>1
  <2> QED  BY <2>1, <2>2
<1>3. n \in Good
  <2> HIDE DEF Good
  <2> QED  BY <1>1, <1>2, Counting
<1> QED  BY <1>3 DEF Latest

LEMMA PartialFoldsExist ==
  ASSUME NEW q, NEW b, NEW seq, NEW m \in Nat
  PROVE  \E t : PartialFolds(q, b, seq, 1..m, t)
<1> DEFINE S == 1..m
           Upto(n) == {s \in SUBSET S : Cardinality(s) <= n}
           Folds(t, n) == t = [s \in Upto(n) |-> IF s = {} THEN b
                                 ELSE Replayed(q, t[s \ {Latest(s)}], seq[Latest(s)])]
           Good == {n \in Nat : \E t : Folds(t, n)}
<1>0. IsFiniteSet(S)
  BY FS_Interval
<1> HIDE DEF S
<1>1. \A s \in SUBSET S : IsFiniteSet(s) /\ Cardinality(s) \in Nat
  BY <1>0, FS_Subset, FS_CardinalityType
<1>2. \A s \in SUBSET S : s # {} =>
        /\ Latest(s) \in s /\ s \ {Latest(s)} \in SUBSET S
        /\ Cardinality(s \ {Latest(s)}) = Cardinality(s) - 1
  <2>1. \A s \in SUBSET S : s # {} => Latest(s) \in s
    BY LatestIsMember DEF S
  <2> QED  BY <1>1, <2>1, FS_RemoveElement
<1>3. 0 \in Good
  <2>1. \A s \in SUBSET S : Cardinality(s) <= 0 <=> s = {}
    BY <1>1, FS_EmptySet
  <2>2. Folds([s \in Upto(0) |-> b], 0)
    BY <2>1
  <2> QED  BY <2>2
<1>4. ASSUME NEW n \in Nat, n \in Good
      PROVE  n + 1 \in Good
  <2>1. PICK t : Folds(t, n)
    BY <1>4
  <2> DEFINE u == [s \in Upto(n + 1) |-> IF s = {} THEN b
                     ELSE Replayed(q, t[s \ {Latest(s)}], seq[Latest(s)])]
  <2>2. \A s \in Upto(n) : s \in Upto(n + 1) /\ u[s] = t[s]
    <3> SUFFICES ASSUME NEW s \in Upto(n)
                 PROVE  s \in Upto(n + 1) /\ u[s] = t[s]
      OBVIOUS
    <3>1. s \in Upto(n + 1)
      BY <1>1
    <3>2. t[s] = IF s = {} THEN b ELSE Replayed(q, t[s \ {Latest(s)}], seq[Latest(s)])
      BY <2>1
    <3> QED  BY <3>1, <3>2
  <2>3. \A s \in Upto(n + 1) : s # {} => s \ {Latest(s)} \in Upto(n)
    BY <1>1, <1>2
  <2>4. \A s \in Upto(n + 1) : s # {} => u[s \ {Latest(s)}] = t[s \ {Latest(s)}]
    BY <2>2, <2>3
  <2>5. u = [s \in Upto(n + 1) |-> IF s = {} THEN b
               ELSE Replayed(q, u[s \ {Latest(s)}], seq[Latest(s)])]
    BY <2>4
  <2> HIDE DEF u
  <2>6. Folds(u, n + 1)
    BY <2>5
  <2> HIDE DEF Folds
  <2> QED  BY <2>6
<1> HIDE DEF Good
<1>5. Cardinality(S) \in Good
  BY <1>1, <1>3, <1>4, Counting
<1>6. PICK t : Folds(t, Cardinality(S))
  BY <1>5 DEF Good
<1>7. Upto(Cardinality(S)) = SUBSET S
  BY <1>0, FS_Subset
<1> QED  BY <1>6, <1>7 DEF PartialFolds, S

(* What is recovered is the last state of a replay.                        *)
LEMMA RecoveredIsReplay ==
  ASSUME NEW E, NEW d, d.journal \in Seq(E)
  PROVE  \E g : /\ Replay(d.row.sequence, d.row.state, d.journal, g)
                /\ Recovered(d) = g[Len(d.journal)]
<1> DEFINE q == d.row.sequence
           b == d.row.state
           seq == d.journal
           n == Len(seq)
           t == CHOOSE t : PartialFolds(q, b, seq, 1..n, t)
           g == [i \in 0..n |-> t[1..i]]
<1>1. n \in Nat /\ DOMAIN seq = 1..n
  OBVIOUS
<1>2. PartialFolds(q, b, seq, 1..n, t)
  BY <1>1, PartialFoldsExist
<1>3. Recovered(d) = t[1..n]
  BY <1>1 DEF Recovered, Unapplied, FoldLeft, MapThenFoldSet, Max, PartialFolds, Replayed, Latest
<1> HIDE DEF t, q, b, seq
<1>4. g[0] = b
  <2>1. 1..0 = {}
    OBVIOUS
  <2> QED  BY <1>1, <1>2, <2>1 DEF PartialFolds
<1>5. ASSUME NEW i \in 1..n
      PROVE  g[i] = Replayed(q, g[i - 1], seq[i])
  <2>1. /\ i \in Nat /\ i # 0 /\ i - 1 \in 0..n /\ i \in 0..n
        /\ i \in 1..i /\ 1..i \in SUBSET (1..n)
    <3> HIDE DEF n
    <3> QED  BY <1>1
  <2>2. t[1..i] = Replayed(q, t[(1..i) \ {Latest(1..i)}], seq[Latest(1..i)])
    BY <1>2, <2>1 DEF PartialFolds
  <2>3. Latest(1..i) = i /\ (1..i) \ {i} = 1..(i - 1)
    BY <2>1, LatestOfPrefix
  <2> QED  BY <2>1, <2>2, <2>3
<1>6. Recovered(d) = g[n]
  BY <1>1, <1>3
<1>7. Replay(q, b, seq, g)
  BY <1>4, <1>5 DEF Replay
<1> HIDE DEF g
<1> QED  BY <1>6, <1>7 DEF q, b, seq

(* Two replays that start alike and read the same entries agree.           *)
LEMMA ReplaysAgree ==
  ASSUME NEW E, NEW q, NEW b, NEW seq \in Seq(E), NEW more \in Seq(E),
         Len(seq) <= Len(more), \A i \in 1..Len(seq) : more[i] = seq[i],
         NEW g, Replay(q, b, seq, g), NEW h, Replay(q, b, more, h)
  PROVE  g[Len(seq)] = h[Len(seq)]
<1> DEFINE Good == {i \in Nat : i <= Len(seq) => g[i] = h[i]}
<1>1. 0 \in Good
  BY DEF Replay
<1>2. ASSUME NEW i \in Nat, i \in Good
      PROVE  i + 1 \in Good
  <2> SUFFICES ASSUME i + 1 <= Len(seq) PROVE g[i + 1] = h[i + 1]
    OBVIOUS
  <2>1. i + 1 \in 1..Len(seq) /\ i + 1 \in 1..Len(more) /\ (i + 1) - 1 = i /\ g[i] = h[i]
    BY <1>2
  <2>2. g[i + 1] = Replayed(q, g[i], seq[i + 1])
    BY <2>1 DEF Replay
  <2>3. h[i + 1] = Replayed(q, h[i], more[i + 1])
    BY <2>1 DEF Replay
  <2> QED  BY <2>1, <2>2, <2>3
<1>3. Len(seq) \in Good
  <2> HIDE DEF Good
  <2> QED  BY <1>1, <1>2, Counting
<1> QED  BY <1>3

(* One more entry is one more step.                                        *)
LEMMA RecoveredStep ==
  ASSUME NEW E, NEW d, NEW c, NEW entry \in E, d.journal \in Seq(E), c.row = d.row,
         c.journal = Append(d.journal, entry)
  PROVE  Recovered(c) = Replayed(d.row.sequence, Recovered(d), entry)
<1> DEFINE n == Len(d.journal)
<1>1. /\ n \in Nat /\ c.journal \in Seq(E) /\ Len(c.journal) = n + 1
      /\ c.journal[n + 1] = entry /\ \A i \in 1..n : c.journal[i] = d.journal[i]
  OBVIOUS
<1>2. PICK g : /\ Replay(d.row.sequence, d.row.state, d.journal, g)
               /\ Recovered(d) = g[n]
  BY RecoveredIsReplay
<1>3. PICK h : /\ Replay(d.row.sequence, d.row.state, c.journal, h)
               /\ Recovered(c) = h[n + 1]
  BY <1>1, RecoveredIsReplay
<1>4. g[n] = h[n]
  <2>1. n <= Len(c.journal)
    BY <1>1
  <2>2. PICK q, b, seq, more : /\ q = d.row.sequence /\ b = d.row.state
                               /\ seq = d.journal /\ more = c.journal
    OBVIOUS
  <2>3. /\ seq \in Seq(E) /\ more \in Seq(E) /\ Len(seq) <= Len(more)
        /\ \A i \in 1..Len(seq) : more[i] = seq[i]
        /\ Replay(q, b, seq, g) /\ Replay(q, b, more, h)
    BY <1>1, <1>2, <1>3, <2>1, <2>2
  <2>4. g[Len(seq)] = h[Len(seq)]
    BY <2>3, ReplaysAgree
  <2> QED  BY <2>2, <2>4
<1>5. h[n + 1] = Replayed(d.row.sequence, h[n], entry)
  <2>1. n + 1 \in 1..Len(c.journal) /\ (n + 1) - 1 = n
    BY <1>1
  <2> QED  BY <1>1, <1>3, <2>1 DEF Replay
<1> QED  BY <1>2, <1>3, <1>4, <1>5

(* Entries the checkpoint contains change nothing.                         *)
LEMMA RecoveredIsRow ==
  ASSUME NEW E, NEW d, d.journal \in Seq(E),
         \A i \in 1..Len(d.journal) : ~(d.journal[i].sequence > d.row.sequence)
  PROVE  Recovered(d) = d.row.state
<1> DEFINE n == Len(d.journal)
<1>1. PICK g : /\ Replay(d.row.sequence, d.row.state, d.journal, g)
               /\ Recovered(d) = g[n]
  BY RecoveredIsReplay
<1> DEFINE Good == {i \in Nat : i <= n => g[i] = d.row.state}
<1>2. 0 \in Good
  BY <1>1 DEF Replay
<1>3. ASSUME NEW i \in Nat, i \in Good
      PROVE  i + 1 \in Good
  <2> SUFFICES ASSUME i + 1 <= n PROVE g[i + 1] = d.row.state
    OBVIOUS
  <2>1. i + 1 \in 1..n /\ (i + 1) - 1 = i /\ g[i] = d.row.state
    BY <1>3
  <2> QED  BY <1>1, <2>1 DEF Replay, Replayed
<1>4. n \in Good
  <2> HIDE DEF Good
  <2>1. n \in Nat
    OBVIOUS
  <2> QED  BY <1>2, <1>3, <2>1, Counting
<1> QED  BY <1>1, <1>4

--------------------------------------------------------------------------------
(* What an event and a revision do to a state                               *)

(* States a store meets: no caller asks for a phase outside PhasesUsed.     *)
Met == {s \in States : s.phase \in PhasesUsed \cup {"received"}}

(* t is a later state than s of the same run.                               *)
Grows(s, t) ==
  /\ s.used <= t.used /\ s.notes <= t.notes
  /\ s.completed \subseteq t.completed
  /\ s.exceeded => t.exceeded
  /\ \A a \in Actions : s.reservation[a] # "none" => t.reservation[a] # "none"

LEMMA GrowsTransitive ==
  ASSUME NEW s \in States, NEW t \in States, NEW u \in States, Grows(s, t), Grows(t, u)
  PROVE  Grows(s, u)
BY DEF Grows, States

LEMMA StateFields ==
  ASSUME NEW s \in States
  PROVE  /\ s.phase \in Phases /\ s.inflight \in SUBSET Actions
         /\ s.reservation \in [Actions -> {"none", "reserved", "unknown", "settled"}]
         /\ s.completed \in SUBSET Actions /\ s.used \in Nat /\ s.exceeded \in BOOLEAN
         /\ s.queue \in SUBSET Actions /\ s.notes \in 0..MaxNotes
BY DEF States

LEMMA TransitionsInPhases ==
  ASSUME NEW before, NEW after, ValidTransition(before, after)
  PROVE  after \in Phases /\ after # "received"
BY DEF ValidTransition, Transitions, Phases, Terminals

LEMMA EventKinds ==
  ASSUME NEW e \in Events
  PROVE  \/ e.kind = "phase" /\ e.to \in PhasesUsed
         \/ e.kind = "reservation" /\ e.action \in Actions
            /\ e = [kind |-> "reservation", action |-> e.action]
         \/ e.kind = "result" /\ e.action \in Actions
            /\ e.known \in BOOLEAN /\ e.measured \in BOOLEAN /\ e.over \in BOOLEAN
BY DEF Events

(* An accepted event leads to a later state that passes the same checks.    *)
LEMMA ApplyGrows ==
  ASSUME NEW s \in Met, NEW e \in Events, Applies(s, e)
  PROVE  /\ Apply(s, e) \in Met /\ Valid(Apply(s, e)) /\ Grows(s, Apply(s, e))
         /\ \A a \in Actions : e = [kind |-> "reservation", action |-> a] =>
              s.reservation[a] = "none" /\ Apply(s, e).reservation[a] # "none"
<1>1. s \in States /\ s.phase \in PhasesUsed \cup {"received"}
  BY DEF Met
<1>2. /\ s.phase \in Phases /\ s.inflight \in SUBSET Actions
      /\ s.reservation \in [Actions -> {"none", "reserved", "unknown", "settled"}]
      /\ s.completed \in SUBSET Actions /\ s.used \in Nat /\ s.exceeded \in BOOLEAN
      /\ s.queue \in SUBSET Actions /\ s.notes \in 0..MaxNotes
  BY <1>1, StateFields
<1>3. Valid(Apply(s, e))
  BY DEF Applies
<1>4. MaxNotes \in Nat
  BY RunStateAssumption
<1>5. CASE e.kind = "phase"
  <2>1. e.to \in PhasesUsed /\ e.to \in Phases
    BY <1>5, EventKinds, TransitionsInPhases DEF Applies
  <2>2. Apply(s, e) = [s EXCEPT !.phase = e.to]
    BY <1>5 DEF Apply
  <2>3. Apply(s, e) \in States /\ Apply(s, e).phase = e.to
    BY <1>1, <2>1, <2>2 DEF States
  <2>4. Grows(s, Apply(s, e))
    BY <1>1, <1>2, <1>4, <2>2 DEF Grows, States
  <2> QED  BY <1>3, <1>5, <2>1, <2>3, <2>4 DEF Met
<1>6. CASE e.kind = "reservation"
  <2>1. e.action \in Actions /\ s.reservation[e.action] = "none"
    BY <1>6, EventKinds DEF Applies, CanReserveCall
  <2> DEFINE res == [s.reservation EXCEPT ![e.action] = "reserved"]
             busy == s.inflight \cup {e.action}
  <2>2. Apply(s, e) = [s EXCEPT !.reservation = res, !.inflight = busy]
    BY <1>1, <1>6 DEF Apply, ReservationApplied, States
  <2>7. /\ res \in [Actions -> {"none", "reserved", "unknown", "settled"}]
        /\ busy \in SUBSET Actions
    BY <1>2, <2>1
  <2> HIDE DEF res, busy
  <2>8. /\ Apply(s, e) \in States /\ Apply(s, e).phase = s.phase
        /\ Apply(s, e).reservation = res
    BY <1>1, <2>2, <2>7 DEF States
  <2>3. /\ Apply(s, e) \in States /\ Apply(s, e).phase = s.phase
        /\ Apply(s, e).reservation = [s.reservation EXCEPT ![e.action] = "reserved"]
    BY <2>8 DEF res
  <2>4. Grows(s, Apply(s, e))
    <3>1. /\ Apply(s, e).used = s.used /\ Apply(s, e).notes = s.notes
          /\ Apply(s, e).completed = s.completed /\ Apply(s, e).exceeded = s.exceeded
      BY <1>1, <2>2 DEF States
    <3> QED  BY <1>2, <1>4, <2>1, <2>3, <3>1 DEF Grows
  <2>5. Apply(s, e).reservation[e.action] # "none"
    BY <1>2, <2>1, <2>3
  <2> QED  BY <1>1, <1>3, <1>6, <2>1, <2>3, <2>4, <2>5 DEF Met
<1>7. CASE e.kind = "result"
  <2>1. /\ e.action \in Actions /\ e.known \in BOOLEAN /\ e.measured \in BOOLEAN
        /\ e.over \in BOOLEAN /\ s.reservation[e.action] = "reserved"
    BY <1>7, EventKinds DEF Applies
  <2> DEFINE settled == IF e.measured THEN "settled" ELSE "unknown"
             used == s.used + (IF e.over THEN 2 ELSE 1)
             closes == e.known /\ e.measured
             inflight == IF closes THEN s.inflight \ {e.action} ELSE s.inflight
             completed == IF closes THEN s.completed \cup {e.action} ELSE s.completed
             res == [s.reservation EXCEPT ![e.action] = settled]
             exceeded == s.exceeded \/ e.over
  <2>2. Apply(s, e) = [s EXCEPT !.reservation = res, !.used = used, !.exceeded = exceeded,
                                !.inflight = inflight, !.completed = completed]
    BY <1>1, <1>7 DEF Apply, ResultApplied, States
  <2>3. /\ settled \in {"settled", "unknown"} /\ used \in Nat /\ used >= s.used
        /\ inflight \in SUBSET Actions /\ completed \in SUBSET Actions
        /\ s.completed \subseteq completed
    BY <1>2, <2>1
  <2> HIDE DEF settled, used, inflight, completed
  <2>6. /\ res \in [Actions -> {"none", "reserved", "unknown", "settled"}]
        /\ exceeded \in BOOLEAN
        /\ \A a \in Actions : s.reservation[a] # "none" => res[a] # "none"
        /\ s.exceeded => exceeded
    BY <1>2, <2>1, <2>3
  <2> HIDE DEF res, exceeded
  <2>4. /\ Apply(s, e) \in States /\ Apply(s, e).phase = s.phase
        /\ Apply(s, e).reservation = res
        /\ Apply(s, e).used = used /\ Apply(s, e).notes = s.notes
        /\ Apply(s, e).completed = completed /\ Apply(s, e).exceeded = exceeded
    BY <1>1, <2>2, <2>3, <2>6 DEF States
  <2>5. Grows(s, Apply(s, e))
    <3>2. s.notes <= s.notes
      BY <1>2, <1>4
    <3> QED  BY <2>3, <2>4, <2>6, <3>2 DEF Grows
  <2> QED  BY <1>1, <1>3, <1>7, <2>4, <2>5 DEF Met
<1> QED  BY <1>5, <1>6, <1>7, EventKinds

LEMMA FreshIsMet ==
  ASSUME NEW s \in FreshStates
  PROVE  s \in Met
<1>1. PICK q \in SUBSET Actions :
        s = [phase |-> "received", reservation |-> [a \in Actions |-> "none"],
             inflight |-> {}, completed |-> {}, used |-> 0, exceeded |-> FALSE,
             queue |-> q, notes |-> 0]
  BY DEF FreshStates
<1>2. "received" \in Phases /\ 0 \in 0..MaxNotes
  BY RunStateAssumption DEF Phases, Transitions
<1> QED  BY <1>1, <1>2 DEF Met, States

(* The fields of a revision.                                                *)
Revised(s, t) ==
  /\ t \in States
  /\ t.phase = s.phase \/ t.phase \in PhasesUsed
  /\ t.completed = s.completed /\ t.used = s.used /\ t.exceeded = s.exceeded
  /\ s.notes <= t.notes
  /\ \A a \in Actions : \/ t.reservation[a] = s.reservation[a]
                        \/ s.reservation[a] = "none" /\ t.reservation[a] = "reserved"

LEMMA RevisionFields ==
  ASSUME NEW s \in Met, NEW t \in Revisions(s)
  PROVE  Revised(s, t) /\ t \in Met
<1>1. s \in States /\ s.phase \in PhasesUsed \cup {"received"}
  BY DEF Met
<1>2. /\ s.phase \in Phases /\ s.inflight \in SUBSET Actions
      /\ s.reservation \in [Actions -> {"none", "reserved", "unknown", "settled"}]
      /\ s.notes \in 0..MaxNotes
  BY <1>1, StateFields
<1>3. PICK p \in NextPhases(s), q \in SUBSET Actions, n \in s.notes..MaxNotes,
           new \in SUBSET Unreserved(s) :
        t = Revision(s, p, q, n, new)
  BY DEF Revisions
<1>4. p \in Phases /\ (p = s.phase \/ p \in PhasesUsed)
  BY <1>2, <1>3, TransitionsInPhases DEF NextPhases
<1>5. n \in 0..MaxNotes /\ s.notes <= n
  BY <1>2, RunStateAssumption
<1> DEFINE res == [a \in Actions |-> IF a \in new THEN "reserved" ELSE s.reservation[a]]
           busy == s.inflight \cup new
<1>6. /\ res \in [Actions -> {"none", "reserved", "unknown", "settled"}]
      /\ busy \in SUBSET Actions
      /\ \A a \in Actions : \/ res[a] = s.reservation[a]
                            \/ s.reservation[a] = "none" /\ res[a] = "reserved"
  BY <1>2, <1>3 DEF Unreserved
<1>7. t = [s EXCEPT !.phase = p, !.queue = q, !.notes = n, !.inflight = busy,
                    !.reservation = res]
  BY <1>1, <1>3 DEF States, Revision
<1> HIDE DEF res, busy
<1>8. /\ t \in States /\ t.phase = p /\ t.notes = n /\ t.reservation = res
      /\ t.completed = s.completed /\ t.used = s.used /\ t.exceeded = s.exceeded
  BY <1>1, <1>4, <1>5, <1>6, <1>7 DEF States
<1> QED  BY <1>1, <1>4, <1>5, <1>6, <1>8 DEF Revised, Met

LEMMA ForwardGrows ==
  ASSUME NEW s \in Met, NEW t \in Met, Forward(s, t)
  PROVE  Grows(s, t)
<1>1. s.used \in Nat /\ t.used \in Nat /\ s.notes \in 0..MaxNotes /\ t.notes \in 0..MaxNotes
  BY DEF Met, States
<1> QED  BY <1>1, RunStateAssumption DEF Forward, Grows

(* A revision of an old state that moves the newer one forward is a revision *)
(* of the newer one: a caller that works on stale state cannot take back     *)
(* anything that happened since, and adds nothing it could not add now.      *)
LEMMA RevisionStands ==
  ASSUME NEW v \in Met, NEW s \in Met, NEW t \in Revisions(v), Grows(v, s),
         Valid(s), Valid(t), Forward(s, t)
  PROVE  t \in Revisions(s)
<1>1. Revised(v, t) /\ t \in Met
  BY RevisionFields
<1>2. /\ s \in States /\ t \in States /\ v \in States
      /\ v.phase \in PhasesUsed \cup {"received"} /\ s.phase \in PhasesUsed \cup {"received"}
  BY <1>1 DEF Met
<1>3. /\ s.used \in Nat /\ v.used \in Nat /\ t.notes \in 0..MaxNotes /\ s.notes \in 0..MaxNotes
      /\ s.exceeded \in BOOLEAN /\ v.exceeded \in BOOLEAN
      /\ s.reservation \in [Actions -> {"none", "reserved", "unknown", "settled"}]
      /\ t.reservation \in [Actions -> {"none", "reserved", "unknown", "settled"}]
      /\ s.inflight \in SUBSET Actions /\ t.inflight \in SUBSET Actions
      /\ t.queue \in SUBSET Actions
  BY <1>2, StateFields
<1> DEFINE new == {a \in Actions : s.reservation[a] = "none" /\ t.reservation[a] = "reserved"}
<1>4. t.completed = s.completed /\ t.used = s.used /\ t.exceeded = s.exceeded
  <2>1. t.completed = s.completed
    <3>1. t.completed = v.completed /\ v.completed \subseteq s.completed
      BY <1>1 DEF Revised, Grows
    <3>2. s.completed \subseteq t.completed
      BY DEF Forward
    <3> QED  BY <3>1, <3>2
  <2>2. t.used = s.used
    BY <1>1, <1>3 DEF Revised, Grows, Forward
  <2>3. t.exceeded = s.exceeded
    BY <1>1, <1>3 DEF Revised, Grows, Forward
  <2> QED  BY <2>1, <2>2, <2>3
<1>5. \A a \in Actions : t.reservation[a] = IF a \in new THEN "reserved" ELSE s.reservation[a]
  BY <1>1, <1>3 DEF Revised, Grows, Forward
<1>6. t.reservation = [a \in Actions |-> IF a \in new THEN "reserved" ELSE s.reservation[a]]
  BY <1>3, <1>5
<1>7. t.inflight = s.inflight \cup new
  <2>1. ASSUME NEW a \in Actions
        PROVE  a \in t.inflight <=> a \in s.inflight \cup new
    <3>1. a \in t.inflight <=> t.reservation[a] \in {"reserved", "unknown"}
      BY DEF Valid
    <3>2. a \in s.inflight <=> s.reservation[a] \in {"reserved", "unknown"}
      BY DEF Valid
    <3>3. s.reservation[a] # "none" => t.reservation[a] = s.reservation[a]
      BY DEF Forward
    <3>4. t.reservation[a] # s.reservation[a] => a \in new
      BY <1>5, <3>3
    <3> QED  BY <3>1, <3>2, <3>3, <3>4
  <2> QED  BY <1>3, <2>1
<1>8. t.phase \in NextPhases(s)
  <2>1. t.phase # s.phase => ValidTransition(s.phase, t.phase) /\ t.phase # "received"
    BY TransitionsInPhases DEF Forward
  <2>2. t.phase \in PhasesUsed \cup {"received"}
    BY <1>1, <1>2 DEF Met
  <2> QED  BY <2>1, <2>2 DEF NextPhases
<1>9. t.notes \in s.notes..MaxNotes
  BY <1>3, RunStateAssumption DEF Forward
<1>10. new \in SUBSET Unreserved(s)
  BY DEF Unreserved
<1>11. t = [s EXCEPT !.phase = t.phase, !.queue = t.queue, !.notes = t.notes,
                     !.inflight = s.inflight \cup new,
                     !.reservation = [a \in Actions |->
                        IF a \in new THEN "reserved" ELSE s.reservation[a]]]
  <2> HIDE DEF new
  <2> QED  BY <1>2, <1>4, <1>6, <1>7 DEF States
<1>12. t = Revision(s, t.phase, t.queue, t.notes, new)
  <2> HIDE DEF new
  <2> QED  BY <1>2, <1>11 DEF States, Revision
<1> HIDE DEF new
<1> QED  BY <1>3, <1>8, <1>9, <1>10, <1>12 DEF Revisions
--------------------------------------------------------------------------------
(* The invariant of one run                                                 *)

Entries == [sequence: Nat, event: Events]
Rows == [state: Met, sequence: Nat]
Data == [row: {None} \cup Rows, journal: Seq(Entries), torn: BOOLEAN]

Reserving(a) == [kind |-> "reservation", action |-> a]

(* A run that can be loaded recovers a valid state, in which every action   *)
(* the journal reserves is taken; nothing is journalled before the first    *)
(* checkpoint, and no action is reserved by two entries.                    *)
DataOK(b, d) ==
  /\ d.row = None => d.journal = <<>>
  /\ d.row # None => Readable(b, d) /\ Recovered(d) \in Met /\ Valid(Recovered(d))
  /\ \A i \in 1..Len(d.journal), a \in Actions :
       d.journal[i].event = Reserving(a) => Recovered(d).reservation[a] # "none"
  /\ \A i, j \in 1..Len(d.journal), a \in Actions :
       d.journal[i].event = Reserving(a) /\ d.journal[j].event = Reserving(a) => i = j

(* A step of the abstract journal, or none.                                 *)
Moves(d, c) ==
  \/ LogOf(c) = LogOf(d) /\ StateOf(c) = StateOf(d)
  \/ /\ StateOf(d) = None /\ StateOf(c) \in FreshStates
     /\ LogOf(c) = LogOf(d)
  \/ /\ StateOf(d) # None /\ StateOf(c) \in Revisions(StateOf(d))
     /\ Valid(StateOf(c)) /\ Forward(StateOf(d), StateOf(c))
     /\ LogOf(c) = LogOf(d)
  \/ /\ StateOf(d) # None
     /\ \E e \in Events : /\ Applies(StateOf(d), e)
                          /\ LogOf(c) = Append(LogOf(d), e)
                          /\ StateOf(c) = Apply(StateOf(d), e)

LEMMA MetIsNotNone ==
  /\ None \notin Met
  /\ None \notin Rows
<1>1. Met \subseteq States
  BY DEF Met
<1>2. Rows \subseteq [state: States, sequence: Nat]
  BY <1>1 DEF Rows
<1> QED  BY <1>1, <1>2, RunStoreAssumption

LEMMA DataFields ==
  ASSUME NEW d \in Data
  PROVE  /\ d.journal \in Seq(Entries) /\ d.torn \in BOOLEAN
         /\ d.row = None \/ d.row \in Rows
         /\ d.row # None => d.row.state \in Met /\ d.row.sequence \in Nat
BY DEF Data, Rows

(* Whether the last line is torn does not matter to what is recovered.      *)
LEMMA RecoveredSame ==
  ASSUME NEW d, NEW c, c.row = d.row, c.journal = d.journal, d.journal \in Seq(Entries)
  PROVE  Recovered(c) = Recovered(d)
<1>1. PICK q, b, seq : /\ q = d.row.sequence /\ b = d.row.state /\ seq = d.journal
  OBVIOUS
<1>2. PICK g : Replay(q, b, seq, g) /\ Recovered(d) = g[Len(seq)]
  BY <1>1, RecoveredIsReplay
<1>3. PICK h : Replay(q, b, seq, h) /\ Recovered(c) = h[Len(seq)]
  BY <1>1, RecoveredIsReplay
<1>4. seq \in Seq(Entries) /\ Len(seq) <= Len(seq) /\ \A i \in 1..Len(seq) : seq[i] = seq[i]
  BY <1>1
<1>5. g[Len(seq)] = h[Len(seq)]
  BY <1>2, <1>3, <1>4, ReplaysAgree
<1> QED  BY <1>2, <1>3, <1>5

LEMMA TearSound ==
  ASSUME NEW b \in Kinds, NEW d \in Data, NEW c \in Data, DataOK(b, d),
         c.row = d.row, c.journal = d.journal
  PROVE  DataOK(b, c) /\ Moves(d, c)
<1>1. d.journal \in Seq(Entries) /\ c.journal = d.journal /\ c.row = d.row
  BY DEF Data
<1>2. Recovered(c) = Recovered(d)
  BY <1>1, RecoveredSame
<1>3. ASSUME NEW seq \in Seq(Entries)
      PROVE  Recovered([c EXCEPT !.journal = seq]) = Recovered([d EXCEPT !.journal = seq])
  <2>1. /\ [c EXCEPT !.journal = seq].row = [d EXCEPT !.journal = seq].row
        /\ [c EXCEPT !.journal = seq].journal = [d EXCEPT !.journal = seq].journal
        /\ [d EXCEPT !.journal = seq].journal \in Seq(Entries)
    BY <1>1 DEF Data
  <2> QED  BY <2>1, RecoveredSame
<1>4. Readable(b, d) => Readable(b, c)
  <2> SUFFICES ASSUME Readable(b, d) PROVE Readable(b, c)
    OBVIOUS
  <2>1. d.row # None
    BY DEF Readable, Loadable
  <2>2. d.row.sequence \in Nat
    BY <2>1, DataFields
  <2>3. ASSUME NEW i \in (c.row.sequence + 1)..Len(c.journal)
        PROVE  Applies(Recovered([c EXCEPT !.journal = SubSeq(@, 1, i - 1)]),
                       c.journal[i].event)
    <3>1. SubSeq(d.journal, 1, i - 1) \in Seq(Entries)
      BY <1>1, <2>2
    <3>2. /\ [c EXCEPT !.journal = SubSeq(@, 1, i - 1)]
               = [c EXCEPT !.journal = SubSeq(d.journal, 1, i - 1)]
          /\ [d EXCEPT !.journal = SubSeq(@, 1, i - 1)]
               = [d EXCEPT !.journal = SubSeq(d.journal, 1, i - 1)]
      BY <1>1 DEF Data
    <3>3. Applies(Recovered([d EXCEPT !.journal = SubSeq(@, 1, i - 1)]), d.journal[i].event)
      BY <1>1 DEF Readable, Loadable
    <3> QED  BY <1>1, <1>3, <3>1, <3>2, <3>3
  <2> QED  BY <1>1, <2>1, <2>3 DEF Readable, Loadable
<1>5. DataOK(b, c)
  BY <1>1, <1>2, <1>4 DEF DataOK
<1>6. Moves(d, c)
  <2>1. LogOf(c) = LogOf(d)
    BY <1>1 DEF LogOf
  <2>2. StateOf(c) = StateOf(d)
    BY <1>1, <1>2 DEF StateOf
  <2> QED  BY <2>1, <2>2 DEF Moves
<1> QED  BY <1>5, <1>6
LEMMA EarlierEntries ==
  ASSUME NEW E, NEW s \in Seq(E), NEW x \in E, NEW i \in Nat, 1 <= i, i <= Len(s) + 1
  PROVE  SubSeq(Append(s, x), 1, i - 1) = SubSeq(s, 1, i - 1)
<1>1. /\ Append(s, x) \in Seq(E) /\ Len(Append(s, x)) = Len(s) + 1
      /\ \A k \in 1..(i - 1) : Append(s, x)[k] = s[k]
  OBVIOUS
<1>2. i - 1 \in Nat /\ i - 1 <= Len(s) /\ i - 1 <= Len(Append(s, x))
  BY <1>1
<1> DEFINE m == i - 1
           t == Append(s, x)
<1>3. SubSeq(t, 1, m) \in Seq(E) /\ Len(SubSeq(t, 1, m)) = m
  BY <1>1, <1>2
<1>4. SubSeq(s, 1, m) \in Seq(E) /\ Len(SubSeq(s, 1, m)) = m
  BY <1>1, <1>2
<1>5. \A k \in 1..m : SubSeq(t, 1, m)[k] = t[k] /\ SubSeq(s, 1, m)[k] = s[k]
  BY <1>1, <1>2
<1> HIDE DEF m, t
<1>6. \A k \in 1..m : SubSeq(t, 1, m)[k] = SubSeq(s, 1, m)[k]
  BY <1>1, <1>5 DEF m, t
<1> QED  BY <1>3, <1>4, <1>6 DEF m, t

LEMMA LogFields ==
  ASSUME NEW d \in Data
  PROVE  /\ LogOf(d) \in Seq(Events) /\ Len(LogOf(d)) = Len(d.journal)
         /\ Len(d.journal) \in Nat
         /\ \A i \in 1..Len(d.journal) : LogOf(d)[i] = d.journal[i].event
<1>1. PICK j \in Seq(Entries) : j = d.journal
  BY DataFields
<1>2. \A i \in 1..Len(j) : j[i].event \in Events
  <2>1. \A i \in 1..Len(j) : j[i] \in Entries
    OBVIOUS
  <2>2. \A x \in Entries : x.event \in Events
    BY DEF Entries
  <2> QED  BY <2>1, <2>2
<1>3. LogOf(d) = [i \in 1..Len(j) |-> j[i].event] /\ Len(j) \in Nat
  BY <1>1 DEF LogOf
<1> QED  BY <1>1, <1>2, <1>3

(* What the journal and the row are after an event is stored.               *)
LEMMA AppendFields ==
  ASSUME NEW b \in Kinds, NEW d \in Data, DataOK(b, d), Readable(b, d), ~d.torn,
         NEW n, NEW e \in Events, CanAppend(d, n, e), NEW c, c = Appended(b, d, n, e)
  PROVE  /\ c \in Data /\ c.row # None
         /\ n \in Nat /\ n = Len(d.journal) + 1 /\ d.row.sequence < n
         /\ c.journal = Append(d.journal, Entry(n, e)) /\ Entry(n, e) \in Entries
         /\ b = "json" => c.row = d.row
         /\ b = "sqlite" => c.row = [state |-> Apply(Recovered(d), e), sequence |-> n]
         /\ b = "json" => c = [d EXCEPT !.journal = Append(d.journal, Entry(n, e))]
<1>1. /\ d.journal \in Seq(Entries) /\ d.row # None /\ d.row.sequence \in Nat
      /\ d.row \in Rows /\ d.row.sequence <= Len(d.journal)
  BY DataFields DEF Readable, Loadable
<1>2. n = Len(d.journal) + 1 /\ n \in Nat /\ d.row.sequence < n
  BY <1>1 DEF CanAppend
<1>3. Entry(n, e) \in Entries
  BY <1>2 DEF Entry, Entries
<1>4. Apply(Recovered(d), e) \in Met
  BY <1>1, ApplyGrows DEF CanAppend, DataOK
<1> DEFINE row == [state |-> Apply(Recovered(d), e), sequence |-> n]
           journal == Append(d.journal, Entry(n, e))
<1>5. row \in Rows /\ journal \in Seq(Entries)
  BY <1>1, <1>2, <1>3, <1>4 DEF Rows
<1>6. c = [d EXCEPT !.journal = journal, !.row = IF b = "json" THEN d.row ELSE row]
  BY DEF Appended, Data
<1>7. row # None
  BY <1>5, MetIsNotNone
<1> HIDE DEF row, journal
<1>8. CASE b = "json"
  <2>1. c = [d EXCEPT !.journal = journal]
    BY <1>6, <1>8 DEF Data
  <2>2. c \in Data /\ c.row = d.row /\ c.journal = journal
    BY <1>5, <2>1 DEF Data
  <2> QED  BY <1>1, <1>2, <1>3, <1>8, <2>1, <2>2 DEF journal
<1>9. CASE b = "sqlite"
  <2>1. c = [d EXCEPT !.journal = journal, !.row = row]
    BY <1>6, <1>9
  <2>2. c \in Data /\ c.row = row /\ c.journal = journal
    BY <1>5, <2>1 DEF Data
  <2> QED  BY <1>2, <1>3, <1>7, <1>9, <2>2 DEF journal, row
<1> QED  BY <1>8, <1>9 DEF Kinds

LEMMA AppendRecovers ==
  ASSUME NEW b \in Kinds, NEW d \in Data, DataOK(b, d), Readable(b, d), ~d.torn,
         NEW n, NEW e \in Events, CanAppend(d, n, e), NEW c, c = Appended(b, d, n, e)
  PROVE  Recovered(c) = Apply(Recovered(d), e)
<1>1. /\ d.journal \in Seq(Entries) /\ c.journal \in Seq(Entries)
      /\ n \in Nat /\ n = Len(d.journal) + 1 /\ d.row.sequence < n
      /\ c.journal = Append(d.journal, Entry(n, e)) /\ Entry(n, e) \in Entries
      /\ b = "json" => c.row = d.row
      /\ b = "sqlite" => c.row = [state |-> Apply(Recovered(d), e), sequence |-> n]
  BY AppendFields, DataFields
<1>2. d.row.sequence \in Nat
  BY DataFields DEF Readable, Loadable
<1>3. CASE b = "json"
  <2>1. Recovered(c) = Replayed(d.row.sequence, Recovered(d), Entry(n, e))
    BY <1>1, <1>3, RecoveredStep
  <2> QED  BY <1>1, <1>2, <2>1 DEF Replayed, Entry
<1>4. CASE b = "sqlite"
  <2>1. ASSUME NEW i \in 1..Len(c.journal)
        PROVE  ~(c.journal[i].sequence > c.row.sequence)
    <3>1. i \in Nat /\ i <= n /\ c.row.sequence = n
      BY <1>1, <1>4
    <3>2. c.journal[i].sequence = i
      <4>1. CASE i = n
        <5>1. c.journal[n] = Entry(n, e) /\ Entry(n, e).sequence = n
          BY <1>1 DEF Entry
        <5> QED  BY <4>1, <5>1
      <4>2. CASE i # n
        <5>1. i \in 1..Len(d.journal) /\ c.journal[i] = d.journal[i]
          BY <1>1, <3>1, <4>2
        <5> QED  BY <5>1 DEF Readable, Loadable
      <4> QED  BY <4>1, <4>2
    <3> QED  BY <1>1, <3>1, <3>2
  <2>2. Recovered(c) = c.row.state
    BY <1>1, <2>1, RecoveredIsRow
  <2> QED  BY <1>1, <1>4, <2>2
<1> QED  BY <1>3, <1>4 DEF Kinds

LEMMA AppendSound ==
  ASSUME NEW b \in Kinds, NEW d \in Data, DataOK(b, d), Readable(b, d), ~d.torn,
         NEW n, NEW e \in Events, CanAppend(d, n, e), NEW c, c = Appended(b, d, n, e)
  PROVE  c \in Data /\ DataOK(b, c) /\ Moves(d, c)
<1> DEFINE r == Recovered(d)
<1>1. /\ c \in Data /\ c.row # None /\ d.row # None
      /\ d.journal \in Seq(Entries) /\ c.journal \in Seq(Entries)
      /\ n \in Nat /\ n = Len(d.journal) + 1 /\ d.row.sequence < n
      /\ c.journal = Append(d.journal, Entry(n, e)) /\ Entry(n, e) \in Entries
      /\ b = "json" => c.row = d.row
      /\ b = "sqlite" => c.row = [state |-> Apply(r, e), sequence |-> n]
      /\ b = "json" => c = [d EXCEPT !.journal = Append(d.journal, Entry(n, e))]
  <2>1. d.row # None /\ d.journal \in Seq(Entries)
    BY DataFields DEF Readable, Loadable
  <2>2. c \in Data
    BY AppendFields
  <2>3. c.journal \in Seq(Entries)
    BY <2>2, DataFields
  <2> QED  BY <2>1, <2>2, <2>3, AppendFields
<1>2. /\ r \in Met /\ Valid(r) /\ Applies(r, e) /\ d.row.sequence \in Nat
      /\ \A i \in 1..Len(d.journal) : d.journal[i].sequence = i
  BY <1>1, DataFields DEF CanAppend, DataOK, Readable, Loadable
<1>3. /\ Recovered(c) = Apply(r, e) /\ Apply(r, e) \in Met /\ Valid(Apply(r, e))
      /\ Grows(r, Apply(r, e))
      /\ \A a \in Actions : e = Reserving(a) =>
           r.reservation[a] = "none" /\ Apply(r, e).reservation[a] # "none"
  BY <1>2, AppendRecovers, ApplyGrows DEF Reserving
<1>4. \A i \in 1..Len(c.journal) :
        \/ i \in 1..Len(d.journal) /\ c.journal[i] = d.journal[i]
        \/ i = n /\ c.journal[i] = Entry(n, e)
  BY <1>1
<1>5. Loadable(c)
  <2>1. Valid(c.row.state)
    <3>1. Valid(d.row.state)
      BY DEF Readable, Loadable
    <3> QED  BY <1>1, <1>3, <3>1 DEF Kinds
  <2>2. \A i \in DOMAIN c.journal : c.journal[i].sequence = i
    BY <1>1, <1>2, <1>4 DEF Entry
  <2>3. c.row.sequence <= Len(c.journal)
    BY <1>1, <1>2 DEF Kinds
  <2>4. ASSUME NEW i \in (c.row.sequence + 1)..Len(c.journal)
        PROVE  Applies(Recovered([c EXCEPT !.journal = SubSeq(@, 1, i - 1)]),
                       c.journal[i].event)
    <3>1. b = "json"
      <4>1. CASE b = "sqlite"
        <5>1. (n + 1)..n = {} /\ c.row.sequence = n /\ Len(c.journal) = n
          BY <1>1, <4>1
        <5> QED  BY <5>1
      <4> QED  BY <4>1 DEF Kinds
    <3>2. /\ i \in Nat /\ d.row.sequence + 1 <= i /\ i <= n
          /\ c.journal \in Seq(Entries)
      BY <1>1, <1>2, <3>1
    <3>3. SubSeq(c.journal, 1, i - 1) = SubSeq(d.journal, 1, i - 1)
      BY <1>1, <1>2, <3>2, EarlierEntries
    <3>4. [c EXCEPT !.journal = SubSeq(@, 1, i - 1)]
            = [d EXCEPT !.journal = SubSeq(d.journal, 1, i - 1)]
      <4>1. [c EXCEPT !.journal = SubSeq(@, 1, i - 1)]
              = [c EXCEPT !.journal = SubSeq(d.journal, 1, i - 1)]
        BY <1>1, <3>3 DEF Data
      <4> QED  BY <1>1, <3>1, <4>1 DEF Data
    <3>5. CASE i = n
      <4>1. SubSeq(d.journal, 1, i - 1) = d.journal
        BY <1>1, <3>5
      <4>2. [d EXCEPT !.journal = d.journal] = d
        BY DEF Data
      <4>3. c.journal[i].event = e
        BY <1>1, <3>5 DEF Entry
      <4> QED  BY <1>2, <3>4, <4>1, <4>2, <4>3
    <3>6. CASE i # n
      <4>1. i \in (d.row.sequence + 1)..Len(d.journal) /\ c.journal[i] = d.journal[i]
        BY <1>1, <1>2, <3>2, <3>6
      <4>2. Applies(Recovered([d EXCEPT !.journal = SubSeq(@, 1, i - 1)]), d.journal[i].event)
        BY <4>1 DEF Readable, Loadable
      <4>3. [d EXCEPT !.journal = SubSeq(@, 1, i - 1)]
              = [d EXCEPT !.journal = SubSeq(d.journal, 1, i - 1)]
        BY DEF Data
      <4> QED  BY <3>4, <4>1, <4>2, <4>3
    <3> QED  BY <3>5, <3>6
  <2> QED  BY <1>1, <2>1, <2>2, <2>3, <2>4 DEF Loadable
<1>6. Readable(b, c)
  BY <1>1, <1>5 DEF Readable
<1>7. DataOK(b, c)
  <2>1. ASSUME NEW i \in 1..Len(c.journal), NEW a \in Actions,
               c.journal[i].event = Reserving(a)
        PROVE  Recovered(c).reservation[a] # "none"
    <3>1. CASE i \in 1..Len(d.journal) /\ c.journal[i] = d.journal[i]
      <4>1. r.reservation[a] # "none"
        BY <2>1, <3>1 DEF DataOK
      <4> QED  BY <1>3, <4>1 DEF Grows
    <3>2. CASE i = n /\ c.journal[i] = Entry(n, e)
      BY <1>3, <2>1, <3>2 DEF Entry
    <3> QED  BY <1>4, <3>1, <3>2
  <2>2. ASSUME NEW i \in 1..Len(c.journal), NEW j \in 1..Len(c.journal), NEW a \in Actions,
               c.journal[i].event = Reserving(a), c.journal[j].event = Reserving(a)
        PROVE  i = j
    <3>1. \A k \in 1..Len(c.journal) :
            c.journal[k].event = Reserving(a) /\ k # n =>
              /\ k \in 1..Len(d.journal) /\ d.journal[k].event = Reserving(a)
              /\ r.reservation[a] # "none"
      BY <1>4 DEF DataOK
    <3>2. ASSUME e = Reserving(a)
          PROVE  i = n /\ j = n
      BY <1>3, <2>2, <3>1, <3>2
    <3>3. c.journal[n].event = e
      BY <1>1 DEF Entry
    <3>4. CASE i = n \/ j = n
      BY <2>2, <3>2, <3>3, <3>4
    <3>5. CASE i # n /\ j # n
      BY <2>2, <3>1, <3>5 DEF DataOK
    <3> QED  BY <3>4, <3>5
  <2> QED  BY <1>1, <1>3, <1>6, <2>1, <2>2 DEF DataOK
<1>8. Moves(d, c)
  <2>1. StateOf(d) = r /\ StateOf(c) = Apply(r, e) /\ r # None
    BY <1>1, <1>2, <1>3, MetIsNotNone DEF StateOf
  <2>2. LogOf(c) = Append(LogOf(d), e)
    <3>1. /\ LogOf(d) \in Seq(Events) /\ LogOf(c) \in Seq(Events)
          /\ Len(LogOf(d)) = Len(d.journal) /\ Len(LogOf(c)) = Len(c.journal)
          /\ \A i \in 1..Len(d.journal) : LogOf(d)[i] = d.journal[i].event
          /\ \A i \in 1..Len(c.journal) : LogOf(c)[i] = c.journal[i].event
      BY <1>1, LogFields
    <3>2. Len(c.journal) = n /\ Len(d.journal) = n - 1 /\ n \in Nat
      BY <1>1
    <3> DEFINE more == Append(LogOf(d), e)
    <3>3. /\ more[n] = e /\ \A i \in 1..(n - 1) : more[i] = LogOf(d)[i]
      BY <3>1, <3>2
    <3>5. \A i \in 1..n : LogOf(c)[i] = more[i]
      <4> HIDE DEF more
      <4>1. \A i \in 1..(n - 1) : LogOf(c)[i] = LogOf(d)[i]
        BY <1>4, <3>1, <3>2
      <4>2. LogOf(c)[n] = e
        BY <1>1, <3>1, <3>2 DEF Entry
      <4> QED  BY <3>2, <3>3, <4>1, <4>2
    <3>4. Append(LogOf(d), e) \in Seq(Events) /\ Len(Append(LogOf(d), e)) = Len(c.journal)
      BY <3>1, <3>2
    <3> QED  BY <3>1, <3>2, <3>4, <3>5
  <2> QED  BY <1>2, <2>1, <2>2 DEF Moves
<1> QED  BY <1>1, <1>7, <1>8
(* A checkpoint at the end of the journal needs no entry replayed.          *)
LEMMA ReadableAtEnd ==
  ASSUME NEW b, NEW c, c.row # None, Valid(c.row.state), Len(c.journal) \in Nat,
         c.row.sequence = Len(c.journal),
         \A i \in DOMAIN c.journal : c.journal[i].sequence = i
  PROVE  Readable(b, c)
<1>1. \A i \in (c.row.sequence + 1)..Len(c.journal) : FALSE
  OBVIOUS
<1>2. c.row.sequence <= Len(c.journal)
  OBVIOUS
<1> QED  BY <1>1, <1>2 DEF Readable, Loadable

(* What a checkpoint stores is what is recovered from then on.              *)
LEMMA CheckpointSound ==
  ASSUME NEW b \in Kinds, NEW d \in Data, DataOK(b, d), NEW s \in Met,
         CanCheckpoint(d, s), NEW c,
         c = [d EXCEPT !.row = [state |-> s,
                                sequence |-> IF d.row = None THEN 0 ELSE Len(d.journal)]]
  PROVE  /\ c \in Data /\ DataOK(b, c) /\ StateOf(c) = s /\ LogOf(c) = LogOf(d)
         /\ d.row # None => Grows(Recovered(d), s)
<1> DEFINE n == IF d.row = None THEN 0 ELSE Len(d.journal)
           row == [state |-> s, sequence |-> n]
<1>1. /\ d.journal \in Seq(Entries) /\ Len(d.journal) = n /\ n \in Nat
      /\ \A i \in 1..Len(d.journal) : d.journal[i].sequence = i
  <2>1. d.journal \in Seq(Entries)
    BY DataFields
  <2>2. CASE d.row = None
    <3>1. d.journal = <<>>
      BY <2>2 DEF DataOK
    <3> QED  BY <2>1, <2>2, <3>1
  <2>3. CASE d.row # None
    <3>1. Readable(b, d)
      BY <2>3 DEF DataOK
    <3>2. \A i \in DOMAIN d.journal : d.journal[i].sequence = i
      BY <3>1 DEF Readable, Loadable
    <3> QED  BY <2>1, <2>3, <3>2
  <2> QED  BY <2>2, <2>3
<1> HIDE DEF n
<1>2. row \in Rows /\ row # None /\ row.state = s /\ row.sequence = n
  BY <1>1, MetIsNotNone DEF Rows
<1> HIDE DEF row
<1>3. c \in Data /\ c.row = row /\ c.journal = d.journal
  BY <1>2 DEF Data, row, n
<1>4. Recovered(c) = s
  <2>1. \A i \in 1..Len(c.journal) : ~(c.journal[i].sequence > c.row.sequence)
    BY <1>1, <1>2, <1>3
  <2> QED  BY <1>1, <1>2, <1>3, <2>1, RecoveredIsRow
<1>5. Valid(s)
  BY DEF CanCheckpoint
<1>6. d.row # None => Forward(Recovered(d), s) /\ Grows(Recovered(d), s)
  BY ForwardGrows DEF CanCheckpoint, DataOK
<1>7. Readable(b, c)
  <2>1. c.row # None /\ Valid(c.row.state)
    BY <1>2, <1>3, <1>5
  <2>2. c.row.sequence = Len(c.journal) /\ Len(c.journal) \in Nat
    BY <1>1, <1>2, <1>3
  <2>3. \A i \in DOMAIN c.journal : c.journal[i].sequence = i
    BY <1>1, <1>3
  <2> QED  BY <2>1, <2>2, <2>3, ReadableAtEnd
<1>8. DataOK(b, c)
  <2>1. ASSUME NEW i \in 1..Len(c.journal), NEW a \in Actions,
               c.journal[i].event = Reserving(a)
        PROVE  Recovered(c).reservation[a] # "none"
    <3>1. d.row # None
      BY <1>1, <1>3, <2>1 DEF n
    <3>2. Recovered(d).reservation[a] # "none"
      BY <1>3, <2>1 DEF DataOK
    <3> QED  BY <1>4, <1>6, <3>1, <3>2 DEF Grows
  <2>2. \A i, j \in 1..Len(c.journal), a \in Actions :
          c.journal[i].event = Reserving(a) /\ c.journal[j].event = Reserving(a) => i = j
    BY <1>3 DEF DataOK
  <2> QED  BY <1>2, <1>3, <1>4, <1>5, <1>7, <2>1, <2>2 DEF DataOK
<1> QED  BY <1>2, <1>3, <1>4, <1>6, <1>8 DEF StateOf, LogOf

(* A step of the journal leads to a later state.                            *)
LEMMA MovesGrow ==
  ASSUME NEW b \in Kinds, NEW d \in Data, NEW c \in Data, DataOK(b, d), DataOK(b, c),
         Moves(d, c), d.row # None
  PROVE  c.row # None /\ Grows(Recovered(d), Recovered(c))
<1>1. Recovered(d) \in Met /\ StateOf(d) = Recovered(d) /\ StateOf(d) # None
  BY MetIsNotNone DEF DataOK, StateOf
<1>2. StateOf(c) \in Met /\ Grows(StateOf(d), StateOf(c))
  <2>1. CASE StateOf(c) = StateOf(d)
    <3>1. StateOf(d).used \in Nat /\ StateOf(d).notes \in 0..MaxNotes /\ MaxNotes \in Nat
      BY <1>1, RunStateAssumption DEF Met, States
    <3> QED  BY <1>1, <2>1, <3>1 DEF Grows
  <2>2. CASE StateOf(c) \in Revisions(StateOf(d)) /\ Forward(StateOf(d), StateOf(c))
    <3>1. StateOf(c) \in Met
      BY <1>1, <2>2, RevisionFields
    <3> QED  BY <1>1, <2>2, <3>1, ForwardGrows
  <2>3. ASSUME NEW e \in Events, Applies(StateOf(d), e), StateOf(c) = Apply(StateOf(d), e)
        PROVE  StateOf(c) \in Met /\ Grows(StateOf(d), StateOf(c))
    BY <1>1, <2>3, ApplyGrows
  <2> QED  BY <1>1, <2>1, <2>2, <2>3 DEF Moves
<1>3. c.row # None
  BY <1>2, MetIsNotNone DEF StateOf
<1> QED  BY <1>1, <1>2, <1>3 DEF StateOf
--------------------------------------------------------------------------------
(* The invariant of the root, and its steps                                 *)

(* What a process last saw is an earlier state of the run it sees: without  *)
(* it a checkpoint of a stale view could not be told from a revision.       *)
StoreInv ==
  /\ backend \in [Procs -> Kinds]
  /\ data \in [Kinds -> Data]
  /\ view \in [Procs -> {None} \cup Rows]
  /\ \A b \in Kinds : DataOK(b, data[b])
  /\ \A p \in Procs : view[p] # None =>
       /\ data[backend[p]].row # None
       /\ Grows(view[p].state, Recovered(data[backend[p]]))

LEMMA StoreInvInit ==
  ASSUME Init
  PROVE  StoreInv
<1>1. backend \in [Procs -> Kinds]
  BY RunStoreAssumption DEF Init, Kinds
<1>2. NoData \in Data
  BY DEF NoData, Data
<1>3. data \in [Kinds -> Data] /\ view \in [Procs -> {None} \cup Rows]
  BY <1>2 DEF Init
<1>4. ASSUME NEW b \in Kinds
      PROVE  DataOK(b, data[b])
  <2>1. data[b].row = None /\ data[b].journal = <<>>
    BY DEF Init, NoData
  <2>2. \A i \in 1..Len(data[b].journal) : FALSE
    BY <2>1
  <2> QED  BY <2>1, <2>2 DEF DataOK
<1>5. \A p \in Procs : view[p] = None
  BY DEF Init
<1> QED  BY <1>1, <1>3, <1>4, <1>5 DEF StoreInv

(* The state of a run stays as it is, or moves as the journal may.          *)
Follows(b, d, c) == c = d \/ (DataOK(b, c) /\ Moves(d, c))

Keeps ==
  /\ backend' = backend /\ data' \in [Kinds -> Data]
  /\ \A b \in Kinds : Follows(b, data[b], data'[b])

LEMMA StoredKeeps ==
  ASSUME StoreInv, NEW p \in Procs, NEW c \in Data, NEW ok \in BOOLEAN, WriteStored(p, c, ok),
         DataOK(backend[p], c), Moves(data[backend[p]], c)
  PROVE  Keeps /\ view' = view
<1>1. /\ backend[p] \in Kinds /\ data \in [Kinds -> Data]
  BY DEF StoreInv
<1>2. data' = [data EXCEPT ![backend[p]] = c] /\ backend' = backend /\ view' = view
  BY DEF WriteStored
<1>3. data' \in [Kinds -> Data] /\ data'[backend[p]] = c
      /\ \A b \in Kinds : b # backend[p] => data'[b] = data[b]
  BY <1>1, <1>2
<1>4. ASSUME NEW b \in Kinds
      PROVE  Follows(b, data[b], data'[b])
  <2>1. CASE b = backend[p]
    BY <1>3, <2>1 DEF Follows
  <2>2. CASE b # backend[p]
    BY <1>3, <2>2 DEF Follows
  <2> QED  BY <2>1, <2>2
<1> QED  BY <1>2, <1>3, <1>4 DEF Keeps

LEMMA TearKeeps ==
  ASSUME StoreInv, NEW p \in Procs, WriteTears(p)
  PROVE  Keeps /\ view' = view
<1>1. data \in [Kinds -> Data] /\ "json" \in Kinds /\ DataOK("json", data["json"])
  BY DEF StoreInv, Kinds
<1>2. /\ data' = [data EXCEPT !["json"].torn = TRUE] /\ backend' = backend /\ view' = view
  BY DEF WriteTears
<1>3. PICK d \in Data, c \in Data : /\ d = data["json"] /\ c = data'["json"]
                                    /\ c.row = d.row /\ c.journal = d.journal
  <2>1. [data["json"] EXCEPT !.torn = TRUE] \in Data
    BY <1>1 DEF Data
  <2>2. data'["json"] = [data["json"] EXCEPT !.torn = TRUE]
    BY <1>1, <1>2
  <2>3. data'["json"].row = data["json"].row /\ data'["json"].journal = data["json"].journal
    BY <1>1, <2>2 DEF Data
  <2> QED  BY <1>1, <2>1, <2>2, <2>3
<1>4. data' \in [Kinds -> Data] /\ \A b \in Kinds : b # "json" => data'[b] = data[b]
  BY <1>1, <1>2, <1>3
<1>5. DataOK("json", c) /\ Moves(d, c)
  BY <1>1, <1>3, TearSound
<1>6. ASSUME NEW b \in Kinds
      PROVE  Follows(b, data[b], data'[b])
  <2>1. CASE b = "json"
    BY <1>3, <1>5, <2>1 DEF Follows
  <2>2. CASE b # "json"
    BY <1>4, <2>2 DEF Follows
  <2> QED  BY <2>1, <2>2
<1> QED  BY <1>2, <1>4, <1>6 DEF Keeps

LEMMA AppendKeeps ==
  ASSUME StoreInv, NEW p \in Procs, NEW n, NEW e \in Events, AppendEvent(p, n, e)
  PROVE  Keeps /\ view' = view
<1>1. PICK b, d : b = backend[p] /\ d = data[b]
  OBVIOUS
<1>2. b \in Kinds /\ d \in Data /\ DataOK(b, d)
  BY <1>1 DEF StoreInv
<1>3. ~d.torn /\ Readable(b, d) /\ CanAppend(d, n, e)
  BY <1>1 DEF AppendEvent, MayWrite
<1>4. CASE WriteFails(p)
  BY <1>4 DEF WriteFails, Keeps, Follows, StoreInv
<1>5. CASE WriteTears(p)
  BY <1>5, TearKeeps
<1>6. ASSUME NEW ok \in BOOLEAN, WriteStored(p, Appended(b, d, n, e), ok)
      PROVE  Keeps /\ view' = view
  <2>1. PICK c : c = Appended(b, d, n, e)
    OBVIOUS
  <2>2. c \in Data /\ DataOK(b, c) /\ Moves(d, c)
    BY <1>2, <1>3, <2>1, AppendSound
  <2> QED  BY <1>1, <1>6, <2>1, <2>2, StoredKeeps
<1> QED  BY <1>1, <1>4, <1>5, <1>6 DEF AppendEvent

LEMMA CheckpointKeeps ==
  ASSUME StoreInv, NEW p \in Procs, NEW s \in Offers(p), Checkpoint(p, s)
  PROVE  Keeps /\ view' = view
<1>1. PICK b, d : b = backend[p] /\ d = data[b]
  OBVIOUS
<1>2. b \in Kinds /\ d \in Data /\ DataOK(b, d)
  BY <1>1 DEF StoreInv
<1>3. CanCheckpoint(d, s)
  BY <1>1 DEF Checkpoint
<1>4. CASE WriteFails(p)
  BY <1>4 DEF WriteFails, Keeps, Follows, StoreInv
<1> DEFINE row == [state |-> s, sequence |-> IF d.row = None THEN 0 ELSE Len(d.journal)]
<1>5. ASSUME NEW ok \in BOOLEAN, WriteStored(p, [d EXCEPT !.row = row], ok)
      PROVE  Keeps /\ view' = view
  <2>1. /\ s \in Met
        /\ d.row = None => s \in FreshStates
        /\ d.row # None => s \in Revisions(Recovered(d))
    <3>1. CASE d.row = None
      <4>1. s \in FreshStates
        BY <1>1, <3>1 DEF Offers
      <4> QED  BY <3>1, <4>1, FreshIsMet
    <3>2. CASE d.row # None
      <4>1. Recovered(d) \in Met /\ Valid(Recovered(d))
        BY <1>2, <3>2 DEF DataOK
      <4>2. CASE s \in Revisions(Recovered(d))
        BY <3>2, <4>1, <4>2, RevisionFields
      <4>3. CASE view[p] # None /\ s \in Revisions(view[p].state)
        <5>1. view[p].state \in Met /\ Grows(view[p].state, Recovered(d))
          BY <1>1, <4>3 DEF StoreInv, Rows
        <5>2. s \in Met
          BY <4>3, <5>1, RevisionFields
        <5>3. Valid(s) /\ Forward(Recovered(d), s)
          BY <1>3, <3>2 DEF CanCheckpoint
        <5>4. s \in Revisions(Recovered(d))
          BY <4>1, <4>3, <5>1, <5>2, <5>3, RevisionStands
        <5> QED  BY <3>2, <5>2, <5>4
      <4> QED  BY <1>1, <3>2, <4>2, <4>3 DEF Offers
    <3> QED  BY <3>1, <3>2
  <2>2. PICK c : c = [d EXCEPT !.row = row]
    OBVIOUS
  <2>3. /\ c \in Data /\ DataOK(b, c) /\ StateOf(c) = s /\ LogOf(c) = LogOf(d)
    BY <1>2, <1>3, <2>1, <2>2, CheckpointSound
  <2>4. Moves(d, c)
    <3>1. d.row # None => StateOf(d) = Recovered(d) /\ StateOf(d) # None
      BY <1>2, MetIsNotNone DEF DataOK, StateOf
    <3>2. d.row = None => StateOf(d) = None
      BY DEF StateOf
    <3> QED  BY <1>3, <2>1, <2>3, <3>1, <3>2 DEF Moves, CanCheckpoint
  <2> QED  BY <1>1, <1>5, <2>2, <2>3, <2>4, StoredKeeps
<1> QED  BY <1>1, <1>4, <1>5 DEF Checkpoint

LEMMA StepKeeps ==
  ASSUME StoreInv, [Next]_vars
  PROVE  /\ Keeps
         /\ \/ view' = view
            \/ \E p \in Procs : view' = [view EXCEPT ![p] = None] /\ data' = data
            \/ \E p \in Procs : Load(p) /\ data' = data
<1>1. CASE UNCHANGED vars
  BY <1>1 DEF vars, Keeps, Follows, StoreInv
<1>2. ASSUME NEW p \in Procs, Look(p) \/ Lock(p) \/ CreateSchema(p) \/ MeetTear(p)
      PROVE  Keeps /\ view' = view
  BY <1>2 DEF Look, Lock, CreateSchema, MeetTear, durable, Keeps, Follows, StoreInv
<1>3. ASSUME NEW p \in Procs, Stop(p)
      PROVE  Keeps /\ view' = [view EXCEPT ![p] = None] /\ data' = data
  BY <1>3 DEF Stop, durable, Keeps, Follows, StoreInv
<1>4. ASSUME NEW p \in Procs, Load(p)
      PROVE  Keeps /\ Load(p) /\ data' = data
  BY <1>4 DEF Load, durable, Keeps, Follows, StoreInv
<1>5. ASSUME NEW p \in Procs, Write(p)
      PROVE  Keeps /\ view' = view
  BY <1>5, AppendKeeps, CheckpointKeeps DEF Write
<1> QED  BY <1>1, <1>2, <1>3, <1>4, <1>5 DEF Next

LEMMA StoreInvStep ==
  ASSUME StoreInv, [Next]_vars
  PROVE  StoreInv'
<1>1. /\ backend' = backend /\ data' \in [Kinds -> Data]
      /\ \A b \in Kinds : Follows(b, data[b], data'[b])
  BY StepKeeps DEF Keeps
<1>2. /\ backend \in [Procs -> Kinds] /\ data \in [Kinds -> Data]
      /\ view \in [Procs -> {None} \cup Rows]
      /\ \A b \in Kinds : DataOK(b, data[b])
  BY DEF StoreInv
<1>3. \A b \in Kinds : DataOK(b, data'[b])
  BY <1>1, <1>2 DEF Follows
<1>4. ASSUME NEW p \in Procs, view[p] # None
      PROVE  /\ data'[backend[p]].row # None
             /\ Grows(view[p].state, Recovered(data'[backend[p]]))
  <2>1. PICK b, d, c, v : /\ b = backend[p] /\ d = data[b] /\ c = data'[b] /\ v = view[p].state
    OBVIOUS
  <2>2. /\ b \in Kinds /\ d \in Data /\ c \in Data /\ v \in Met
        /\ DataOK(b, d) /\ DataOK(b, c)
        /\ c = d \/ Moves(d, c)
    BY <1>1, <1>2, <1>3, <1>4, <2>1 DEF Rows, Follows
  <2>3. d.row # None /\ Grows(v, Recovered(d))
    BY <1>4, <2>1 DEF StoreInv
  <2>4. CASE c = d
    BY <2>1, <2>3, <2>4
  <2>5. CASE Moves(d, c)
    <3>1. c.row # None /\ Grows(Recovered(d), Recovered(c))
      BY <2>2, <2>3, <2>5, MovesGrow
    <3>2. /\ v \in States /\ Recovered(d) \in States /\ Recovered(c) \in States
      BY <2>2, <2>3, <3>1 DEF DataOK, Met
    <3>3. Grows(v, Recovered(c))
      BY <2>3, <3>1, <3>2, GrowsTransitive
    <3> QED  BY <2>1, <3>1, <3>3
  <2> QED  BY <2>2, <2>4, <2>5
<1> DEFINE Seen ==
  /\ view' \in [Procs -> {None} \cup Rows]
  /\ \A p \in Procs : view'[p] # None =>
       /\ data'[backend[p]].row # None
       /\ Grows(view'[p].state, Recovered(data'[backend[p]]))
<1>5. Seen
  <2>1. CASE view' = view
    BY <1>2, <1>4, <2>1
  <2>2. ASSUME NEW q \in Procs, view' = [view EXCEPT ![q] = None]
        PROVE  Seen
    BY <1>2, <1>4, <2>2
  <2>3. ASSUME NEW q \in Procs, Load(q), data' = data
        PROVE  Seen
    <3>1. PICK b, d : b = backend[q] /\ d = data[b]
      OBVIOUS
    <3>2. b \in Kinds /\ d \in Data /\ DataOK(b, d)
      BY <1>2, <3>1
    <3> DEFINE seen == [state |-> Recovered(d), sequence |-> Len(d.journal)]
    <3>3. d.row # None /\ Recovered(d) \in Met
      BY <2>3, <3>1, <3>2 DEF Load, Readable, Loadable, DataOK
    <3>4. seen \in Rows /\ seen.state = Recovered(d)
      BY <3>2, <3>3, LogFields DEF Rows
    <3>5. view' = [view EXCEPT ![q] = seen]
      BY <2>3, <3>1 DEF Load
    <3>6. Grows(Recovered(d), Recovered(d))
      <4>1. Recovered(d).used \in Nat /\ Recovered(d).notes \in Int
        BY <3>3, RunStateAssumption DEF Met, States
      <4> QED  BY <4>1 DEF Grows
    <3> HIDE DEF seen
    <3>7. view' \in [Procs -> {None} \cup Rows]
      BY <1>2, <3>4, <3>5
    <3>8. ASSUME NEW p \in Procs, view'[p] # None
          PROVE  /\ data'[backend[p]].row # None
                 /\ Grows(view'[p].state, Recovered(data'[backend[p]]))
      <4>1. CASE p = q
        BY <1>2, <2>3, <3>1, <3>3, <3>4, <3>5, <3>6, <4>1
      <4>2. CASE p # q
        BY <1>2, <1>4, <3>5, <3>8, <4>2
      <4> QED  BY <4>1, <4>2
    <3> QED  BY <3>7, <3>8
  <2> HIDE DEF Seen
  <2> QED  BY <2>1, <2>2, <2>3, StepKeeps
<1> QED  BY <1>1, <1>2, <1>3, <1>5 DEF StoreInv
--------------------------------------------------------------------------------
(* The theorems                                                             *)

LEMMA StoreInvariant == Spec => []StoreInv
<1>1. StoreInv /\ [Next]_vars => StoreInv'
  BY StoreInvStep
<1> QED  BY StoreInvInit, <1>1, PTL DEF Spec

(* No order of opens, writes, failed or torn writes and deaths leaves a run *)
(* that _load refuses.                                                      *)
THEOREM RunsStayReadable == Spec => []StaysReadable
<1>1. StoreInv => StaysReadable
  BY DEF StoreInv, DataOK, StaysReadable
<1> QED  BY <1>1, StoreInvariant, PTL

(* The journal reserves an action at most once, whoever wrote it.           *)
THEOREM ActionsDispatchOnce == Spec => []DispatchedOnce
<1>1. StoreInv => DispatchedOnce
  <2> SUFFICES ASSUME StoreInv, NEW b \in Kinds, NEW a \in Actions
               PROVE  Cardinality({i \in DOMAIN data[b].journal :
                        data[b].journal[i].event = [kind |-> "reservation", action |-> a]}) <= 1
    BY DEF DispatchedOnce
  <2> DEFINE T == {i \in DOMAIN data[b].journal :
                     data[b].journal[i].event = [kind |-> "reservation", action |-> a]}
  <2>1. DOMAIN data[b].journal = 1..Len(data[b].journal)
    BY DataFields DEF StoreInv
  <2>2. \A i, j \in T : i = j
    BY <2>1 DEF StoreInv, DataOK, Reserving
  <2> HIDE DEF T
  <2>3. ASSUME T = {} PROVE Cardinality(T) <= 1
    BY <2>3, FS_EmptySet
  <2>4. ASSUME T # {} PROVE Cardinality(T) <= 1
    <3>1. PICK i \in T : T = {i}
      BY <2>2, <2>4
    <3>2. Cardinality(T) = 1
      BY <3>1, FS_Singleton
    <3> QED  BY <3>2
  <2> QED  BY <2>3, <2>4 DEF T
<1> QED  BY <1>1, StoreInvariant, PTL

(* The operators of the two instances of the journal are this module's own. *)
LEMMA JsonOperators ==
  /\ JsonJournal!FreshStates = FreshStates /\ JsonJournal!Events = Events
  /\ \A s : JsonJournal!Revisions(s) = Revisions(s) /\ (JsonJournal!Valid(s) <=> Valid(s))
  /\ \A s, t : JsonJournal!Forward(s, t) <=> Forward(s, t)
  /\ \A s, e : (JsonJournal!Applies(s, e) <=> Applies(s, e)) /\ JsonJournal!Apply(s, e) = Apply(s, e)
BY DEF JsonJournal!FreshStates, FreshStates, JsonJournal!Events, Events,
       JsonJournal!Revisions, Revisions, JsonJournal!Revision, Revision,
       JsonJournal!NextPhases, NextPhases, JsonJournal!Unreserved, Unreserved,
       JsonJournal!Valid, Valid, JsonJournal!Forward, Forward,
       JsonJournal!Applies, Applies, JsonJournal!Apply, Apply,
       JsonJournal!ValidTransition, ValidTransition, JsonJournal!Transitions, Transitions,
       JsonJournal!Terminals, Terminals, JsonJournal!CanReserveCall, CanReserveCall,
       JsonJournal!ReservedActions, ReservedActions,
       JsonJournal!ReservationApplied, ReservationApplied, JsonJournal!ResultApplied, ResultApplied

LEMMA SqliteOperators ==
  /\ SqliteJournal!FreshStates = FreshStates /\ SqliteJournal!Events = Events
  /\ \A s : SqliteJournal!Revisions(s) = Revisions(s) /\ (SqliteJournal!Valid(s) <=> Valid(s))
  /\ \A s, t : SqliteJournal!Forward(s, t) <=> Forward(s, t)
  /\ \A s, e : (SqliteJournal!Applies(s, e) <=> Applies(s, e)) /\ SqliteJournal!Apply(s, e) = Apply(s, e)
BY DEF SqliteJournal!FreshStates, FreshStates, SqliteJournal!Events, Events,
       SqliteJournal!Revisions, Revisions, SqliteJournal!Revision, Revision,
       SqliteJournal!NextPhases, NextPhases, SqliteJournal!Unreserved, Unreserved,
       SqliteJournal!Valid, Valid, SqliteJournal!Forward, Forward,
       SqliteJournal!Applies, Applies, SqliteJournal!Apply, Apply,
       SqliteJournal!ValidTransition, ValidTransition, SqliteJournal!Transitions, Transitions,
       SqliteJournal!Terminals, Terminals, SqliteJournal!CanReserveCall, CanReserveCall,
       SqliteJournal!ReservedActions, ReservedActions,
       SqliteJournal!ReservationApplied, ReservationApplied, SqliteJournal!ResultApplied, ResultApplied

(* What a log and a state are in the next state of the root.                *)
LEMMA NextData ==
  ASSUME NEW b \in Kinds
  PROVE  /\ (LogOf(data[b]))' = LogOf(data'[b])
         /\ (StateOf(data[b]))' = StateOf(data'[b])
OBVIOUS

LEMMA JsonStep ==
  ASSUME StoreInv, [Next]_vars
  PROVE  [JsonJournal!Next]_(JsonJournal!journal)
<1>1. "json" \in Kinds
  BY DEF Kinds
<1>2. Follows("json", data["json"], data'["json"])
  BY <1>1, StepKeeps DEF Keeps
<1>3. PICK l, s, m, t : /\ l = LogOf(data["json"]) /\ m = (LogOf(data["json"]))'
                        /\ s = StateOf(data["json"]) /\ t = (StateOf(data["json"]))'
  OBVIOUS
<1>4. \/ m = l /\ t = s
      \/ s = None /\ t \in FreshStates /\ m = l
      \/ s # None /\ t \in Revisions(s) /\ Valid(t) /\ Forward(s, t) /\ m = l
      \/ s # None /\ \E e \in Events : Applies(s, e) /\ m = Append(l, e) /\ t = Apply(s, e)
  BY <1>1, <1>2, <1>3, NextData DEF Follows, Moves
<1>5. CASE m = l /\ t = s
  BY <1>3, <1>5 DEF JsonJournal!journal
<1>6. CASE s = None /\ t \in FreshStates /\ m = l
  BY <1>3, <1>6, JsonOperators DEF JsonJournal!Next, JsonJournal!Start
<1>7. CASE s # None /\ t \in Revisions(s) /\ Valid(t) /\ Forward(s, t) /\ m = l
  BY <1>3, <1>7, JsonOperators DEF JsonJournal!Next, JsonJournal!Revise
<1>8. CASE s # None /\ \E e \in Events : Applies(s, e) /\ m = Append(l, e) /\ t = Apply(s, e)
  BY <1>3, <1>8, JsonOperators DEF JsonJournal!Next, JsonJournal!Accept
<1> QED  BY <1>4, <1>5, <1>6, <1>7, <1>8

LEMMA SqliteStep ==
  ASSUME StoreInv, [Next]_vars
  PROVE  [SqliteJournal!Next]_(SqliteJournal!journal)
<1>1. "sqlite" \in Kinds
  BY DEF Kinds
<1>2. Follows("sqlite", data["sqlite"], data'["sqlite"])
  BY <1>1, StepKeeps DEF Keeps
<1>3. PICK l, s, m, t : /\ l = LogOf(data["sqlite"]) /\ m = (LogOf(data["sqlite"]))'
                        /\ s = StateOf(data["sqlite"]) /\ t = (StateOf(data["sqlite"]))'
  OBVIOUS
<1>4. \/ m = l /\ t = s
      \/ s = None /\ t \in FreshStates /\ m = l
      \/ s # None /\ t \in Revisions(s) /\ Valid(t) /\ Forward(s, t) /\ m = l
      \/ s # None /\ \E e \in Events : Applies(s, e) /\ m = Append(l, e) /\ t = Apply(s, e)
  BY <1>1, <1>2, <1>3, NextData DEF Follows, Moves
<1>5. CASE m = l /\ t = s
  BY <1>3, <1>5 DEF SqliteJournal!journal
<1>6. CASE s = None /\ t \in FreshStates /\ m = l
  BY <1>3, <1>6, SqliteOperators DEF SqliteJournal!Next, SqliteJournal!Start
<1>7. CASE s # None /\ t \in Revisions(s) /\ Valid(t) /\ Forward(s, t) /\ m = l
  BY <1>3, <1>7, SqliteOperators DEF SqliteJournal!Next, SqliteJournal!Revise
<1>8. CASE s # None /\ \E e \in Events : Applies(s, e) /\ m = Append(l, e) /\ t = Apply(s, e)
  BY <1>3, <1>8, SqliteOperators DEF SqliteJournal!Next, SqliteJournal!Accept
<1> QED  BY <1>4, <1>5, <1>6, <1>7, <1>8

(* Both stores implement the abstract journal: a log that only grows, and   *)
(* one state, which an accepted event changes together with the log and a   *)
(* checkpoint only moves forward.                                           *)
THEOREM StoresImplementJournal == Spec => ImplementsJournal
<1>1. Init => JsonJournal!Init /\ SqliteJournal!Init
  <2> SUFFICES ASSUME Init PROVE JsonJournal!Init /\ SqliteJournal!Init
    OBVIOUS
  <2>1. \A b \in Kinds : data[b].row = None /\ data[b].journal = <<>>
    BY DEF Init, NoData
  <2>2. \A b \in Kinds : LogOf(data[b]) = <<>> /\ StateOf(data[b]) = None
    BY <2>1 DEF LogOf, StateOf
  <2> QED  BY <2>2 DEF Kinds, JsonJournal!Init, SqliteJournal!Init
<1>2. StoreInv /\ [Next]_vars => [JsonJournal!Next]_(JsonJournal!journal)
  BY JsonStep
<1>3. StoreInv /\ [Next]_vars => [SqliteJournal!Next]_(SqliteJournal!journal)
  BY SqliteStep
<1> QED  BY <1>1, <1>2, <1>3, StoreInvariant, PTL
         DEF Spec, ImplementsJournal, JsonJournal!Spec, SqliteJournal!Spec
================================================================================
