-------------------------- MODULE StudyStageProofs --------------------------
(***************************************************************************)
(* Proofs about the one-shot experiment gates: no request is sent twice,   *)
(* every request leaves over books that are in order, and a second phase   *)
(* stands on a first one that earned it, for every kind of experiment and  *)
(* every number of callers, control roots, cells and decisions.            *)
(*                                                                         *)
(* The code has no lock and no recovery: what keeps two processes apart is *)
(* that each file of a claim is created exclusively.  Held(w) are the      *)
(* files a call has created so far; they are on disk and no two calls hold *)
(* the same one (Owned).  Every other fact is about what the holder of a   *)
(* file may find: the holder of the token of a phase that nothing ahead of *)
(* it was sent (SentInv), the holder of its ledger that the books are in   *)
(* order (Books) and that an early stop left a trace (Traces), and nobody  *)
(* else's step can touch any of it.  A second phase then stands on records *)
(* whose holder has gone on or ended (SecondInv), and on the provenance    *)
(* that was written with the claim (OriginInv).                            *)
(*                                                                         *)
(* Actions are first brought to one form: a step of process c takes its    *)
(* record from w to v (Turn), and Acts says what each kind of step does to *)
(* the disk.  The preservation lemmas only speak of Acts.                  *)
(***************************************************************************)
EXTENDS StudyStage, SumFacts, SequenceTheorems

-----------------------------------------------------------------------------
(* The lists of steps before the first key: what they create.               *)

FileNames ==
  (Roots \cup {"source"}) \X (0..2) \X {"claim", "retention", "ledger", "cells"}
Steps == {<<"load">>} \cup ({"make", "keep"} \X FileNames)

\* The files a list of steps creates.
Makes(todo) == {f \in FileNames : \E i \in DOMAIN todo : todo[i] = <<"make", f>>}

LEMMA StudyConstants ==
  /\ Cells \in Nat /\ Decisions \in Nat /\ Opening \in Nat /\ MaxUsd \in Nat /\ Reservation \in Nat
  /\ Cells >= 1 /\ Decisions >= 1
BY StudyAssumption

LEMMA Home ==
  /\ Idle.root \in Roots /\ Idle.root \in Controls /\ Controls \subseteq Roots
BY StudyAssumption DEF Idle, Controls

LEMMA NoSteps ==
  /\ <<>> \in Seq(Steps)
  /\ Makes(<<>>) = {}
BY DEF Makes

\* Taking the first step off a list takes at most what it creates.
LEMMA MakesTail ==
  ASSUME NEW todo \in Seq(Steps), todo # <<>>
  PROVE  /\ Head(todo) \in Steps /\ Tail(todo) \in Seq(Steps)
         /\ Makes(Tail(todo)) \subseteq Makes(todo)
         /\ \A f \in Makes(todo) : Head(todo) # <<"make", f>> => f \in Makes(Tail(todo))
<1>1. /\ Len(todo) \in Nat /\ Len(todo) > 0 /\ Head(todo) = todo[1] /\ todo[1] \in Steps
      /\ Tail(todo) \in Seq(Steps) /\ Len(Tail(todo)) = Len(todo) - 1
      /\ DOMAIN todo = 1..Len(todo) /\ DOMAIN Tail(todo) = 1..Len(Tail(todo))
      /\ \A i \in 1..Len(Tail(todo)) : Tail(todo)[i] = todo[i + 1]
  OBVIOUS
<1>2. ASSUME NEW f \in Makes(Tail(todo))
      PROVE  f \in Makes(todo)
  <2>1. PICK i \in 1..Len(Tail(todo)) : Tail(todo)[i] = <<"make", f>>
    BY <1>1, <1>2 DEF Makes
  <2>2. i + 1 \in 1..Len(todo) /\ todo[i + 1] = <<"make", f>>
    BY <1>1, <2>1
  <2> QED  BY <1>1, <1>2, <2>2 DEF Makes
<1>3. ASSUME NEW f \in Makes(todo), Head(todo) # <<"make", f>>
      PROVE  f \in Makes(Tail(todo))
  <2>1. PICK i \in 1..Len(todo) : todo[i] = <<"make", f>>
    BY <1>3 DEF Makes
  <2>2. i # 1
    BY <1>1, <1>3, <2>1
  <2>3. i - 1 \in 1..Len(Tail(todo)) /\ Tail(todo)[i - 1] = todo[i]
    BY <1>1, <2>1, <2>2
  <2>4. i - 1 \in DOMAIN Tail(todo)
    BY <1>1, <2>3
  <2> QED  BY <1>3, <2>1, <2>3, <2>4 DEF Makes
<1>4. Head(todo) \in Steps /\ Tail(todo) \in Seq(Steps)
  BY <1>1
<1>5. \A f \in Makes(todo) : Head(todo) # <<"make", f>> => f \in Makes(Tail(todo))
  BY <1>3
<1> QED  BY <1>2, <1>4, <1>5

LEMMA MakesJoin ==
  ASSUME NEW a \in Seq(Steps), NEW b \in Seq(Steps)
  PROVE  a \o b \in Seq(Steps) /\ Makes(a \o b) = Makes(a) \cup Makes(b)
<1>1. /\ a \o b \in Seq(Steps) /\ Len(a \o b) = Len(a) + Len(b) /\ Len(a) \in Nat /\ Len(b) \in Nat
      /\ \A i \in 1..Len(a) : (a \o b)[i] = a[i]
      /\ \A i \in (Len(a) + 1)..(Len(a) + Len(b)) : (a \o b)[i] = b[i - Len(a)]
      /\ DOMAIN (a \o b) = 1..(Len(a) + Len(b)) /\ DOMAIN a = 1..Len(a) /\ DOMAIN b = 1..Len(b)
  OBVIOUS
<1>2. ASSUME NEW f \in Makes(a \o b)
      PROVE  f \in Makes(a) \cup Makes(b)
  <2>1. PICK i \in 1..(Len(a) + Len(b)) : (a \o b)[i] = <<"make", f>>
    BY <1>1, <1>2 DEF Makes
  <2>2. CASE i <= Len(a)
    <3>1. i \in 1..Len(a)
      BY <1>1, <2>2
    <3>2. a[i] = <<"make", f>>
      BY <1>1, <2>1, <3>1
    <3> QED  BY <1>1, <1>2, <3>1, <3>2 DEF Makes
  <2>3. CASE i > Len(a)
    <3>1. i - Len(a) \in 1..Len(b) /\ i \in (Len(a) + 1)..(Len(a) + Len(b))
      BY <1>1, <2>3
    <3>2. b[i - Len(a)] = <<"make", f>>
      BY <1>1, <2>1, <3>1
    <3> QED  BY <1>1, <1>2, <3>1, <3>2 DEF Makes
  <2> QED  BY <1>1, <2>2, <2>3
<1>3. ASSUME NEW f \in Makes(a)
      PROVE  f \in Makes(a \o b)
  <2>1. PICK i \in 1..Len(a) : a[i] = <<"make", f>>
    BY <1>1, <1>3 DEF Makes
  <2>2. i \in 1..(Len(a) + Len(b)) /\ (a \o b)[i] = <<"make", f>>
    BY <1>1, <2>1
  <2> QED  BY <1>1, <1>3, <2>2 DEF Makes
<1>4. ASSUME NEW f \in Makes(b)
      PROVE  f \in Makes(a \o b)
  <2>1. PICK i \in 1..Len(b) : b[i] = <<"make", f>>
    BY <1>1, <1>4 DEF Makes
  <2>2. i + Len(a) \in (Len(a) + 1)..(Len(a) + Len(b)) /\ (i + Len(a)) - Len(a) = i
    BY <1>1
  <2>3. (a \o b)[i + Len(a)] = <<"make", f>>
    BY <1>1, <2>1, <2>2
  <2>4. i + Len(a) \in DOMAIN (a \o b)
    BY <1>1, <2>2
  <2> QED  BY <1>4, <2>3, <2>4 DEF Makes
<1> QED  BY <1>1, <1>2, <1>3, <1>4

\* A list of one step.
LEMMA MakesOne ==
  ASSUME NEW r \in Roots \cup {"source"}, NEW p \in 0..2,
         NEW x \in {"claim", "retention", "ledger", "cells"}
  PROVE  /\ Make(r, p, x) \in Seq(Steps) /\ Makes(Make(r, p, x)) = {<<r, p, x>>}
         /\ Keep(r, p, x) \in Seq(Steps) /\ Makes(Keep(r, p, x)) = {}
<1>1. PICK f \in FileNames : f = <<r, p, x>>
  BY DEF FileNames
<1>2. /\ <<<<"make", f>>>> \in Seq(Steps) /\ Makes(<<<<"make", f>>>>) = {f}
      /\ <<<<"keep", f>>>> \in Seq(Steps) /\ Makes(<<<<"keep", f>>>>) = {}
  BY DEF Makes, Steps
<1> QED  BY <1>1, <1>2 DEF Make, Keep

LEMMA MakesReload == Reload \in Seq(Steps) /\ Makes(Reload) = {}
BY DEF Makes, Steps, Reload

\* What the lists of each experiment create.
Listed(todo, made) == todo \in Seq(Steps) /\ Makes(todo) = made

LEMMA JoinListed ==
  ASSUME NEW a, NEW b, NEW m, NEW n, Listed(a, m), Listed(b, n)
  PROVE  Listed(a \o b, m \cup n)
BY MakesJoin DEF Listed

LEMMA OneListed ==
  ASSUME NEW r \in Roots \cup {"source"}, NEW p \in 0..2,
         NEW x \in {"claim", "retention", "ledger", "cells"}
  PROVE  /\ Listed(Make(r, p, x), {<<r, p, x>>})
         /\ Listed(Keep(r, p, x), {})
         /\ Listed(Reload, {})
BY MakesOne, MakesReload DEF Listed

LEMMA Numbered == 0 \in 0..2 /\ 1 \in 0..2 /\ 2 \in 0..2
OBVIOUS

LEMMA ClaimsMake ==
  ASSUME NEW r \in Roots, NEW p \in 0..2
  PROVE  Listed(Claims(r, p), {<<r, p, "claim">>, <<r, p, "ledger">>})
<1>1. /\ Listed(Reload, {}) /\ Listed(Make(r, p, "claim"), {<<r, p, "claim">>})
      /\ Listed(Make(r, p, "ledger"), {<<r, p, "ledger">>})
  BY OneListed
<1>2. Listed(Reload \o Make(r, p, "claim"), {} \cup {<<r, p, "claim">>})
  BY <1>1, JoinListed
<1>3. Listed(Claims(r, p), ({} \cup {<<r, p, "claim">>}) \cup {<<r, p, "ledger">>})
  BY <1>1, <1>2, JoinListed DEF Claims
<1> QED  BY <1>3

LEMMA ProbeMakes ==
  ASSUME NEW r \in Roots, NEW p \in 0..2
  PROVE  Listed(ProbeFiles(r, p), {<<r, p, "claim">>, <<r, p, "retention">>, <<r, p, "ledger">>})
<1>1. /\ Listed(Make(r, p, "claim"), {<<r, p, "claim">>})
      /\ Listed(Make(r, p, "retention"), {<<r, p, "retention">>})
      /\ Listed(Make(r, p, "ledger"), {<<r, p, "ledger">>})
  BY OneListed
<1>2. Listed(Make(r, p, "claim") \o Make(r, p, "retention"),
             {<<r, p, "claim">>} \cup {<<r, p, "retention">>})
  BY <1>1, JoinListed
<1>3. Listed(ProbeFiles(r, p),
             ({<<r, p, "claim">>} \cup {<<r, p, "retention">>}) \cup {<<r, p, "ledger">>})
  BY <1>1, <1>2, JoinListed DEF ProbeFiles
<1> QED  BY <1>3

LEMMA StudyMakes ==
  ASSUME NEW r \in Roots, NEW p \in 0..2
  PROVE  Listed(StudyFiles(r, p), {<<r, p, "claim">>, <<r, p, "ledger">>})
<1>1. Listed(Keep(r, p, "retention"), {}) /\ Listed(Claims(r, p), {<<r, p, "claim">>, <<r, p, "ledger">>})
  BY OneListed, ClaimsMake
<1>2. Listed(StudyFiles(r, p), {} \cup {<<r, p, "claim">>, <<r, p, "ledger">>})
  BY <1>1, JoinListed DEF StudyFiles
<1> QED  BY <1>2

LEMMA ContinuationMakes ==
  ASSUME NEW r \in Roots, NEW p \in 0..2
  PROVE  Listed(ContinuationFiles(r, p),
                {<<"source", 1, "claim">>, <<r, p, "claim">>, <<r, p, "ledger">>})
<1>a. Listed(Keep(r, p, "retention"), {}) /\ Listed(Reload, {})
  BY Numbered, OneListed
<1>b. Listed(Make("source", 1, "claim"), {<<"source", 1, "claim">>})
  BY Numbered, OneListed
<1>1. Listed(Claims(r, p), {<<r, p, "claim">>, <<r, p, "ledger">>})
  BY Numbered, ClaimsMake
<1>2. Listed(Keep(r, p, "retention") \o Make("source", 1, "claim"), {} \cup {<<"source", 1, "claim">>})
  BY <1>a, <1>b, <1>1, JoinListed
<1>3. Listed(Keep(r, p, "retention") \o Make("source", 1, "claim") \o Claims(r, p),
             ({} \cup {<<"source", 1, "claim">>}) \cup {<<r, p, "claim">>, <<r, p, "ledger">>})
  BY <1>a, <1>b, <1>1, <1>2, JoinListed
<1>4. Listed(ContinuationFiles(r, p),
             (({} \cup {<<"source", 1, "claim">>}) \cup {<<r, p, "claim">>, <<r, p, "ledger">>}) \cup {})
  BY <1>a, <1>b, <1>1, <1>3, JoinListed DEF ContinuationFiles
<1> QED  BY <1>4

LEMMA PilotMakes ==
  ASSUME NEW r \in Roots, NEW p \in 0..2
  PROVE  Listed(PilotFiles(r, p), {<<r, p, "claim">>, <<r, p, "retention">>, <<r, p, "ledger">>})
<1>1. /\ Listed(Reload, {})
      /\ Listed(ProbeFiles(r, p), {<<r, p, "claim">>, <<r, p, "retention">>, <<r, p, "ledger">>})
  BY OneListed, ProbeMakes
<1>2. Listed(PilotFiles(r, p), {<<r, p, "claim">>, <<r, p, "retention">>, <<r, p, "ledger">>} \cup {})
  BY <1>1, JoinListed DEF PilotFiles
<1> QED  BY <1>2

LEMMA ValueMakes ==
  ASSUME NEW r \in Roots
  PROVE  /\ Listed(ValueFiles(r, 1), {<<r, 0, "claim">>, <<r, 0, "retention">>, <<r, 1, "claim">>,
                                      <<r, 1, "retention">>, <<r, 1, "ledger">>})
         /\ Listed(ValueFiles(r, 2), {<<r, 2, "retention">>, <<r, 2, "claim">>, <<r, 2, "ledger">>})
<1>a. Listed(Reload, {}) /\ Listed(Make(r, 0, "claim"), {<<r, 0, "claim">>})
  BY Numbered, OneListed
<1>b. Listed(Make(r, 0, "retention"), {<<r, 0, "retention">>})
  BY Numbered, OneListed
<1>c. Listed(Make(r, 2, "retention"), {<<r, 2, "retention">>})
  BY Numbered, OneListed
<1>d. Listed(ProbeFiles(r, 1), {<<r, 1, "claim">>, <<r, 1, "retention">>, <<r, 1, "ledger">>})
  BY Numbered, ProbeMakes
<1>1. Listed(Claims(r, 2), {<<r, 2, "claim">>, <<r, 2, "ledger">>})
  BY Numbered, ClaimsMake
<1>2. Listed(Make(r, 0, "claim") \o Make(r, 0, "retention"),
             {<<r, 0, "claim">>} \cup {<<r, 0, "retention">>})
  BY <1>a, <1>b, <1>c, <1>d, <1>1, JoinListed
<1>3. Listed(Make(r, 0, "claim") \o Make(r, 0, "retention") \o Reload,
             ({<<r, 0, "claim">>} \cup {<<r, 0, "retention">>}) \cup {})
  BY <1>a, <1>b, <1>c, <1>d, <1>1, <1>2, JoinListed
<1>4. Listed(Make(r, 0, "claim") \o Make(r, 0, "retention") \o Reload \o ProbeFiles(r, 1),
             (({<<r, 0, "claim">>} \cup {<<r, 0, "retention">>}) \cup {})
               \cup {<<r, 1, "claim">>, <<r, 1, "retention">>, <<r, 1, "ledger">>})
  BY <1>a, <1>b, <1>c, <1>d, <1>1, <1>3, JoinListed
<1>5. Listed(Reload \o Make(r, 2, "retention"), {} \cup {<<r, 2, "retention">>})
  BY <1>a, <1>b, <1>c, <1>d, <1>1, JoinListed
<1>6. Listed(Reload \o Make(r, 2, "retention") \o Claims(r, 2),
             ({} \cup {<<r, 2, "retention">>}) \cup {<<r, 2, "claim">>, <<r, 2, "ledger">>})
  BY <1>a, <1>b, <1>c, <1>d, <1>1, <1>5, JoinListed
<1>7. ValueFiles(r, 1) = Make(r, 0, "claim") \o Make(r, 0, "retention") \o Reload \o ProbeFiles(r, 1)
      /\ ValueFiles(r, 2) = Reload \o Make(r, 2, "retention") \o Claims(r, 2)
  BY DEF ValueFiles
<1>8. Listed(ValueFiles(r, 1), {<<r, 0, "claim">>, <<r, 0, "retention">>, <<r, 1, "claim">>,
                                <<r, 1, "retention">>, <<r, 1, "ledger">>})
  BY <1>4, <1>7
<1>9. Listed(ValueFiles(r, 2), {<<r, 2, "retention">>, <<r, 2, "claim">>, <<r, 2, "ledger">>})
  BY <1>6, <1>7
<1> QED  BY <1>8, <1>9

LEMMA StageMakes ==
  ASSUME NEW r \in Roots
  PROVE  /\ Listed(StageFiles(r, 1), {<<r, 0, "claim">>, <<r, 0, "cells">>, <<r, 0, "retention">>,
                                      <<r, 1, "ledger">>})
         /\ Listed(StageFiles(r, 2), {<<r, 2, "ledger">>})
<1>a. Listed(Make(r, 0, "claim"), {<<r, 0, "claim">>})
  BY Numbered, OneListed
<1>b. Listed(Make(r, 0, "cells"), {<<r, 0, "cells">>})
  BY Numbered, OneListed
<1>c. Listed(Make(r, 0, "retention"), {<<r, 0, "retention">>})
  BY Numbered, OneListed
<1>d. Listed(Make(r, 1, "ledger"), {<<r, 1, "ledger">>})
  BY Numbered, OneListed
<1>1. Listed(Make(r, 2, "ledger"), {<<r, 2, "ledger">>})
  BY Numbered, OneListed
<1>2. Listed(Make(r, 0, "claim") \o Make(r, 0, "cells"), {<<r, 0, "claim">>} \cup {<<r, 0, "cells">>})
  BY <1>a, <1>b, <1>c, <1>d, <1>1, JoinListed
<1>3. Listed(Make(r, 0, "claim") \o Make(r, 0, "cells") \o Make(r, 0, "retention"),
             ({<<r, 0, "claim">>} \cup {<<r, 0, "cells">>}) \cup {<<r, 0, "retention">>})
  BY <1>a, <1>b, <1>c, <1>d, <1>1, <1>2, JoinListed
<1>4. Listed(Make(r, 0, "claim") \o Make(r, 0, "cells") \o Make(r, 0, "retention") \o Make(r, 1, "ledger"),
             (({<<r, 0, "claim">>} \cup {<<r, 0, "cells">>}) \cup {<<r, 0, "retention">>})
               \cup {<<r, 1, "ledger">>})
  BY <1>a, <1>b, <1>c, <1>d, <1>1, <1>3, JoinListed
<1>5. /\ StageFiles(r, 1) = Make(r, 0, "claim") \o Make(r, 0, "cells") \o Make(r, 0, "retention")
                              \o Make(r, 1, "ledger")
      /\ StageFiles(r, 2) = Make(r, 2, "ledger")
  BY DEF StageFiles
<1>6. Listed(StageFiles(r, 1), {<<r, 0, "claim">>, <<r, 0, "cells">>, <<r, 0, "retention">>,
                                <<r, 1, "ledger">>})
  BY <1>4, <1>5
<1> QED  BY <1>a, <1>b, <1>c, <1>d, <1>1, <1>5, <1>6

-----------------------------------------------------------------------------
(* Where the files of an experiment sit, and which of them a call holds.    *)

KindNames == {"study", "continuation", "probe", "value", "stage", "pilot"}
ScopePhase(p) == IF TwoPhase THEN 1 ELSE p
LedgerFile(s) == <<s[1], s[2], "ledger">>
ScopeFile(r, p) == <<r, ScopePhase(p), "ledger">>
ClaimFile(r, p) == <<r, IF TwoPhase THEN 0 ELSE p, "claim">>

\* Where the files of an experiment sit: each phase makes its ledger, the first
\* makes the claim, and the second of two phases makes nothing the first one made.
Layout(r, p) ==
  /\ FilesOf(r, p) \in Seq(Steps)
  /\ <<r, p, "ledger">> \in Makes(FilesOf(r, p))
  /\ kind = "continuation" => <<"source", 1, "claim">> \in Makes(FilesOf(r, p))
  /\ TwoPhase => Makes(FilesOf(r, 1)) \cap Makes(FilesOf(r, 2)) = {}
  /\ ClaimFile(r, p) \in Makes(FilesOf(r, ScopePhase(p)))
  /\ kind = "value" => <<r, 1, "claim">> \in Makes(FilesOf(r, 1))
  /\ kind = "stage" => <<r, 2, "claim">> \notin Makes(FilesOf(r, 2))

LEMMA FilesLaidOut ==
  ASSUME kind \in KindNames, NEW r \in Roots, NEW p \in Phases
  PROVE  Layout(r, p)
<1>1. p \in 0..2
  BY DEF Phases
<1>2. CASE kind = "study"
  <2>1. FilesOf(r, p) = StudyFiles(r, p) /\ ~TwoPhase
    BY <1>2 DEF FilesOf, TwoPhase
  <2>2. FilesOf(r, p) \in Seq(Steps) /\ Makes(FilesOf(r, p)) = {<<r, p, "claim">>, <<r, p, "ledger">>}
    BY <1>1, <2>1, StudyMakes DEF Listed
  <2> QED  BY <1>2, <2>1, <2>2 DEF Layout, ScopePhase, ClaimFile
<1>3. CASE kind = "continuation"
  <2>1. FilesOf(r, p) = ContinuationFiles(r, p) /\ ~TwoPhase
    BY <1>3 DEF FilesOf, TwoPhase
  <2>2. /\ FilesOf(r, p) \in Seq(Steps)
        /\ Makes(FilesOf(r, p)) = {<<"source", 1, "claim">>, <<r, p, "claim">>, <<r, p, "ledger">>}
    BY <1>1, <2>1, ContinuationMakes DEF Listed
  <2> QED  BY <1>3, <2>1, <2>2 DEF Layout, ScopePhase, ClaimFile
<1>4. CASE kind = "probe"
  <2>1. FilesOf(r, p) = ProbeFiles(r, p) /\ ~TwoPhase
    BY <1>4 DEF FilesOf, TwoPhase
  <2>2. /\ FilesOf(r, p) \in Seq(Steps)
        /\ Makes(FilesOf(r, p)) = {<<r, p, "claim">>, <<r, p, "retention">>, <<r, p, "ledger">>}
    BY <1>1, <2>1, ProbeMakes DEF Listed
  <2> QED  BY <1>4, <2>1, <2>2 DEF Layout, ScopePhase, ClaimFile
<1>5. CASE kind = "pilot"
  <2>1. FilesOf(r, p) = PilotFiles(r, p) /\ ~TwoPhase
    BY <1>5 DEF FilesOf, TwoPhase
  <2>2. /\ FilesOf(r, p) \in Seq(Steps)
        /\ Makes(FilesOf(r, p)) = {<<r, p, "claim">>, <<r, p, "retention">>, <<r, p, "ledger">>}
    BY <1>1, <2>1, PilotMakes DEF Listed
  <2> QED  BY <1>5, <2>1, <2>2 DEF Layout, ScopePhase, ClaimFile
<1>6. CASE kind = "value"
  <2>1. FilesOf(r, 1) = ValueFiles(r, 1) /\ FilesOf(r, 2) = ValueFiles(r, 2) /\ TwoPhase
    BY <1>6 DEF FilesOf, TwoPhase
  <2>2. /\ FilesOf(r, 1) \in Seq(Steps)
        /\ Makes(FilesOf(r, 1)) = {<<r, 0, "claim">>, <<r, 0, "retention">>, <<r, 1, "claim">>,
                                      <<r, 1, "retention">>, <<r, 1, "ledger">>}
    BY <2>1, ValueMakes DEF Listed
  <2>3. /\ FilesOf(r, 2) \in Seq(Steps)
        /\ Makes(FilesOf(r, 2)) = {<<r, 2, "retention">>, <<r, 2, "claim">>, <<r, 2, "ledger">>}
    BY <2>1, ValueMakes DEF Listed
  <2>4. Makes(FilesOf(r, 1)) \cap Makes(FilesOf(r, 2)) = {}
    BY <2>2, <2>3
  <2> QED  BY <1>6, <2>1, <2>2, <2>3, <2>4 DEF Layout, ScopePhase, ClaimFile, Phases
<1>7. CASE kind = "stage"
  <2>1. FilesOf(r, 1) = StageFiles(r, 1) /\ FilesOf(r, 2) = StageFiles(r, 2) /\ TwoPhase
    BY <1>7 DEF FilesOf, TwoPhase
  <2>2. /\ FilesOf(r, 1) \in Seq(Steps)
        /\ Makes(FilesOf(r, 1)) = {<<r, 0, "claim">>, <<r, 0, "cells">>, <<r, 0, "retention">>,
                                      <<r, 1, "ledger">>}
    BY <2>1, StageMakes DEF Listed
  <2>3. FilesOf(r, 2) \in Seq(Steps) /\ Makes(FilesOf(r, 2)) = {<<r, 2, "ledger">>}
    BY <2>1, StageMakes DEF Listed
  <2>4. Makes(FilesOf(r, 1)) \cap Makes(FilesOf(r, 2)) = {}
    BY <2>2, <2>3
  <2> QED  BY <1>7, <2>1, <2>2, <2>3, <2>4 DEF Layout, ScopePhase, ClaimFile, Phases
<1> QED  BY <1>2, <1>3, <1>4, <1>5, <1>6, <1>7 DEF KindNames

Needs(r, p) ==
  Makes(FilesOf(r, p)) \cup (IF TwoPhase /\ p = 2 THEN Makes(FilesOf(r, 1)) ELSE {})
Held(w) == IF w.pc \in Ended THEN {} ELSE Needs(w.root, w.phase) \ Makes(w.todo)

\* The experiment of a behaviour never changes, and with it the files it needs.
LEMMA KindFixed ==
  ASSUME kind' = kind
  PROVE  /\ TwoPhase' = TwoPhase /\ Limit' = Limit /\ Carried' = Carried /\ Controls' = Controls
         /\ \A w : Held(w)' = Held(w)
         /\ \A r, p : FilesOf(r, p)' = FilesOf(r, p)
<1>1. TwoPhase' = TwoPhase /\ Limit' = Limit /\ Carried' = Carried /\ Controls' = Controls
  BY DEF TwoPhase, Limit, Carried, Controls
<1>2. ASSUME NEW r, NEW p
      PROVE  FilesOf(r, p)' = FilesOf(r, p)
  BY DEF FilesOf
<1>3. ASSUME NEW r, NEW p
      PROVE  Needs(r, p)' = Needs(r, p)
  <2>1. FilesOf(r, p)' = FilesOf(r, p) /\ FilesOf(r, 1)' = FilesOf(r, 1)
    BY <1>2
  <2> QED  BY <2>1, <1>1 DEF Needs, Makes
<1>4. ASSUME NEW w
      PROVE  Held(w)' = Held(w)
  BY <1>3 DEF Held
<1> QED  BY <1>1, <1>2, <1>4

-----------------------------------------------------------------------------
(* Types, and where a call can stand.                                       *)

Statuses == {"none", "valid", "short", "contract", "failed"}
LedgerRows ==
  [cell: Nat, decision: Nat, state: {"reserved", "settled", "unknown"}, held: Nat,
   print: Prints \cup {NoPrint}]
CallerStates ==
  [pc: Pcs, root: Roots, phase: Phases, todo: Seq(Steps), live: BOOLEAN, key: BOOLEAN,
   cell: Nat, decision: Nat, status: Statuses, pending: BOOLEAN, halted: BOOLEAN,
   stop: BOOLEAN, print: Prints \cup {NoPrint}, failures: Nat]

DiskTyped ==
  /\ files \subseteq FileNames
  /\ ledger \in [Slots -> Seq(LedgerRows)]
  /\ results \in [Slots -> [Cell -> Statuses]]
  /\ summary \in [Slots -> {"none", "open", "halted"}]
  /\ origin \in [Slots -> {"none", "live", "fake"}]
  /\ sent \in [Phases \X Cell \X (1..Decisions) -> Nat]
PlanTyped == plan \in [Slots -> {"none", "partial", "ready", "sealed"}] /\ drifted \in BOOLEAN
StageTyped ==
  kind \in KindNames /\ PlanTyped /\ DiskTyped /\ caller \in [Callers -> CallerStates]

\* A call passes through its claims to its cells; in between it knows where it is.
InCell == {"key", "begin", "admit", "wire", "answer", "result"}
Working == InCell \cup {"cell", "judge", "summary"}
Placed(w) ==
  /\ w.root \in Controls
  /\ w.cell >= 1 /\ w.decision \in 1..Decisions
  /\ w.pc \in Ended => w.todo = <<>> /\ ~w.key
  /\ w.pc = "idle" => w.cell = 1 /\ w.decision = 1 /\ ~w.stop
  /\ w.pc = "open" => /\ w.cell = 1 /\ ~w.stop
                      /\ Makes(w.todo) \subseteq Makes(FilesOf(w.root, w.phase))
  /\ w.pc \in Working => w.todo = <<>>
  /\ w.pc \in {"open", "cell", "judge", "summary"} => w.decision = 1
  /\ w.pc \in InCell => w.cell \in Cell
  /\ w.pc = "judge" => TwoPhase /\ w.phase = 1
  /\ w.pc \notin Ended /\ w.phase = 2 => TwoPhase \/ kind = "pilot"

\* A file one call had to create is held by that call alone.
Owned ==
  /\ \A c \in Callers : Held(caller[c]) \subseteq files
  /\ \A c, d \in Callers : c # d => Held(caller[c]) \cap Held(caller[d]) = {}

PlacedAll == \A c \in Callers : Placed(caller[c])
BaseInv == StageTyped /\ PlacedAll /\ Owned

\* Steps, by what they do to the process that takes them: w before, v after.
Step(c, w, v) ==
  /\ w = caller[c] /\ v = caller'[c]
  /\ caller' = [caller EXCEPT ![c] = v]
Place(w) == <<w.root, w.phase>>
Stays(w, v) == v.root = w.root /\ v.phase = w.phase /\ v.live = w.live /\ v.print = w.print
Kept(w, v) ==
  Stays(w, v) /\ v.todo = w.todo /\ v.cell = w.cell /\ v.decision = w.decision /\ v.stop = w.stop
Went(w, v, pc) == v.pc = pc /\ Kept(w, v) /\ v.key = w.key /\ v.status = w.status
Failed(w, v) == v.pc = "result" /\ v.status = "failed" /\ Kept(w, v) /\ v.key = w.key
Left(v) ==
  /\ v.pc \in {"done", "failed", "dead"} /\ v.todo = <<>> /\ ~v.key
  /\ v.root = Idle.root /\ v.phase = 1 /\ v.cell = 1 /\ v.decision = 1

LEMMA IdleTyped == Idle \in CallerStates /\ Idle.pc = "idle" /\ Idle.todo = <<>> /\ ~Idle.key
  /\ Idle.phase = 1 /\ Idle.cell = 1 /\ Idle.decision = 1 /\ ~Idle.stop
<1>1. Idle.root \in Roots /\ <<>> \in Seq(Steps)
  BY Home
<1>2. [pc |-> "idle", root |-> Idle.root, phase |-> 1, todo |-> <<>>,
         live |-> FALSE, key |-> FALSE, cell |-> 1, decision |-> 1, status |-> "none",
         pending |-> FALSE, halted |-> FALSE, stop |-> FALSE, print |-> NoPrint, failures |-> 0]
       \in CallerStates
  BY <1>1 DEF CallerStates, Pcs, Ended, Phases, Statuses
<1>3. Idle.root = CHOOSE r \in Roots : TRUE
  BY DEF Idle
<1> QED  BY <1>2, <1>3 DEF Idle

LEMMA Goes ==
  ASSUME caller \in [Callers -> CallerStates], NEW c \in Callers, NEW pc \in Pcs, Goto(c, pc)
  PROVE  \E w, v \in CallerStates : Step(c, w, v) /\ Went(w, v, pc)
<1>1. PICK w \in CallerStates : w = caller[c]
  OBVIOUS
<1>2. PICK v : v = caller'[c]
  OBVIOUS
<1>3. v = [w EXCEPT !.pc = pc] /\ caller' = [caller EXCEPT ![c] = v]
  BY <1>1, <1>2 DEF Goto
<1>4. v \in CallerStates /\ Went(w, v, pc)
  BY <1>3 DEF CallerStates, Went, Kept, Stays
<1> QED  BY <1>1, <1>2, <1>3, <1>4 DEF Step

LEMMA Fails ==
  ASSUME caller \in [Callers -> CallerStates], NEW c \in Callers, EndCell(c, "failed")
  PROVE  \E w, v \in CallerStates : Step(c, w, v) /\ Failed(w, v)
<1>1. PICK w \in CallerStates : w = caller[c]
  OBVIOUS
<1>2. PICK v : v = caller'[c]
  OBVIOUS
<1>3. v = [w EXCEPT !.pc = "result", !.status = "failed"] /\ caller' = [caller EXCEPT ![c] = v]
  BY <1>1, <1>2 DEF EndCell, CallerStates
<1>4. v \in CallerStates /\ Failed(w, v)
  BY <1>3 DEF CallerStates, Failed, Kept, Stays, Statuses, Pcs
<1> QED  BY <1>1, <1>2, <1>3, <1>4 DEF Step

LEMMA Leaves ==
  ASSUME caller \in [Callers -> CallerStates], NEW c \in Callers,
         NEW how \in {"done", "failed", "dead"}, Leave(c, how)
  PROVE  \E w, v \in CallerStates : Step(c, w, v) /\ Left(v)
<1>1. PICK w \in CallerStates : w = caller[c]
  OBVIOUS
<1>2. PICK v : v = caller'[c]
  OBVIOUS
<1>3. v = [Idle EXCEPT !.pc = how] /\ caller' = [caller EXCEPT ![c] = v]
  BY <1>1, <1>2 DEF Leave
<1>4. v \in CallerStates /\ Left(v)
  BY <1>3, IdleTyped DEF CallerStates, Left, Pcs, Ended
<1> QED  BY <1>1, <1>2, <1>3, <1>4 DEF Step

-----------------------------------------------------------------------------
(* The actions by what they do: every step of StageNext is one of Acts.     *)

DiskSame == UNCHANGED <<kind, files, ledger, results, summary, origin, sent>>

\* A batch that may still go on is one whose last request was settled in order.
Clear(w) ==
  \/ w.pc \in {"open", "key", "begin", "admit"}
  \/ w.pc \in {"cell", "judge", "summary"} /\ ~w.stop
  \/ w.pc = "result" /\ w.status # "failed"
Unposted == {"open", "cell", "key", "begin", "admit", "wire"}

\* A step inside a call that neither sends nor writes.
CalmStep(w, v) ==
  /\ DiskSame /\ Kept(w, v)
  /\ w.pc \in Working \cup {"open"} /\ v.pc \in Working \ {"wire", "answer", "cell"}
  /\ w.todo = <<>>
  /\ Clear(v) => Clear(w)
  /\ v.pc \in Unposted => w.pc \in Unposted
  /\ v.pc \in InCell => w.cell \in Cell /\ w.pc \in InCell \cup {"cell", "open"}
  /\ v.pc \in {"judge", "summary"} => w.decision = 1
  /\ v.pc = "judge" => kind = "stage" /\ w.phase = 1
  /\ v.key => w.key \/ w.pc = "key"
QuitStep(w, v) == DiskSame /\ w.pc \notin Ended /\ Left(v)

BeginStep(w, v) ==
  /\ DiskSame /\ w.pc = "idle" /\ v.pc = "open"
  /\ v.root \in Controls /\ v.todo = FilesOf(v.root, v.phase)
  /\ v.cell = 1 /\ v.decision = 1 /\ ~v.stop /\ ~v.key
  /\ v.phase = 2 => /\ kind = "pilot" /\ RegressionReceipt(v.root)
                    /\ v.live => origin[<<v.root, 1>>] = "live"

\* Taking the next step of the claims: loading again, keeping a file, making one.
Took(w, v) ==
  /\ w.pc = "open" /\ v.pc = "open" /\ w.todo # <<>> /\ v.todo = Tail(w.todo)
  /\ Stays(w, v) /\ v.cell = w.cell /\ v.decision = w.decision /\ v.stop = w.stop /\ v.key = w.key
  /\ UNCHANGED <<kind, ledger, results, summary, sent>>
KeepStep(w, v) ==
  /\ Took(w, v) /\ \A f : Head(w.todo) # <<"make", f>>
  /\ files \subseteq files' /\ files' \subseteq FileNames /\ origin' = origin
MakeStep(w, v, f) ==
  /\ Took(w, v) /\ Head(w.todo) = <<"make", f>> /\ f \in FileNames /\ f \notin files
  /\ files' = files \cup {f}
  /\ origin' = IF f = <<w.root, w.phase, "claim">>
               THEN [origin EXCEPT ![Place(w)] = IF w.live THEN "live" ELSE "fake"]
               ELSE origin

AdmitStep(w, v) ==
  /\ UNCHANGED <<kind, files, results, summary, origin, sent>>
  /\ w.pc = "admit" /\ v.pc = "wire" /\ Kept(w, v) /\ v.key = w.key /\ v.status = w.status
  /\ Afford(Place(w))
  /\ \E row \in LedgerRows : /\ row.state = "reserved" /\ row.held = Reservation
                             /\ ledger' = [ledger EXCEPT ![Place(w)] = Append(@, row)]
PostStep(w, v) ==
  /\ UNCHANGED <<kind, files, ledger, results, summary, origin>>
  /\ w.pc = "wire" /\ v.pc = "answer" /\ Kept(w, v) /\ v.key = w.key /\ v.status = w.status
  /\ sent' = [sent EXCEPT ![<<w.phase, w.cell, w.decision>>] = @ + 1]
Answered(w, v, row) ==
  /\ row.state = "settled" /\ row.print = v.print /\ v.print # NoPrint
  /\ w.print \in {NoPrint, v.print}
SettleStep(w, v) ==
  /\ UNCHANGED <<kind, files, results, summary, origin, sent>>
  /\ w.pc = "answer" /\ v.root = w.root /\ v.phase = w.phase /\ v.live = w.live /\ v.todo = w.todo
  /\ v.cell = w.cell /\ v.stop = w.stop /\ v.key = w.key
  /\ v.pc \in {"admit", "result"} /\ v.decision \in 1..Decisions
  /\ v.decision = w.decision + (IF v.pc = "admit" THEN 1 ELSE 0)
  /\ \E row \in LedgerRows :
       /\ IF ledger[Place(w)] = <<>> THEN ledger' = ledger
          ELSE ledger' = [ledger EXCEPT ![Place(w)][Len(ledger[Place(w)])] = row]
       /\ Clear(v) => Answered(w, v, row)
AccountStep(w, v) ==
  /\ UNCHANGED <<kind, files, ledger, summary, origin, sent>>
  /\ w.pc = "result" /\ v.pc = "cell" /\ Stays(w, v) /\ v.todo = w.todo /\ v.key = w.key
  /\ v.cell = w.cell + 1 /\ v.decision = 1
  /\ ~v.stop => w.status # "failed"
  /\ \/ results' = [results EXCEPT ![Place(w)][w.cell] = w.status]
     \/ results' = results
  /\ kind = "stage" /\ v.stop => results' = results \/ w.status \notin Valid
SummaryStep(w, v) ==
  /\ UNCHANGED <<kind, files, ledger, results, origin, sent>>
  /\ w.pc = "summary"
  /\ \E s \in {"open", "halted"} : /\ summary' = [summary EXCEPT ![Place(w)] = s]
                                   /\ s = "open" => ~w.stop
  /\ IF kind = "value" /\ w.phase = 1 THEN Went(w, v, "judge") ELSE Left(v)
JudgeStep(w, v) ==
  /\ DiskSame /\ w.pc = "judge" /\ Qualifies(w.root)
  /\ v.pc = "open" /\ v.root = w.root /\ v.phase = 2 /\ v.todo = FilesOf(w.root, 2)
  /\ v.cell = 1 /\ ~v.stop /\ v.decision = w.decision
  /\ v.live = w.live /\ v.key = w.key /\ v.print = w.print

Acts(w, v) ==
  \/ CalmStep(w, v) \/ QuitStep(w, v) \/ BeginStep(w, v) \/ KeepStep(w, v)
  \/ (\E f \in FileNames : MakeStep(w, v, f))
  \/ AdmitStep(w, v) \/ PostStep(w, v) \/ SettleStep(w, v) \/ AccountStep(w, v)
  \/ SummaryStep(w, v) \/ JudgeStep(w, v)
\* What a step of one process does.
Move(c) == \E w, v \in CallerStates : Step(c, w, v) /\ Acts(w, v)

LEMMA PlacedNow ==
  ASSUME BaseInv, NEW c \in Callers, NEW w, w = caller[c]
  PROVE  w \in CallerStates /\ Placed(w)
BY DEF BaseInv, StageTyped, PlacedAll

LEMMA NextCellMoves ==
  ASSUME BaseInv, NEW c \in Callers, NextCell(c)
  PROVE  Move(c)
<1>1. DiskSame /\ caller \in [Callers -> CallerStates]
  BY DEF NextCell, Disk, DiskSame, BaseInv, StageTyped
<1>2. CASE caller[c].stop \/ caller[c].cell > Cells
  <2>1. PICK pc \in {"judge", "summary"} :
          Goto(c, pc) /\ (pc = "judge" => kind = "stage" /\ caller[c].phase = 1)
    BY <1>2 DEF NextCell
  <2>2. PICK w, v \in CallerStates : Step(c, w, v) /\ Went(w, v, pc)
    BY <1>1, <2>1, Goes DEF Pcs
  <2>3. Placed(w) /\ w = caller[c]
    BY <2>2, PlacedNow DEF Step
  <2>4. w.pc \in {"cell", "open"} /\ w.todo = <<>>
    BY <2>3 DEF NextCell, Placed, Working
  <2>5. Clear(v) => Clear(w)
    BY <2>2, <2>4 DEF Clear, Went, Kept
  <2>6. CalmStep(w, v)
    BY <1>1, <2>1, <2>2, <2>3, <2>4, <2>5
       DEF CalmStep, Went, Kept, Working, InCell, Unposted, Placed
  <2> QED  BY <2>2, <2>6 DEF Move, Acts
<1>3. CASE ~(caller[c].stop \/ caller[c].cell > Cells)
  <2>1. PICK pc \in {"key", "begin"} : Goto(c, pc)
    BY <1>3 DEF NextCell
  <2>2. PICK w, v \in CallerStates : Step(c, w, v) /\ Went(w, v, pc)
    BY <1>1, <2>1, Goes DEF Pcs
  <2>3. Placed(w) /\ w = caller[c]
    BY <2>2, PlacedNow DEF Step
  <2>4. w.pc \in {"cell", "open"} /\ w.todo = <<>> /\ ~w.stop /\ w.cell <= Cells
    BY <1>3, <2>2, <2>3, StudyConstants DEF NextCell, Placed, Working, CallerStates
  <2>5. w.cell \in Cell /\ Clear(w)
    BY <2>2, <2>3, <2>4, StudyConstants DEF Placed, Cell, CallerStates, Clear
  <2>6. CalmStep(w, v)
    BY <1>1, <2>1, <2>2, <2>3, <2>4, <2>5
       DEF CalmStep, Went, Kept, Working, InCell, Unposted, Placed
  <2> QED  BY <2>2, <2>6 DEF Move, Acts
<1> QED  BY <1>2, <1>3

\* A cell that fails where it stands.
LEMMA FailedMoves ==
  ASSUME BaseInv, NEW c \in Callers, caller[c].pc \in InCell, DiskSame, EndCell(c, "failed")
  PROVE  Move(c)
<1>1. PICK w, v \in CallerStates : Step(c, w, v) /\ Failed(w, v)
  BY Fails DEF BaseInv, StageTyped
<1>2. Placed(w) /\ w = caller[c] /\ w.pc \in InCell
  BY <1>1, PlacedNow DEF Step
<1>3. ~Clear(v)
  BY <1>1 DEF Failed, Clear
<1>4. CalmStep(w, v)
  BY <1>1, <1>2, <1>3 DEF CalmStep, Failed, Kept, Working, InCell, Unposted, Placed
<1> QED  BY <1>1, <1>4 DEF Move, Acts

\* A call that ends where it stands.
LEMMA QuitMoves ==
  ASSUME BaseInv, NEW c \in Callers, caller[c].pc \notin Ended, DiskSame,
         NEW how \in {"done", "failed", "dead"}, Leave(c, how)
  PROVE  Move(c)
<1>1. PICK w, v \in CallerStates : Step(c, w, v) /\ Left(v)
  BY Leaves DEF BaseInv, StageTyped
<1>2. QuitStep(w, v)
  BY <1>1 DEF QuitStep, Step
<1> QED  BY <1>1, <1>2 DEF Move, Acts

LEMMA ReadKeyMoves ==
  ASSUME BaseInv, NEW c \in Callers, ReadKey(c)
  PROVE  Move(c)
<1>1. DiskSame /\ caller \in [Callers -> CallerStates]
  BY DEF ReadKey, Disk, DiskSame, BaseInv, StageTyped
<1>2. CASE EndCell(c, "failed")
  BY <1>1, <1>2, FailedMoves DEF ReadKey, InCell
<1>3. CASE caller' = [caller EXCEPT ![c].pc = "begin", ![c].key = TRUE]
  <2>1. PICK w \in CallerStates : w = caller[c]
    BY <1>1
  <2>2. PICK v : v = caller'[c]
    OBVIOUS
  <2>3. v = [w EXCEPT !.pc = "begin", !.key = TRUE] /\ caller' = [caller EXCEPT ![c] = v]
    BY <1>1, <1>3, <2>1, <2>2 DEF CallerStates
  <2>4. v \in CallerStates /\ Kept(w, v) /\ v.pc = "begin" /\ w.pc = "key"
    BY <2>1, <2>3 DEF CallerStates, Kept, Stays, Pcs, ReadKey
  <2>5. Placed(w)
    BY <2>1, PlacedNow
  <2>6. CalmStep(w, v)
    BY <1>1, <2>4, <2>5 DEF CalmStep, Working, InCell, Unposted, Placed, Clear
  <2> QED  BY <2>1, <2>2, <2>3, <2>4, <2>6 DEF Move, Acts, Step
<1> QED  BY <1>2, <1>3 DEF ReadKey

LEMMA BeginCellMoves ==
  ASSUME BaseInv, NEW c \in Callers, BeginCell(c)
  PROVE  Move(c)
<1>1. DiskSame /\ caller \in [Callers -> CallerStates] /\ caller[c].pc = "begin"
  BY DEF BeginCell, Disk, DiskSame, BaseInv, StageTyped
<1>2. CASE EndCell(c, "failed")
  BY <1>1, <1>2, FailedMoves DEF InCell
<1>3. CASE Fail(c)
  BY <1>1, <1>3, QuitMoves DEF Fail, Ended
<1>4. CASE Goto(c, "admit")
  <2>1. PICK w, v \in CallerStates : Step(c, w, v) /\ Went(w, v, "admit")
    BY <1>1, <1>4, Goes DEF Pcs
  <2>2. Placed(w) /\ w.pc = "begin"
    BY <1>1, <2>1, PlacedNow DEF Step
  <2>3. CalmStep(w, v)
    BY <1>1, <2>1, <2>2 DEF CalmStep, Went, Kept, Working, InCell, Unposted, Placed, Clear
  <2> QED  BY <2>1, <2>3 DEF Move, Acts
<1> QED  BY <1>2, <1>3, <1>4 DEF BeginCell

LEMMA StopMoves ==
  ASSUME BaseInv, NEW c \in Callers, WriteFails(c) \/ Interrupt(c) \/ Crash(c)
  PROVE  Move(c)
<1>1. DiskSame
  BY DEF WriteFails, Interrupt, Crash, Disk, DiskSame
<1>2. CASE EndCell(c, "failed") /\ caller[c].pc \in InCell
  BY <1>1, <1>2, FailedMoves
<1>3. CASE Leave(c, "dead") /\ caller[c].pc \notin Ended
  BY <1>1, <1>3, QuitMoves
<1>4. CASE Fail(c) /\ caller[c].pc \notin Ended
  BY <1>1, <1>4, QuitMoves DEF Fail
<1> QED  BY <1>2, <1>3, <1>4 DEF WriteFails, Interrupt, Crash, InCell

LEMMA BeginMoves ==
  ASSUME BaseInv, NEW c \in Callers, NEW r \in Controls, NEW phase \in Phases, NEW live \in BOOLEAN,
         Begin(c, r, phase, live),
         phase = 2 => RegressionReceipt(r) /\ (live => origin[<<r, 1>>] = "live")
  PROVE  Move(c)
<1>1. /\ DiskSame /\ caller \in [Callers -> CallerStates] /\ caller[c].pc = "idle"
      /\ phase = 2 => kind = "pilot"
  BY DEF Begin, Disk, DiskSame, BaseInv, StageTyped
<1>2. PICK w \in CallerStates : w = caller[c]
  BY <1>1
<1>3. PICK v : v = caller'[c]
  OBVIOUS
<1>4. Placed(w) /\ w.pc = "idle"
  BY <1>1, <1>2, PlacedNow
<1>5. r \in Roots /\ Pinned \in Prints \cup {NoPrint}
  BY Home, StudyAssumption DEF Pinned
<1>6. FilesOf(r, phase) \in Seq(Steps)
  BY <1>5, FilesLaidOut DEF Layout, BaseInv, StageTyped
<1>7. PICK todo \in Seq(Steps), print \in Prints \cup {NoPrint} :
        todo = FilesOf(r, phase) /\ print = Pinned
  BY <1>5, <1>6
<1>8. /\ v = [w EXCEPT !.pc = "open", !.root = r, !.phase = phase, !.live = live, !.todo = todo, !.print = print]
      /\ caller' = [caller EXCEPT ![c] = v]
  BY <1>1, <1>2, <1>3, <1>7 DEF Begin, CallerStates
<1>9. /\ v \in CallerStates /\ v.pc = "open" /\ v.root = r /\ v.phase = phase /\ v.live = live
      /\ v.todo = todo /\ v.cell = w.cell /\ v.decision = w.decision /\ v.stop = w.stop /\ v.key = w.key
  BY <1>5, <1>8 DEF CallerStates, Pcs
<1>10. BeginStep(w, v)
  BY <1>1, <1>4, <1>7, <1>9 DEF BeginStep, Placed, Ended
<1> QED  BY <1>2, <1>3, <1>8, <1>9, <1>10 DEF Move, Acts, Step

LEMMA StartMoves ==
  ASSUME BaseInv, NEW c \in Callers, NEW r \in Controls, NEW phase \in Phases,
         DryRun(c, r, phase) \/ \E live \in BOOLEAN : Execute(c, r, phase, live)
  PROVE  Move(c)
<1>1. ASSUME kind = "pilot", Load(r, 2)
      PROVE  RegressionReceipt(r)
  BY <1>1 DEF Load, LoadPilot
<1>2. CASE DryRun(c, r, phase)
  <2>1. Begin(c, r, phase, FALSE) /\ Load(r, phase)
    BY <1>2 DEF DryRun
  <2>2. phase = 2 => RegressionReceipt(r)
    BY <1>1, <2>1 DEF Begin
  <2> QED  BY <2>1, <2>2, BeginMoves
<1>3. ASSUME NEW live \in BOOLEAN, Execute(c, r, phase, live)
      PROVE  Move(c)
  <2>1. Begin(c, r, phase, live) /\ Preflight(r, phase, live)
    BY <1>3 DEF Execute
  <2>2. phase = 2 => RegressionReceipt(r) /\ (live => origin[<<r, 1>>] = "live")
    BY <1>1, <2>1 DEF Begin, Preflight
  <2> QED  BY <2>1, <2>2, BeginMoves
<1> QED  BY <1>2, <1>3

LEMMA OpenMoves ==
  ASSUME BaseInv, NEW c \in Callers, Open(c)
  PROVE  Move(c)
<1>1. /\ caller \in [Callers -> CallerStates] /\ caller[c].pc = "open" /\ caller[c].todo # <<>>
      /\ files \subseteq FileNames
      /\ UNCHANGED <<kind, ledger, results, summary, sent>>
  BY DEF Open, BaseInv, StageTyped, DiskTyped
<1>2. PICK w \in CallerStates : w = caller[c]
  BY <1>1
<1>3. PICK v : v = caller'[c]
  OBVIOUS
<1>4. PICK step \in Steps : step = Head(w.todo)
  <2>1. w.todo \in Seq(Steps) /\ w.todo # <<>>
    BY <1>1, <1>2 DEF CallerStates
  <2> QED  BY <2>1, MakesTail
<1> DEFINE refused == IF step[1] = "load" THEN drifted ELSE step[1] = "make" /\ step[2] \in files
<1>5. IF refused THEN Fail(c) /\ UNCHANGED <<files, origin>>
      ELSE /\ caller' = [caller EXCEPT ![c].todo = Tail(@)]
           /\ files' = IF step[1] = "load" THEN files ELSE files \cup {step[2]}
           /\ origin' = IF step[1] = "make" /\ step[2] = <<w.root, w.phase, "claim">>
                        THEN [origin EXCEPT ![<<w.root, w.phase>>] = IF w.live THEN "live" ELSE "fake"]
                        ELSE origin
  BY <1>2, <1>4 DEF Open, Slot
<1>6. CASE refused
  <2>1. DiskSame /\ Leave(c, "failed") /\ caller[c].pc \notin Ended
    BY <1>1, <1>5, <1>6 DEF DiskSame, Fail, Ended
  <2> QED  BY <2>1, QuitMoves
<1>7. CASE ~refused
  <2>1. caller' = [caller EXCEPT ![c].todo = Tail(@)]
    BY <1>5, <1>7
  <2>2. v = [w EXCEPT !.todo = Tail(@)] /\ caller' = [caller EXCEPT ![c] = v]
    BY <1>1, <1>2, <1>3, <2>1
  <2>3. w.todo # <<>> /\ w.todo \in Seq(Steps)
    BY <1>1, <1>2 DEF CallerStates
  <2>4. PICK todo \in Seq(Steps) : todo = Tail(w.todo)
    BY <2>3, MakesTail
  <2>5. v \in CallerStates /\ v.todo = todo
    BY <2>2, <2>4 DEF CallerStates
  <2>6. Took(w, v)
    BY <1>1, <1>2, <2>2, <2>3 DEF Took, Stays, CallerStates
  <2>7. Step(c, w, v)
    BY <1>2, <1>3, <2>2 DEF Step
  <2> HIDE DEF refused
  <2>8. CASE step[1] = "load"
    <3>1. \A f : step # <<"make", f>>
      BY <2>8
    <3>2. files' = files /\ origin' = origin
      BY <1>5, <1>7, <2>8
    <3>3. KeepStep(w, v)
      BY <1>1, <1>4, <2>6, <3>1, <3>2 DEF KeepStep
    <3> QED  BY <2>5, <2>7, <3>3 DEF Move, Acts
  <2>9. ASSUME NEW f \in FileNames, step = <<"keep", f>>
        PROVE  Move(c)
    <3>1. \A g : step # <<"make", g>>
      BY <2>9
    <3>2. files' = files \cup {f} /\ origin' = origin
      BY <1>5, <1>7, <2>9
    <3>3. KeepStep(w, v)
      BY <1>1, <1>4, <2>6, <2>9, <3>1, <3>2 DEF KeepStep
    <3> QED  BY <2>5, <2>7, <3>3 DEF Move, Acts
  <2>10. ASSUME NEW f \in FileNames, step = <<"make", f>>
         PROVE  Move(c)
    <3>1. f \notin files
      BY <1>7, <2>10 DEF refused
    <3>2. /\ files' = files \cup {f}
          /\ origin' = IF f = <<w.root, w.phase, "claim">>
                       THEN [origin EXCEPT ![<<w.root, w.phase>>] = IF w.live THEN "live" ELSE "fake"]
                       ELSE origin
      BY <1>5, <1>7, <2>10
    <3>3. MakeStep(w, v, f)
      BY <1>4, <2>6, <2>10, <3>1, <3>2 DEF MakeStep, Place
    <3> QED  BY <2>5, <2>7, <2>10, <3>3 DEF Move, Acts
  <2> QED  BY <2>8, <2>9, <2>10 DEF Steps
<1> QED  BY <1>6, <1>7

LEMMA AdmitMoves ==
  ASSUME BaseInv, NEW c \in Callers, Admit(c)
  PROVE  Move(c)
<1>1. /\ caller \in [Callers -> CallerStates] /\ caller[c].pc = "admit"
      /\ UNCHANGED <<kind, files, results, summary, origin, sent>>
  BY DEF Admit, BaseInv, StageTyped
<1>2. CASE EndCell(c, "failed") /\ UNCHANGED ledger
  BY <1>1, <1>2, FailedMoves DEF DiskSame, InCell
<1>3. CASE ~(EndCell(c, "failed") /\ UNCHANGED ledger)
  <2>1. PICK w \in CallerStates : w = caller[c]
    BY <1>1
  <2>2. PICK v : v = caller'[c]
    OBVIOUS
  <2>3. /\ Afford(Place(w))
        /\ ledger' = [ledger EXCEPT ![Place(w)] = Append(@,
               [cell |-> w.cell, decision |-> w.decision, state |-> "reserved",
                held |-> Reservation, print |-> NoPrint])]
        /\ caller' = [caller EXCEPT ![c].pc = "wire", ![c].pending = TRUE]
    BY <1>1, <1>3, <2>1 DEF Admit, Slot, Place
  <2>4. v = [w EXCEPT !.pc = "wire", !.pending = TRUE] /\ caller' = [caller EXCEPT ![c] = v]
    BY <1>1, <2>1, <2>2, <2>3 DEF CallerStates
  <2>5. v \in CallerStates /\ w.pc = "admit" /\ v.pc = "wire" /\ Kept(w, v) /\ v.key = w.key /\ v.status = w.status
    BY <1>1, <2>1, <2>4 DEF CallerStates, Kept, Stays, Pcs
  <2>6. PICK row \in LedgerRows :
          row = [cell |-> w.cell, decision |-> w.decision, state |-> "reserved",
                 held |-> Reservation, print |-> NoPrint]
    BY StudyConstants DEF LedgerRows, CallerStates
  <2>7. row.state = "reserved" /\ row.held = Reservation /\ ledger' = [ledger EXCEPT ![Place(w)] = Append(@, row)]
    BY <2>3, <2>6
  <2>8. AdmitStep(w, v)
    BY <1>1, <2>3, <2>5, <2>7 DEF AdmitStep
  <2> QED  BY <2>1, <2>2, <2>4, <2>5, <2>8 DEF Move, Acts, Step
<1> QED  BY <1>2, <1>3

LEMMA PostMoves ==
  ASSUME BaseInv, NEW c \in Callers, Post(c)
  PROVE  Move(c)
<1>1. /\ caller \in [Callers -> CallerStates] /\ caller[c].pc = "wire" /\ Goto(c, "answer")
      /\ UNCHANGED <<kind, files, ledger, results, summary, origin>>
  BY DEF Post, BaseInv, StageTyped
<1>2. PICK w, v \in CallerStates : Step(c, w, v) /\ Went(w, v, "answer")
  BY <1>1, Goes DEF Pcs
<1>3. sent' = [sent EXCEPT ![<<w.phase, w.cell, w.decision>>] = @ + 1] /\ w.pc = "wire"
  BY <1>1, <1>2 DEF Post, Step
<1>4. PostStep(w, v)
  BY <1>1, <1>2, <1>3 DEF PostStep, Went
<1> QED  BY <1>2, <1>4 DEF Move, Acts

LEMMA VerdictTyped ==
  ASSUME kind \in KindNames, NEW c \in Callers, NEW reply \in {"turn", "end", "contract", "overrun"}
  PROVE  /\ Verdict(c, reply) \in {"more", "valid", "short", "contract", "failed"}
         /\ Verdict(c, reply) = "more" => caller[c].decision # Decisions
<1>1. StageVerdict(reply) \in {"valid", "contract", "failed"}
  BY DEF StageVerdict
<1>2. /\ CellVerdict(c, reply) \in {"more", "valid", "short", "contract"}
      /\ CellVerdict(c, reply) = "more" => caller[c].decision # Decisions
  BY DEF CellVerdict
<1> QED  BY <1>1, <1>2 DEF Verdict

LEMMA SettleMoves ==
  ASSUME BaseInv, NEW c \in Callers, Settle(c)
  PROVE  Move(c)
<1>1. /\ kind \in KindNames /\ caller \in [Callers -> CallerStates] /\ caller[c].pc = "answer"
      /\ ledger \in [Slots -> Seq(LedgerRows)]
      /\ UNCHANGED <<kind, files, results, summary, origin, sent>>
  BY DEF Settle, BaseInv, StageTyped, DiskTyped
<1>2. PICK w \in CallerStates : w = caller[c]
  BY <1>1
<1>3. PICK v : v = caller'[c]
  OBVIOUS
<1>4. Placed(w) /\ w.pc = "answer" /\ Place(w) \in Slots /\ Slot(c) = Place(w)
  BY <1>1, <1>2, PlacedNow DEF Place, Slot, Slots, CallerStates
<1>a. PICK billed \in BOOLEAN, charge \in Charges, print \in Prints \cup {NoPrint},
           reply \in {"turn", "end", "contract", "overrun"} :
       LET s == Slot(c)
           known == billed /\ Identified(c, print)
           verdict == IF known THEN Verdict(c, reply) ELSE "failed"
       IN /\ ledger' = [ledger EXCEPT ![s][Len(ledger[s])] = Booked(@, billed, charge, print)]
          /\ caller' = [caller EXCEPT ![c] = [@ EXCEPT
               !.pending = FALSE, !.halted = ~billed,
               !.print = IF known THEN print ELSE caller[c].print,
               !.pc = IF verdict = "more" THEN "admit" ELSE "result",
               !.decision = caller[c].decision + IF verdict = "more" THEN 1 ELSE 0,
               !.status = IF verdict = "more" THEN "none" ELSE verdict]]
  BY DEF Settle
<1> DEFINE known == billed /\ Identified(c, print)
           verdict == IF known THEN Verdict(c, reply) ELSE "failed"
<1>5. /\ ledger' = [ledger EXCEPT ![Place(w)][Len(ledger[Place(w)])] = Booked(@, billed, charge, print)]
      /\ caller' = [caller EXCEPT ![c] = [@ EXCEPT
               !.pending = FALSE, !.halted = ~billed,
               !.print = IF known THEN print ELSE caller[c].print,
               !.pc = IF verdict = "more" THEN "admit" ELSE "result",
               !.decision = caller[c].decision + IF verdict = "more" THEN 1 ELSE 0,
               !.status = IF verdict = "more" THEN "none" ELSE verdict]]
  BY <1>4, <1>a
<1>6. /\ verdict \in {"more", "valid", "short", "contract", "failed"}
      /\ verdict = "more" => w.decision # Decisions
      /\ verdict # "failed" => known
  BY <1>1, <1>2, VerdictTyped
<1>7. known => billed /\ print # NoPrint /\ w.print \in {NoPrint, print}
  BY <1>2 DEF Identified
<1> HIDE DEF known, verdict
<1>8. /\ v = [w EXCEPT !.pending = FALSE, !.halted = ~billed,
               !.print = IF known THEN print ELSE w.print,
               !.pc = IF verdict = "more" THEN "admit" ELSE "result",
               !.decision = w.decision + IF verdict = "more" THEN 1 ELSE 0,
               !.status = IF verdict = "more" THEN "none" ELSE verdict]
      /\ caller' = [caller EXCEPT ![c] = v]
  BY <1>1, <1>2, <1>3, <1>5 DEF CallerStates
<1>9. /\ v.root = w.root /\ v.phase = w.phase /\ v.live = w.live /\ v.todo = w.todo
      /\ v.cell = w.cell /\ v.stop = w.stop /\ v.key = w.key
      /\ v.pc = (IF verdict = "more" THEN "admit" ELSE "result")
      /\ v.decision = w.decision + (IF verdict = "more" THEN 1 ELSE 0)
      /\ v.status = (IF verdict = "more" THEN "none" ELSE verdict)
      /\ v.print = (IF known THEN print ELSE w.print)
  BY <1>8 DEF CallerStates
<1>b. v \in CallerStates
  <2>1. PICK p \in Prints \cup {NoPrint}, pc \in {"admit", "result"}, n \in Nat, st \in Statuses, h \in BOOLEAN :
          v = [w EXCEPT !.pending = FALSE, !.halted = h, !.print = p, !.pc = pc, !.decision = n, !.status = st]
    <3>1. (IF known THEN print ELSE w.print) \in Prints \cup {NoPrint}
      BY DEF CallerStates
    <3>2. (IF verdict = "more" THEN "admit" ELSE "result") \in {"admit", "result"}
      OBVIOUS
    <3>3. w.decision + (IF verdict = "more" THEN 1 ELSE 0) \in Nat
      BY DEF CallerStates
    <3>4. (IF verdict = "more" THEN "none" ELSE verdict) \in Statuses
      BY <1>6 DEF Statuses
    <3>5. (~billed) \in BOOLEAN
      OBVIOUS
    <3> QED  BY <1>8, <3>1, <3>2, <3>3, <3>4, <3>5
  <2> QED  BY <2>1 DEF CallerStates, Pcs
<1>10. v.decision \in 1..Decisions
  BY <1>2, <1>4, <1>6, <1>9, StudyConstants DEF Placed
<1>11. PICK old \in LedgerRows : ledger[Place(w)] # <<>> => old = ledger[Place(w)][Len(ledger[Place(w)])]
  <2>1. ledger[Place(w)] \in Seq(LedgerRows)
    BY <1>1, <1>4
  <2>2. [cell |-> 1, decision |-> 1, state |-> "reserved", held |-> 0, print |-> NoPrint] \in LedgerRows
    BY DEF LedgerRows
  <2>3. ledger[Place(w)] # <<>> => ledger[Place(w)][Len(ledger[Place(w)])] \in LedgerRows
    BY <2>1
  <2> QED  BY <2>2, <2>3
<1>12. PICK row : row = Booked(old, billed, charge, print)
  OBVIOUS
<1>13. charge \in Nat
  BY StudyAssumption
<1>14. row \in LedgerRows /\ (known => row.state = "settled" /\ row.print = print)
  BY <1>7, <1>12, <1>13 DEF Booked, LedgerRows
<1>15. IF ledger[Place(w)] = <<>> THEN ledger' = ledger
       ELSE ledger' = [ledger EXCEPT ![Place(w)][Len(ledger[Place(w)])] = row]
  <2>1. CASE ledger[Place(w)] = <<>>
    <3>1. ledger'[Place(w)] = <<>> /\ \A s \in Slots : s # Place(w) => ledger'[s] = ledger[s]
      BY <1>1, <1>4, <1>5, <2>1
    <3>2. ledger' \in [Slots -> Seq(LedgerRows)] /\ \A s \in Slots : ledger'[s] = ledger[s]
      BY <1>1, <1>4, <1>5, <2>1, <3>1
    <3> QED  BY <1>1, <2>1, <3>2
  <2>2. CASE ledger[Place(w)] # <<>>
    BY <1>1, <1>4, <1>5, <1>11, <1>12, <2>2
  <2> QED  BY <2>1, <2>2
<1>16. Clear(v) => Answered(w, v, row)
  BY <1>6, <1>7, <1>9, <1>14 DEF Clear, Answered
<1>17. SettleStep(w, v)
  BY <1>1, <1>4, <1>9, <1>10, <1>14, <1>15, <1>16 DEF SettleStep
<1> QED  BY <1>2, <1>3, <1>8, <1>b, <1>17 DEF Move, Acts, Step

LEMMA HaltsOnFailure ==
  ASSUME kind \in KindNames, NEW c \in Callers, NEW failures
  PROVE  /\ caller[c].status = "failed" => Halts(c, failures)
         /\ kind = "stage" /\ Halts(c, failures) => caller[c].status \notin Valid
<1>1. caller[c].status = "failed" => /\ StudyHalts(c, failures) /\ ProbeHalts(c, failures)
                                     /\ PilotHalts(c, failures) /\ StageHalts(c, failures)
  BY DEF StudyHalts, ProbeHalts, PilotHalts, StageHalts, Valid
<1>2. StageHalts(c, failures) => caller[c].status \notin Valid
  BY DEF StageHalts
<1> QED  BY <1>1, <1>2 DEF Halts, KindNames

LEMMA AccountMoves ==
  ASSUME BaseInv, NEW c \in Callers, Account(c)
  PROVE  Move(c)
<1>1. /\ kind \in KindNames /\ caller \in [Callers -> CallerStates] /\ caller[c].pc = "result"
      /\ UNCHANGED <<kind, files, ledger, summary, origin, sent>>
  BY DEF Account, BaseInv, StageTyped
<1>2. PICK w \in CallerStates : w = caller[c]
  BY <1>1
<1>3. PICK v : v = caller'[c]
  OBVIOUS
<1>4. PICK written \in BOOLEAN, failures \in Nat, stop \in BOOLEAN :
        /\ failures = w.failures + IF w.status \in Valid THEN 0 ELSE 1
        /\ stop = (Halts(c, failures) \/ ~written)
        /\ results' = IF written THEN [results EXCEPT ![Place(w)][w.cell] = w.status] ELSE results
        /\ caller' = [caller EXCEPT ![c] = [@ EXCEPT
               !.pc = "cell", !.cell = caller[c].cell + 1, !.decision = 1, !.status = "none",
               !.failures = failures, !.stop = stop]]
  <2>1. PICK written, failures :
        /\ written \in BOOLEAN /\ failures = w.failures + IF w.status \in Valid THEN 0 ELSE 1
        /\ results' = IF written THEN [results EXCEPT ![Place(w)][w.cell] = w.status] ELSE results
        /\ caller' = [caller EXCEPT ![c] = [@ EXCEPT
               !.pc = "cell", !.cell = caller[c].cell + 1, !.decision = 1, !.status = "none",
               !.failures = failures, !.stop = Halts(c, failures) \/ ~written]]
    BY <1>2 DEF Account, Slot, Place
  <2>2. failures \in Nat
    BY <1>2, <2>1 DEF CallerStates
  <2> QED  BY <2>1, <2>2
<1>5. failures \in Nat
  OBVIOUS
<1>6. /\ v = [w EXCEPT !.pc = "cell", !.cell = w.cell + 1, !.decision = 1, !.status = "none",
               !.failures = failures, !.stop = stop]
      /\ caller' = [caller EXCEPT ![c] = v]
  BY <1>1, <1>2, <1>3, <1>4 DEF CallerStates
<1>7. /\ w.pc = "result" /\ v.pc = "cell" /\ Stays(w, v) /\ v.todo = w.todo /\ v.key = w.key
      /\ v.cell = w.cell + 1 /\ v.decision = 1 /\ v.stop = stop
  BY <1>1, <1>2, <1>6 DEF CallerStates, Stays
<1>b. v \in CallerStates
  <2>1. PICK n \in Nat : n = w.cell + 1
    BY DEF CallerStates
  <2>2. v = [w EXCEPT !.pc = "cell", !.cell = n, !.decision = 1, !.status = "none",
               !.failures = failures, !.stop = stop]
    BY <1>6, <2>1
  <2> QED  BY <2>2 DEF CallerStates, Pcs, Statuses
<1>8. /\ ~stop => w.status # "failed"
      /\ kind = "stage" /\ stop /\ written => w.status \notin Valid
  <2>1. /\ w.status = "failed" => Halts(c, failures)
        /\ kind = "stage" /\ Halts(c, failures) => w.status \notin Valid
    BY <1>1, <1>2, HaltsOnFailure
  <2> QED  BY <1>4, <2>1
<1>9. AccountStep(w, v)
  BY <1>1, <1>4, <1>7, <1>8 DEF AccountStep
<1> QED  BY <1>2, <1>3, <1>6, <1>b, <1>9 DEF Move, Acts, Step

LEMMA SummariseMoves ==
  ASSUME BaseInv, NEW c \in Callers, Summarise(c)
  PROVE  Move(c)
<1>1. /\ caller \in [Callers -> CallerStates] /\ caller[c].pc = "summary"
      /\ UNCHANGED <<kind, files, ledger, results, origin, sent>>
  BY DEF Summarise, BaseInv, StageTyped
<1>2. PICK w, v \in CallerStates :
        Step(c, w, v) /\ (IF kind = "value" /\ w.phase = 1 THEN Went(w, v, "judge") ELSE Left(v))
  <2>1. CASE kind = "value" /\ caller[c].phase = 1
    <3>1. PICK w, v \in CallerStates : Step(c, w, v) /\ Went(w, v, "judge")
      BY <1>1, <2>1, Goes DEF Summarise, Pcs
    <3> QED  BY <2>1, <3>1 DEF Step
  <2>2. CASE ~(kind = "value" /\ caller[c].phase = 1)
    <3>1. PICK w, v \in CallerStates : Step(c, w, v) /\ Left(v)
      BY <1>1, <2>2, Leaves DEF Summarise
    <3> QED  BY <2>2, <3>1 DEF Step
  <2> QED  BY <2>1, <2>2
<1>3. w = caller[c] /\ Slot(c) = Place(w)
  BY <1>2 DEF Step, Slot, Place
<1>4. PICK s \in {"open", "halted"} :
        /\ s = (IF w.stop \/ GateStops(c) THEN "halted" ELSE "open")
        /\ summary' = [summary EXCEPT ![Place(w)] = s]
  BY <1>3 DEF Summarise
<1>5. SummaryStep(w, v)
  BY <1>1, <1>2, <1>3, <1>4 DEF SummaryStep
<1> QED  BY <1>2, <1>5 DEF Move, Acts

LEMMA JudgeMoves ==
  ASSUME BaseInv, NEW c \in Callers, Judge(c)
  PROVE  Move(c)
<1>1. DiskSame /\ caller \in [Callers -> CallerStates] /\ caller[c].pc = "judge" /\ kind \in KindNames
  BY DEF Judge, Disk, DiskSame, BaseInv, StageTyped
<1>2. CASE ~Qualifies(caller[c].root)
  <2>1. Leave(c, "done") /\ caller[c].pc \notin Ended
    BY <1>1, <1>2 DEF Judge, Ended
  <2> QED  BY <1>1, <2>1, QuitMoves
<1>3. CASE Qualifies(caller[c].root)
  <2>1. PICK w \in CallerStates : w = caller[c]
    BY <1>1
  <2>2. PICK v : v = caller'[c]
    OBVIOUS
  <2>3. w.root \in Roots /\ w.pc = "judge" /\ Qualifies(w.root)
    BY <1>1, <1>3, <2>1 DEF CallerStates
  <2>4. FilesOf(w.root, 2) \in Seq(Steps)
    BY <1>1, <2>3, FilesLaidOut DEF Layout, Phases
  <2>5. PICK todo \in Seq(Steps) : todo = FilesOf(w.root, 2)
    BY <2>4
  <2>6. /\ v = [w EXCEPT !.pc = "open", !.phase = 2, !.todo = todo,
            !.cell = 1, !.failures = 0, !.stop = FALSE, !.halted = FALSE, !.pending = FALSE]
        /\ caller' = [caller EXCEPT ![c] = v]
    BY <1>1, <1>3, <2>1, <2>2, <2>5 DEF Judge, CallerStates
  <2>7. /\ v \in CallerStates /\ v.pc = "open" /\ v.root = w.root /\ v.phase = 2 /\ v.todo = todo
        /\ v.cell = 1 /\ ~v.stop /\ v.decision = w.decision
        /\ v.live = w.live /\ v.key = w.key /\ v.print = w.print
    BY <2>1, <2>6 DEF CallerStates, Pcs, Phases
  <2>8. JudgeStep(w, v)
    BY <1>1, <2>3, <2>5, <2>7 DEF JudgeStep
  <2> QED  BY <2>1, <2>2, <2>6, <2>7, <2>8 DEF Move, Acts, Step
<1> QED  BY <1>2, <1>3

-----------------------------------------------------------------------------
(* Every step is quiet or a move of one process.                            *)

Quiet == DiskSame /\ caller' = caller

LEMMA StageMoves ==
  ASSUME BaseInv, [StageNext]_stageVars
  PROVE  Quiet \/ \E c \in Callers : Move(c)
<1>1. CASE UNCHANGED stageVars
  BY <1>1 DEF stageVars, Quiet, DiskSame
<1>2. CASE Drift
  BY <1>2 DEF Drift, Quiet, DiskSame
<1>3. ASSUME NEW s, NEW as, Freeze(s, as)
      PROVE  Quiet
  BY <1>3 DEF Freeze, Quiet, DiskSame
<1>4. ASSUME NEW r \in Controls,
             \/ PrepareStudy(r) \/ PrepareContinuation(r) \/ PrepareProbe(r)
             \/ PrepareValue(r) \/ PrepareStage(r) \/ FinalizeUnseen(r)
             \/ \E phase \in Phases : PreparePilot(r, phase)
      PROVE  Quiet
  BY <1>3, <1>4 DEF PrepareStudy, PrepareContinuation, PrepareProbe, PrepareValue, PrepareStage,
                    FinalizeUnseen, PreparePilot
<1>5. ASSUME NEW c \in Callers,
             \/ \E r \in Controls, phase \in Phases :
                  DryRun(c, r, phase) \/ \E live \in BOOLEAN : Execute(c, r, phase, live)
             \/ Open(c) \/ NextCell(c) \/ ReadKey(c) \/ BeginCell(c) \/ Admit(c) \/ Post(c) \/ WriteFails(c)
             \/ Settle(c) \/ Account(c) \/ Summarise(c) \/ Judge(c) \/ Interrupt(c) \/ Crash(c)
      PROVE  Move(c)
  BY <1>5, StartMoves, OpenMoves, NextCellMoves, ReadKeyMoves, BeginCellMoves, AdmitMoves, PostMoves,
     StopMoves, SettleMoves, AccountMoves, SummariseMoves, JudgeMoves
<1> QED  BY <1>1, <1>2, <1>4, <1>5 DEF StageNext

LEMMA StepFrame ==
  ASSUME caller \in [Callers -> CallerStates], NEW c \in Callers, NEW w, NEW v \in CallerStates, Step(c, w, v)
  PROVE  /\ caller' \in [Callers -> CallerStates] /\ w = caller[c] /\ caller'[c] = v
         /\ \A d \in Callers : d # c => caller'[d] = caller[d]
BY DEF Step

LEMMA ActsFrame ==
  ASSUME NEW w, NEW v, Acts(w, v)
  PROVE  kind' = kind
<1>1. CASE \E f \in FileNames : MakeStep(w, v, f)
  BY <1>1 DEF MakeStep, Took
<1> QED  BY <1>1 DEF Acts, CalmStep, QuitStep, BeginStep, KeepStep, Took, AdmitStep, PostStep,
             SettleStep, AccountStep, SummaryStep, JudgeStep, DiskSame

LEMMA PlanKept ==
  ASSUME PlanTyped, [StageNext]_stageVars
  PROVE  PlanTyped'
<1> USE DEF PlanTyped
<1>1. CASE UNCHANGED stageVars
  BY <1>1 DEF stageVars
<1>2. CASE Drift
  BY <1>2 DEF Drift
<1>3. ASSUME NEW s, NEW as \in {"ready", "sealed"}, Freeze(s, as)
      PROVE  PlanTyped'
  BY <1>3 DEF Freeze
<1>4. ASSUME NEW r \in Controls,
             \/ PrepareStudy(r) \/ PrepareContinuation(r) \/ PrepareProbe(r)
             \/ PrepareValue(r) \/ PrepareStage(r) \/ FinalizeUnseen(r)
             \/ \E phase \in Phases : PreparePilot(r, phase)
      PROVE  PlanTyped'
  BY <1>3, <1>4 DEF PrepareStudy, PrepareContinuation, PrepareProbe, PrepareValue, PrepareStage,
                    FinalizeUnseen, PreparePilot
<1>5. ASSUME NEW c \in Callers,
             \/ \E r \in Controls, phase \in Phases :
                  DryRun(c, r, phase) \/ \E live \in BOOLEAN : Execute(c, r, phase, live)
             \/ Open(c) \/ NextCell(c) \/ ReadKey(c) \/ BeginCell(c) \/ Admit(c) \/ Post(c) \/ WriteFails(c)
             \/ Settle(c) \/ Account(c) \/ Summarise(c) \/ Judge(c) \/ Interrupt(c) \/ Crash(c)
      PROVE  PlanTyped'
  <2>1. plan' = plan /\ drifted' = drifted
    BY <1>5 DEF DryRun, Execute, Begin, Open, NextCell, ReadKey, BeginCell, Admit, Post, WriteFails,
                Settle, Account, Summarise, Judge, Interrupt, Crash, Disk
  <2> QED  BY <2>1
<1> QED  BY <1>1, <1>2, <1>4, <1>5 DEF StageNext

\* Rewriting the last entry of a list, and adding one.
LEMMA LastRewritten ==
  ASSUME NEW R, NEW s \in Seq(R), s # <<>>, NEW x \in R
  PROVE  LET t == [s EXCEPT ![Len(s)] = x] IN
         /\ t \in Seq(R) /\ Len(t) = Len(s) /\ Len(s) \in Nat \ {0} /\ t[Len(s)] = x
         /\ \A i \in 1..Len(s) : i # Len(s) => t[i] = s[i]
<1>1. Len(s) \in 1..Len(s) /\ Len(s) \in Nat \ {0}
  OBVIOUS
<1> QED  BY <1>1, ExceptSeq

LEMMA DiskKept ==
  ASSUME DiskTyped, NEW w \in CallerStates, NEW v \in CallerStates, Placed(w), Acts(w, v)
  PROVE  DiskTyped'
<1>1. Place(w) \in Slots
  BY DEF Place, Slots, CallerStates
<1>2. CASE DiskSame
  BY <1>2 DEF DiskSame, DiskTyped
<1>3. CASE KeepStep(w, v)
  BY <1>3 DEF KeepStep, Took, DiskTyped
<1>4. ASSUME NEW f \in FileNames, MakeStep(w, v, f)
      PROVE  DiskTyped'
  <2>1. files' \subseteq FileNames /\ UNCHANGED <<ledger, results, summary, sent>>
    BY <1>4 DEF MakeStep, Took, DiskTyped
  <2>2. origin' \in [Slots -> {"none", "live", "fake"}]
    BY <1>1, <1>4 DEF MakeStep, DiskTyped
  <2> QED  BY <2>1, <2>2 DEF DiskTyped
<1>5. CASE AdmitStep(w, v)
  <2>1. PICK row \in LedgerRows : ledger' = [ledger EXCEPT ![Place(w)] = Append(@, row)]
    BY <1>5 DEF AdmitStep
  <2>2. Append(ledger[Place(w)], row) \in Seq(LedgerRows)
    BY <1>1 DEF DiskTyped
  <2>3. ledger' \in [Slots -> Seq(LedgerRows)]
    BY <1>1, <2>1, <2>2 DEF DiskTyped
  <2> QED  BY <1>5, <2>3 DEF AdmitStep, DiskTyped
<1>6. CASE PostStep(w, v)
  <2>1. <<w.phase, w.cell, w.decision>> \in Phases \X Cell \X (1..Decisions)
    BY <1>6 DEF PostStep, Placed, InCell, CallerStates
  <2>2. PICK t \in Phases \X Cell \X (1..Decisions) : t = <<w.phase, w.cell, w.decision>>
    BY <2>1
  <2>3. sent' \in [Phases \X Cell \X (1..Decisions) -> Nat]
    BY <1>6, <2>2 DEF PostStep, DiskTyped
  <2> QED  BY <1>6, <2>3 DEF PostStep, DiskTyped
<1>7. CASE SettleStep(w, v)
  <2>1. PICK row \in LedgerRows :
          IF ledger[Place(w)] = <<>> THEN ledger' = ledger
          ELSE ledger' = [ledger EXCEPT ![Place(w)] = [@ EXCEPT ![Len(ledger[Place(w)])] = row]]
    BY <1>7 DEF SettleStep
  <2>2. ledger[Place(w)] # <<>> =>
          [ledger[Place(w)] EXCEPT ![Len(ledger[Place(w)])] = row] \in Seq(LedgerRows)
    <3>1. ledger[Place(w)] \in Seq(LedgerRows)
      BY <1>1 DEF DiskTyped
    <3> QED  BY <3>1, LastRewritten
  <2>3. ledger' \in [Slots -> Seq(LedgerRows)]
    BY <1>1, <2>1, <2>2 DEF DiskTyped
  <2> QED  BY <1>7, <2>3 DEF SettleStep, DiskTyped
<1>8. CASE AccountStep(w, v)
  <2>1. w.status \in Statuses
    BY DEF CallerStates
  <2>a. results' = results \/ results' = [results EXCEPT ![Place(w)] = [@ EXCEPT ![w.cell] = w.status]]
    BY <1>8 DEF AccountStep
  <2>b. [results[Place(w)] EXCEPT ![w.cell] = w.status] \in [Cell -> Statuses]
    BY <1>1, <2>1 DEF DiskTyped
  <2>2. results' \in [Slots -> [Cell -> Statuses]]
    BY <1>1, <2>a, <2>b DEF DiskTyped
  <2> QED  BY <1>8, <2>2 DEF AccountStep, DiskTyped
<1>9. CASE SummaryStep(w, v)
  BY <1>1, <1>9 DEF SummaryStep, DiskTyped
<1> QED  BY <1>2, <1>3, <1>4, <1>5, <1>6, <1>7, <1>8, <1>9
         DEF Acts, CalmStep, QuitStep, BeginStep, JudgeStep

-----------------------------------------------------------------------------
(* The base of the invariant: places, and files held by one call each.      *)

LEMMA PlacedFixed ==
  ASSUME kind' = kind
  PROVE  \A w : Placed(w)' = Placed(w)
<1>1. /\ TwoPhase' = TwoPhase /\ Controls' = Controls
      /\ \A r, p : FilesOf(r, p)' = FilesOf(r, p)
  BY KindFixed
<1>2. ASSUME NEW w
      PROVE  Placed(w)' = Placed(w)
  <2>1. FilesOf(w.root, w.phase)' = FilesOf(w.root, w.phase)
    BY <1>1
  <2> QED  BY <1>1, <2>1 DEF Placed, Makes
<1> QED  BY <1>2

LEMMA PlacedNext ==
  ASSUME kind \in KindNames, NEW w \in CallerStates, NEW v \in CallerStates, Placed(w), Acts(w, v)
  PROVE  Placed(v)
<1> USE DEF Placed
<1>1. w.root \in Controls /\ w.cell >= 1 /\ w.decision \in 1..Decisions /\ Cells \in Nat /\ Decisions \in Nat /\ Decisions >= 1
  BY StudyConstants
<1>2. CASE CalmStep(w, v)
  <2>1. /\ v.root = w.root /\ v.phase = w.phase /\ v.todo = <<>> /\ v.cell = w.cell /\ v.decision = w.decision
        /\ v.pc \in Working /\ w.pc \in Working \cup {"open"} /\ v.pc \notin {"cell", "open"}
        /\ v.pc \in InCell => w.cell \in Cell
        /\ v.pc \in {"judge", "summary"} => w.decision = 1
        /\ v.pc = "judge" => TwoPhase /\ w.phase = 1
    BY <1>2 DEF CalmStep, Kept, Stays, Working, InCell, TwoPhase
  <2>2. w.pc \notin Ended /\ v.pc \notin Ended /\ v.pc # "idle"
    BY <2>1 DEF Working, InCell, Ended
  <2> QED  BY <1>1, <2>1, <2>2
<1>3. CASE QuitStep(w, v)
  BY <1>1, <1>3, Home DEF QuitStep, Left, Working, InCell, Ended, CallerStates
<1>4. CASE BeginStep(w, v)
  BY <1>1, <1>4 DEF BeginStep, Working, InCell, Ended, CallerStates
<1>5. ASSUME Took(w, v)
      PROVE  Placed(v)
  <2>1. w.todo \in Seq(Steps) /\ w.todo # <<>> /\ Makes(w.todo) \subseteq Makes(FilesOf(w.root, w.phase))
    BY <1>5 DEF Took, CallerStates
  <2>2. Makes(Tail(w.todo)) \subseteq Makes(w.todo)
    BY <2>1, MakesTail
  <2> QED  BY <1>1, <1>5, <2>1, <2>2 DEF Took, Stays, Working, InCell, Ended
<1>6. CASE KeepStep(w, v) \/ \E f \in FileNames : MakeStep(w, v, f)
  BY <1>5, <1>6 DEF KeepStep, MakeStep
<1>7. CASE AdmitStep(w, v) \/ PostStep(w, v)
  BY <1>1, <1>7 DEF AdmitStep, PostStep, Kept, Stays, Working, InCell, Ended, CallerStates
<1>8. CASE SettleStep(w, v)
  BY <1>1, <1>8 DEF SettleStep, Working, InCell, Ended, CallerStates
<1>9. CASE AccountStep(w, v)
  BY <1>1, <1>9 DEF AccountStep, Stays, Working, InCell, Ended, CallerStates
<1>10. CASE SummaryStep(w, v)
  BY <1>1, <1>10, Home DEF SummaryStep, Went, Left, Kept, Stays, Working, InCell, Ended, CallerStates, TwoPhase
<1>11. CASE JudgeStep(w, v)
  BY <1>1, <1>11 DEF JudgeStep, Working, InCell, Ended, CallerStates
<1> QED  BY <1>2, <1>3, <1>4, <1>6, <1>7, <1>8, <1>9, <1>10, <1>11 DEF Acts

LEMMA HeldInPlace ==
  ASSUME NEW w, NEW v, w.pc \notin Ended, v.pc \notin Ended,
         v.root = w.root, v.phase = w.phase, v.todo = w.todo
  PROVE  Held(v) = Held(w)
BY DEF Held

\* A call that has made its files holds all of them.
LEMMA HeldWorking ==
  ASSUME kind \in KindNames, NEW w \in CallerStates, Placed(w), w.pc \in Working
  PROVE  /\ Held(w) = Needs(w.root, w.phase)
         /\ <<w.root, w.phase, "ledger">> \in Held(w) /\ ScopeFile(w.root, w.phase) \in Held(w)
         /\ ClaimFile(w.root, w.phase) \in Held(w)
         /\ kind = "continuation" => <<"source", 1, "claim">> \in Held(w)
<1>1. w.todo = <<>> /\ w.pc \notin Ended
  BY DEF Placed, Working, InCell, Ended
<1>2. Held(w) = Needs(w.root, w.phase)
  BY <1>1, NoSteps DEF Held
<1>3. Layout(w.root, w.phase) /\ Layout(w.root, 1)
  BY FilesLaidOut DEF CallerStates, Phases
<1>4. w.phase \in {1, 2}
  BY DEF CallerStates, Phases
<1> QED  BY <1>2, <1>3, <1>4 DEF Layout, Needs, ScopeFile, ClaimFile, ScopePhase

\* What a step does to the files a call holds.
Advance(w, v) ==
  /\ files \subseteq files'
  /\ Held(v) \subseteq Held(w) \cup (files' \ files)
  /\ v.pc \notin Ended => Held(w) \subseteq Held(v)

LEMMA HeldNext ==
  ASSUME kind \in KindNames, NEW w \in CallerStates, NEW v \in CallerStates, Placed(w), Acts(w, v)
  PROVE  Advance(w, v)
<1>1. CASE CalmStep(w, v)
  BY <1>1, HeldInPlace DEF CalmStep, Kept, Stays, Working, InCell, Ended, Advance, DiskSame
<1>2. CASE QuitStep(w, v)
  BY <1>2 DEF QuitStep, Left, Advance, Held, DiskSame, Ended
<1>3. CASE BeginStep(w, v)
  <2>1. Held(w) = {}
    BY <1>3 DEF BeginStep, Held, Ended
  <2>2. ~(TwoPhase /\ v.phase = 2)
    BY <1>3 DEF BeginStep, TwoPhase
  <2>3. Held(v) = {}
    BY <1>3, <2>2 DEF BeginStep, Held, Needs
  <2> QED  BY <1>3, <2>1, <2>3 DEF BeginStep, Advance, DiskSame
<1>4. ASSUME Took(w, v), NEW M, \A f \in Makes(w.todo) : Head(w.todo) # <<"make", f>> \/ f \in M
      PROVE  Held(v) \subseteq Held(w) \cup M /\ Held(w) \subseteq Held(v)
  <2>1. w.todo \in Seq(Steps) /\ w.todo # <<>>
    BY <1>4 DEF Took, CallerStates
  <2>2. /\ Makes(Tail(w.todo)) \subseteq Makes(w.todo)
        /\ \A f \in Makes(w.todo) : Head(w.todo) # <<"make", f>> => f \in Makes(Tail(w.todo))
    BY <2>1, MakesTail
  <2>3. Held(w) = Needs(w.root, w.phase) \ Makes(w.todo) /\ Held(v) = Needs(w.root, w.phase) \ Makes(Tail(w.todo))
    BY <1>4 DEF Took, Stays, Held, Ended
  <2> QED  BY <1>4, <2>2, <2>3
<1>5. CASE KeepStep(w, v)
  <2>1. Took(w, v) /\ \A f \in Makes(w.todo) : Head(w.todo) # <<"make", f>> \/ f \in {}
    BY <1>5 DEF KeepStep
  <2>2. Held(v) \subseteq Held(w) \cup {} /\ Held(w) \subseteq Held(v)
    BY <1>4, <2>1
  <2> QED  BY <1>5, <2>2 DEF KeepStep, Advance
<1>6. ASSUME NEW f \in FileNames, MakeStep(w, v, f)
      PROVE  Advance(w, v)
  <2>1. Took(w, v) /\ \A g \in Makes(w.todo) : Head(w.todo) # <<"make", g>> \/ g \in {f}
    BY <1>6 DEF MakeStep
  <2>2. Held(v) \subseteq Held(w) \cup {f} /\ Held(w) \subseteq Held(v)
    BY <1>4, <2>1
  <2> QED  BY <1>6, <2>2 DEF MakeStep, Advance
<1>7. CASE AdmitStep(w, v) \/ PostStep(w, v)
  <2>1. Held(v) = Held(w)
    BY <1>7, HeldInPlace DEF AdmitStep, PostStep, Kept, Stays, Ended
  <2> QED  BY <1>7, <2>1 DEF AdmitStep, PostStep, Advance
<1>8. CASE SettleStep(w, v) \/ AccountStep(w, v)
  <2>1. Held(v) = Held(w)
    BY <1>8, HeldInPlace DEF SettleStep, AccountStep, Stays, Ended
  <2> QED  BY <1>8, <2>1 DEF SettleStep, AccountStep, Advance
<1>9. CASE SummaryStep(w, v)
  <2>1. Left(v) => Held(v) = {} /\ v.pc \in Ended
    BY DEF Left, Held, Ended
  <2>2. Went(w, v, "judge") => Held(v) = Held(w)
    BY <1>9, HeldInPlace DEF SummaryStep, Went, Kept, Stays, Ended
  <2> QED  BY <1>9, <2>1, <2>2 DEF SummaryStep, Advance
<1>10. CASE JudgeStep(w, v)
  <2>1. w.pc = "judge" /\ w.todo = <<>> /\ w.phase = 1 /\ TwoPhase /\ w.root \in Roots
    BY <1>10 DEF JudgeStep, Placed, Working, CallerStates
  <2>2. Held(w) = Makes(FilesOf(w.root, 1))
    BY <2>1, NoSteps DEF Held, Needs, Ended
  <2>3. Layout(w.root, 1)
    BY <2>1, FilesLaidOut DEF Phases
  <2>4. Held(v) = Makes(FilesOf(w.root, 1))
    BY <1>10, <2>1, <2>3 DEF JudgeStep, Held, Needs, Ended, Layout
  <2> QED  BY <1>10, <2>2, <2>4 DEF JudgeStep, Advance, DiskSame
<1> QED  BY <1>1, <1>2, <1>3, <1>5, <1>6, <1>7, <1>8, <1>9, <1>10 DEF Acts

LEMMA OwnedNext ==
  ASSUME Owned, caller \in [Callers -> CallerStates], kind' = kind,
         NEW c \in Callers, NEW w, NEW v \in CallerStates, Step(c, w, v), Advance(w, v)
  PROVE  Owned'
<1>1. /\ w = caller[c] /\ caller'[c] = v /\ \A d \in Callers : d # c => caller'[d] = caller[d]
  BY StepFrame
<1>2. \A x : Held(x)' = Held(x)
  BY KindFixed
<1>3. /\ Held(caller[c])' \subseteq Held(w) \cup (files' \ files) /\ files \subseteq files'
      /\ \A d \in Callers : d # c => Held(caller[d])' = Held(caller[d])
  BY <1>1, <1>2 DEF Advance
<1>4. /\ Held(w) \subseteq files
      /\ \A d \in Callers : d # c => Held(caller[d]) \subseteq files /\ Held(w) \cap Held(caller[d]) = {}
  BY <1>1 DEF Owned
<1>5. ASSUME NEW d \in Callers
      PROVE  Held(caller[d])' \subseteq files'
  BY <1>3, <1>4
<1>6. ASSUME NEW d \in Callers, NEW e \in Callers, d # e
      PROVE  (Held(caller[d]) \cap Held(caller[e]))' = {}
  <2>1. CASE d = c
    BY <1>3, <1>4, <1>6, <2>1
  <2>2. CASE e = c
    BY <1>3, <1>4, <1>6, <2>2
  <2>3. CASE d # c /\ e # c
    BY <1>3, <1>6, <2>3 DEF Owned
  <2> QED  BY <2>1, <2>2, <2>3
<1> QED  BY <1>5, <1>6 DEF Owned

LEMMA BaseInit ==
  ASSUME StageInit
  PROVE  BaseInv
<1>1. kind \in KindNames /\ PlanTyped
  BY StudyAssumption DEF StageInit, KindNames, PlanTyped
<1>2. DiskTyped
  BY StudyConstants DEF StageInit, DiskTyped, Statuses
<1>3. caller \in [Callers -> CallerStates] /\ \A c \in Callers : caller[c] = Idle
  BY IdleTyped DEF StageInit
<1>4. Placed(Idle) /\ Held(Idle) = {}
  BY IdleTyped, Home, StudyConstants DEF Placed, Held, Ended, Working, InCell
<1> QED  BY <1>1, <1>2, <1>3, <1>4 DEF BaseInv, StageTyped, PlacedAll, Owned

\* A process's step, seen from the invariant: who moves, from what to what.
Turn(c, w, v) ==
  /\ c \in Callers /\ w \in CallerStates /\ v \in CallerStates
  /\ w = caller[c] /\ v = caller'[c] /\ \A d \in Callers : d # c => caller'[d] = caller[d]
  /\ kind' = kind /\ Placed(w) /\ Placed(v) /\ Acts(w, v) /\ Advance(w, v)

LEMMA BaseNext ==
  ASSUME BaseInv, [StageNext]_stageVars
  PROVE  BaseInv' /\ (Quiet \/ \E c, w, v : Turn(c, w, v))
<1>1. PlanTyped' /\ kind \in KindNames /\ caller \in [Callers -> CallerStates] /\ DiskTyped
  BY PlanKept DEF BaseInv, StageTyped
<1>2. CASE Quiet
  <2>1. DiskTyped' /\ Owned' /\ PlacedAll' /\ kind' = kind
    <3>1. kind' = kind /\ caller' = caller /\ files' = files
      BY <1>2 DEF Quiet, DiskSame
    <3>2. (\A x : Held(x)' = Held(x)) /\ \A x : Placed(x)' = Placed(x)
      BY <3>1, KindFixed, PlacedFixed
    <3>3. DiskTyped'
      BY <1>1, <1>2 DEF Quiet, DiskSame, DiskTyped
    <3>4. Owned'
      BY <3>1, <3>2 DEF Owned, BaseInv
    <3>5. PlacedAll'
      BY <3>1, <3>2 DEF PlacedAll, BaseInv
    <3> QED  BY <3>1, <3>3, <3>4, <3>5
  <2> QED  BY <1>1, <1>2, <2>1 DEF BaseInv, StageTyped, Quiet
<1>3. CASE ~Quiet
  <2>1. PICK c \in Callers : Move(c)
    BY <1>3, StageMoves
  <2>2. PICK w \in CallerStates, v \in CallerStates : Step(c, w, v) /\ Acts(w, v)
    BY <2>1 DEF Move
  <2>3. /\ caller' \in [Callers -> CallerStates] /\ w = caller[c] /\ caller'[c] = v
        /\ \A d \in Callers : d # c => caller'[d] = caller[d]
    BY <1>1, <2>2, StepFrame
  <2>4. kind' = kind /\ Placed(w)
    BY <2>2, <2>3, ActsFrame, PlacedNow
  <2>5. Placed(v) /\ Advance(w, v) /\ DiskTyped'
    BY <1>1, <2>2, <2>4, PlacedNext, HeldNext, DiskKept
  <2>6. Owned'
    BY <1>1, <2>2, <2>4, <2>5, OwnedNext DEF BaseInv
  <2>7. PlacedAll'
    <3>1. \A x : Placed(x)' = Placed(x)
      BY <2>4, PlacedFixed
    <3>2. \A d \in Callers : Placed(caller[d])'
      BY <2>3, <2>5, <3>1 DEF BaseInv, PlacedAll
    <3> QED  BY <3>2 DEF PlacedAll
  <2>8. Turn(c, w, v)
    BY <2>2, <2>3, <2>4, <2>5 DEF Turn
  <2> QED  BY <1>1, <2>3, <2>4, <2>5, <2>6, <2>7, <2>8 DEF BaseInv, StageTyped
<1> QED  BY <1>2, <1>3

-----------------------------------------------------------------------------
(* No request is sent twice.                                                *)

\* The file of an experiment that only one call ever creates.
Token(p) == IF kind = "continuation" THEN <<"source", 1, "claim">> ELSE <<Idle.root, p, "ledger">>
\* The requests a call has not reached yet.
Ahead(w, i, k) ==
  \/ i > w.cell
  \/ i = w.cell /\ (k > w.decision \/ (k = w.decision /\ w.pc \in Unposted))
NothingAhead(w) ==
  Token(w.phase) \in Held(w) =>
    \A i \in Cell, k \in 1..Decisions : Ahead(w, i, k) => sent[<<w.phase, i, k>>] = 0
SentInv ==
  /\ \A p \in Phases, i \in Cell, k \in 1..Decisions :
       sent[<<p, i, k>>] <= 1 /\ (Token(p) \notin files => sent[<<p, i, k>>] = 0)
  /\ \A c \in Callers : NothingAhead(caller[c])

LEMMA TokenHeld ==
  ASSUME kind \in KindNames, NEW w \in CallerStates, Placed(w), w.pc \in Working
  PROVE  Token(w.phase) \in Held(w)
<1>1. kind = "continuation" \/ w.root = Idle.root
  BY DEF Placed, Controls
<1> QED  BY <1>1, HeldWorking DEF Token

LEMMA AheadShrinks ==
  ASSUME NEW w \in CallerStates, NEW v \in CallerStates, Placed(w),
         \/ CalmStep(w, v) \/ Took(w, v) \/ AdmitStep(w, v) \/ SettleStep(w, v)
         \/ AccountStep(w, v) \/ (SummaryStep(w, v) /\ ~Left(v)),
         NEW i \in Cell, NEW k \in 1..Decisions, Ahead(v, i, k)
  PROVE  Ahead(w, i, k) /\ v.phase = w.phase /\ sent' = sent
<1>1. w.cell \in Nat /\ w.decision \in Nat /\ i \in Nat /\ k \in Nat
  BY StudyConstants DEF CallerStates, Cell
<1>2. CASE CalmStep(w, v)
  BY <1>2 DEF CalmStep, DiskSame, Kept, Stays, Ahead
<1>3. CASE Took(w, v)
  BY <1>3 DEF Took, Stays, Ahead
<1>4. CASE AdmitStep(w, v)
  BY <1>4 DEF AdmitStep, Kept, Stays, Ahead, Unposted
<1>5. CASE SettleStep(w, v)
  BY <1>1, <1>5 DEF SettleStep, Ahead, Unposted
<1>6. CASE AccountStep(w, v)
  BY <1>1, <1>6 DEF AccountStep, Stays, Ahead, Unposted
<1>7. CASE SummaryStep(w, v) /\ ~Left(v)
  BY <1>7 DEF SummaryStep, Went, Kept, Stays, Ahead, Unposted
<1> QED  BY <1>2, <1>3, <1>4, <1>5, <1>6, <1>7

LEMMA TokenFixed ==
  ASSUME kind' = kind
  PROVE  \A p : Token(p)' = Token(p)
<1>1. Idle' = Idle
  BY DEF Idle
<1> QED  BY <1>1 DEF Token

LEMMA SentInit ==
  ASSUME StageInit
  PROVE  SentInv
<1>1. \A p \in Phases, i \in Cell, k \in 1..Decisions : sent[<<p, i, k>>] = 0
  BY DEF StageInit
<1>2. \A c \in Callers : NothingAhead(caller[c])
  BY <1>1, IdleTyped DEF StageInit, NothingAhead, Held, Ended
<1> QED  BY <1>1, <1>2 DEF SentInv

LEMMA SentNext ==
  ASSUME BaseInv, SentInv, NEW c, NEW w, NEW v, Turn(c, w, v)
  PROVE  SentInv'
<1>1. /\ c \in Callers /\ w \in CallerStates /\ v \in CallerStates
      /\ w = caller[c] /\ v = caller'[c] /\ \A d \in Callers : d # c => caller'[d] = caller[d]
      /\ kind' = kind /\ Placed(w) /\ Placed(v) /\ Acts(w, v)
      /\ files \subseteq files' /\ Held(v) \subseteq Held(w) \cup (files' \ files)
      /\ kind \in KindNames /\ DiskTyped /\ caller \in [Callers -> CallerStates]
  BY DEF Turn, Advance, BaseInv, StageTyped
<1>2. (\A x : Held(x)' = Held(x)) /\ \A p : Token(p)' = Token(p)
  BY <1>1, KindFixed, TokenFixed
<1>3. /\ NothingAhead(w) /\ \A d \in Callers : NothingAhead(caller[d])
      /\ \A p \in Phases, i \in Cell, k \in 1..Decisions :
           sent[<<p, i, k>>] \in Nat /\ sent[<<p, i, k>>] <= 1 /\ (Token(p) \notin files => sent[<<p, i, k>>] = 0)
  BY <1>1 DEF SentInv, DiskTyped
<1>4. w.phase \in Phases /\ v.phase \in Phases
  BY <1>1 DEF CallerStates
<1>5. ASSUME sent' = sent, \/ Held(v) = {}
                           \/ Token(v.phase) \notin Held(v)
                           \/ \A i \in Cell, k \in 1..Decisions : Ahead(v, i, k) => Ahead(w, i, k) /\ v.phase = w.phase
      PROVE  SentInv'
  <2>1. \A p \in Phases, i \in Cell, k \in 1..Decisions :
          sent'[<<p, i, k>>] <= 1 /\ (Token(p)' \notin files' => sent'[<<p, i, k>>] = 0)
    BY <1>1, <1>2, <1>3, <1>5
  <2>2. NothingAhead(v)'
    <3>1. SUFFICES ASSUME Token(v.phase) \in Held(v), NEW i \in Cell, NEW k \in 1..Decisions, Ahead(v, i, k)
                   PROVE  sent[<<v.phase, i, k>>] = 0
      BY <1>2, <1>5 DEF NothingAhead, Ahead
    <3>2. Ahead(w, i, k) /\ v.phase = w.phase
      BY <1>5, <3>1
    <3>3. CASE Token(v.phase) \in Held(w)
      BY <1>3, <3>1, <3>2, <3>3 DEF NothingAhead
    <3>4. CASE Token(v.phase) \notin Held(w)
      BY <1>1, <1>3, <1>4, <3>1, <3>4
    <3> QED  BY <3>3, <3>4
  <2>3. ASSUME NEW d \in Callers, d # c
        PROVE  NothingAhead(caller[d])'
    <3>1. PICK x : x = caller[d] /\ x = caller'[d] /\ NothingAhead(x)
      BY <1>1, <1>3, <2>3
    <3>2. NothingAhead(x)'
      BY <1>2, <1>5, <3>1 DEF NothingAhead, Ahead
    <3> QED  BY <3>1, <3>2
  <2>4. \A d \in Callers : NothingAhead(caller[d])'
    BY <1>1, <2>2, <2>3
  <2> QED  BY <2>1, <2>4 DEF SentInv
<1>6. CASE \/ CalmStep(w, v) \/ KeepStep(w, v) \/ (\E f \in FileNames : MakeStep(w, v, f)) \/ AdmitStep(w, v)
           \/ SettleStep(w, v) \/ AccountStep(w, v) \/ (SummaryStep(w, v) /\ ~Left(v))
  <2>1. \/ CalmStep(w, v) \/ Took(w, v) \/ AdmitStep(w, v) \/ SettleStep(w, v)
        \/ AccountStep(w, v) \/ (SummaryStep(w, v) /\ ~Left(v))
    BY <1>6 DEF KeepStep, MakeStep
  <2>2. \A i \in Cell, k \in 1..Decisions : Ahead(v, i, k) => Ahead(w, i, k) /\ v.phase = w.phase
    BY <1>1, <2>1, AheadShrinks
  <2>3. sent' = sent
    BY <2>1 DEF CalmStep, DiskSame, Took, AdmitStep, SettleStep, AccountStep, SummaryStep
  <2> QED  BY <1>5, <2>2, <2>3
<1>7. CASE QuitStep(w, v) \/ BeginStep(w, v) \/ (SummaryStep(w, v) /\ Left(v))
  <2>1. Left(v) => Held(v) = {}
    BY DEF Left, Held, Ended
  <2>2. BeginStep(w, v) => Held(w) = {} /\ files' = files
    BY DEF BeginStep, DiskSame, Held, Ended
  <2>3. Held(v) = {}
    BY <1>1, <1>7, <2>1, <2>2 DEF QuitStep
  <2>4. sent' = sent
    BY <1>7 DEF QuitStep, BeginStep, SummaryStep, DiskSame
  <2> QED  BY <1>5, <2>3, <2>4
<1>8. CASE JudgeStep(w, v)
  <2>1. w.phase = 1 /\ TwoPhase /\ w.root \in Roots /\ w.pc = "judge" /\ w.root = Idle.root /\ kind # "continuation"
    BY <1>1, <1>8 DEF JudgeStep, Placed, CallerStates, Controls, TwoPhase
  <2>2. Held(w) = Makes(FilesOf(w.root, 1))
    BY <1>1, <2>1, HeldWorking DEF Needs, Working
  <2>3. Layout(w.root, 2)
    BY <1>1, <2>1, FilesLaidOut DEF Phases
  <2>4. Token(2) = <<w.root, 2, "ledger">> /\ Token(2) \notin Held(w)
    BY <2>1, <2>2, <2>3 DEF Token, Layout
  <2>5. Token(v.phase) \notin Held(v) /\ sent' = sent
    BY <1>1, <1>8, <2>4 DEF JudgeStep, DiskSame
  <2> QED  BY <1>5, <2>5
<1>9. CASE PostStep(w, v)
  <2>1. /\ w.pc = "wire" /\ v.pc = "answer" /\ v.cell = w.cell /\ v.decision = w.decision /\ v.phase = w.phase
        /\ sent' = [sent EXCEPT ![<<w.phase, w.cell, w.decision>>] = @ + 1] /\ files' = files
        /\ w.cell \in Cell /\ w.decision \in 1..Decisions
    BY <1>1, <1>9 DEF PostStep, Kept, Stays, Placed, InCell
  <2>2. Token(w.phase) \in Held(w) /\ Token(w.phase) \in files
    BY <1>1, <2>1, TokenHeld DEF Working, InCell, BaseInv, Owned
  <2>3. sent[<<w.phase, w.cell, w.decision>>] = 0
    BY <1>3, <2>1, <2>2 DEF NothingAhead, Ahead, Unposted
  <2>4. \A p \in Phases, i \in Cell, k \in 1..Decisions :
          sent'[<<p, i, k>>] = IF p = w.phase /\ i = w.cell /\ k = w.decision THEN 1 ELSE sent[<<p, i, k>>]
    <3>1. sent \in [Phases \X Cell \X (1..Decisions) -> Nat]
      BY <1>1 DEF DiskTyped
    <3>2. PICK t \in Phases \X Cell \X (1..Decisions) : t = <<w.phase, w.cell, w.decision>>
      BY <1>4, <2>1
    <3>3. sent[t] = 0 /\ sent' = [sent EXCEPT ![t] = @ + 1]
      BY <2>1, <2>3, <3>2
    <3>4. \A u \in Phases \X Cell \X (1..Decisions) : sent'[u] = IF u = t THEN 1 ELSE sent[u]
      BY <3>1, <3>3
    <3> QED  BY <3>2, <3>4
  <2>5. \A p \in Phases, i \in Cell, k \in 1..Decisions :
          sent'[<<p, i, k>>] <= 1 /\ (Token(p)' \notin files' => sent'[<<p, i, k>>] = 0)
    <3>1. SUFFICES ASSUME NEW p \in Phases, NEW i \in Cell, NEW k \in 1..Decisions
                   PROVE  sent'[<<p, i, k>>] <= 1 /\ (Token(p) \notin files => sent'[<<p, i, k>>] = 0)
      BY <1>2, <2>1
    <3>2. /\ sent[<<p, i, k>>] <= 1 /\ (Token(p) \notin files => sent[<<p, i, k>>] = 0)
          /\ sent'[<<p, i, k>>] = IF p = w.phase /\ i = w.cell /\ k = w.decision THEN 1 ELSE sent[<<p, i, k>>]
      BY <1>3, <2>4
    <3> QED  BY <2>2, <3>2
  <2>6. NothingAhead(v)'
    <3>1. SUFFICES ASSUME NEW i \in Cell, NEW k \in 1..Decisions, Ahead(v, i, k)
                   PROVE  sent'[<<v.phase, i, k>>] = 0
      BY DEF NothingAhead, Ahead
    <3>2. Ahead(w, i, k) /\ ~(i = w.cell /\ k = w.decision)
      BY <2>1, <3>1, StudyConstants DEF Ahead, Unposted, Cell
    <3> QED  BY <1>3, <1>4, <2>1, <2>2, <2>4, <3>1, <3>2 DEF NothingAhead
  <2>7. ASSUME NEW d \in Callers, d # c
        PROVE  NothingAhead(caller[d])'
    <3>1. PICK x : x = caller[d] /\ x = caller'[d] /\ NothingAhead(x) /\ x \in CallerStates
      BY <1>1, <1>3, <2>7
    <3>2. SUFFICES ASSUME Token(x.phase) \in Held(x), NEW i \in Cell, NEW k \in 1..Decisions, Ahead(x, i, k)
                   PROVE  sent'[<<x.phase, i, k>>] = 0
      BY <1>2, <3>1 DEF NothingAhead, Ahead
    <3>3. Held(x) \cap Held(w) = {}
      BY <1>1, <2>7, <3>1 DEF BaseInv, Owned
    <3>4. x.phase # w.phase
      BY <2>2, <3>2, <3>3
    <3>5. x.phase \in Phases /\ sent[<<x.phase, i, k>>] = 0
      BY <3>1, <3>2 DEF NothingAhead, CallerStates
    <3> QED  BY <2>4, <3>4, <3>5
  <2>8. \A d \in Callers : NothingAhead(caller[d])'
    BY <1>1, <2>6, <2>7
  <2> QED  BY <2>5, <2>8 DEF SentInv
<1> QED  BY <1>1, <1>6, <1>7, <1>8, <1>9 DEF Acts

-----------------------------------------------------------------------------
(* The books: what is on the ledger of a call that may go on.               *)

\* Nothing is recorded for a phase before the call that holds its ledger made it.
Recorded ==
  \A s \in Slots :
    /\ ScopeFile(s[1], s[2]) \notin files => ledger[s] = <<>>
    /\ LedgerFile(s) \notin files => summary[s] = "none" /\ \A i \in Cell : results[s][i] = "none"

\* The requests that share one budget and one fingerprint with a call.
InScope(w, s) == s[1] = w.root /\ (TwoPhase \/ s[2] = w.phase)
Good(row, print) == row.state = "settled" /\ row.print = print /\ print # NoPrint
AllGood(s, print) == \A i \in DOMAIN ledger[s] : Good(ledger[s][i], print)
OthersGood(w, s) ==
  \A i \in DOMAIN ledger[s] : (s # Place(w) \/ i # Len(ledger[s])) => Good(ledger[s][i], w.print)
OneReserved(w) ==
  /\ ledger[Place(w)] # <<>> /\ ledger[Place(w)][Len(ledger[Place(w)])].state = "reserved"
  /\ \A s \in Slots : InScope(w, s) => OthersGood(w, s)
Books(w) ==
  ScopeFile(w.root, w.phase) \in Held(w) =>
    /\ Clear(w) => \A s \in Slots : InScope(w, s) => AllGood(s, w.print)
    /\ w.pc \in {"wire", "answer"} => OneReserved(w)
    /\ w.pc = "wire" => Occupied(Place(w)) <= MaxUsd
BooksAll == \A c \in Callers : Books(caller[c])

LEMMA ScopeShared ==
  ASSUME NEW w \in CallerStates, NEW s \in Slots, InScope(w, s)
  PROVE  ScopeFile(s[1], s[2]) = ScopeFile(w.root, w.phase)
BY DEF InScope, ScopeFile, ScopePhase

LEMMA PlaceInScope ==
  ASSUME NEW w \in CallerStates
  PROVE  Place(w) \in Slots /\ InScope(w, Place(w)) /\ Place(w)[1] = w.root /\ Place(w)[2] = w.phase
BY DEF InScope, Place, Slots, CallerStates

\* A step changes what is recorded only where the process stands, and holds its ledger.
LEMMA Writes ==
  ASSUME NEW w \in CallerStates, NEW v \in CallerStates, Acts(w, v), DiskTyped
  PROVE  /\ \A s \in Slots : s # Place(w) => ledger'[s] = ledger[s] /\ results'[s] = results[s] /\ summary'[s] = summary[s]
         /\ w.pc \notin {"admit", "answer"} => ledger' = ledger
         /\ w.pc # "result" => results' = results
         /\ w.pc # "summary" => summary' = summary
<1>1. CASE DiskSame
  BY <1>1 DEF DiskSame
<1>2. CASE Took(w, v)
  BY <1>2 DEF Took
<1>3. CASE AdmitStep(w, v)
  <2>1. PICK x : ledger' = [ledger EXCEPT ![Place(w)] = x]
    BY <1>3 DEF AdmitStep
  <2> QED  BY <1>3, <2>1 DEF AdmitStep, DiskTyped
<1>4. CASE PostStep(w, v)
  BY <1>4 DEF PostStep
<1>5. CASE SettleStep(w, v)
  <2>1. PICK x : ledger' = [ledger EXCEPT ![Place(w)] = x] \/ ledger' = ledger
    BY <1>5 DEF SettleStep
  <2> QED  BY <1>5, <2>1 DEF SettleStep, DiskTyped
<1>6. CASE AccountStep(w, v)
  <2>1. PICK x : results' = [results EXCEPT ![Place(w)] = x] \/ results' = results
    BY <1>6 DEF AccountStep
  <2> QED  BY <1>6, <2>1 DEF AccountStep, DiskTyped
<1>7. CASE SummaryStep(w, v)
  BY <1>7 DEF SummaryStep, DiskTyped
<1> QED  BY <1>1, <1>2, <1>3, <1>4, <1>5, <1>6, <1>7
         DEF Acts, CalmStep, QuitStep, BeginStep, JudgeStep, KeepStep, MakeStep

LEMMA TurnFacts ==
  ASSUME BaseInv, NEW c, NEW w, NEW v, Turn(c, w, v)
  PROVE  /\ c \in Callers /\ w \in CallerStates /\ v \in CallerStates
         /\ w = caller[c] /\ v = caller'[c] /\ \A d \in Callers : d # c => caller'[d] = caller[d]
         /\ kind' = kind /\ kind \in KindNames /\ Placed(w) /\ Placed(v) /\ Acts(w, v)
         /\ files \subseteq files' /\ Held(v) \subseteq Held(w) \cup (files' \ files) /\ Held(w) \subseteq files
         /\ \A d \in Callers : caller[d] \in CallerStates /\ Placed(caller[d]) /\ Held(caller[d]) \subseteq files
                               /\ (d # c => Held(caller[d]) \cap Held(w) = {})
         /\ DiskTyped /\ DiskTyped'
         /\ \A x : Held(x)' = Held(x)
<1>1. Turn(c, w, v) /\ Advance(w, v) /\ DiskTyped /\ Owned /\ PlacedAll /\ kind \in KindNames
      /\ caller \in [Callers -> CallerStates]
  BY DEF Turn, BaseInv, StageTyped
<1>2. /\ c \in Callers /\ w \in CallerStates /\ v \in CallerStates
      /\ w = caller[c] /\ v = caller'[c] /\ \A d \in Callers : d # c => caller'[d] = caller[d]
      /\ kind' = kind /\ Placed(w) /\ Placed(v) /\ Acts(w, v)
  BY <1>1 DEF Turn
<1>3. DiskTyped' /\ \A x : Held(x)' = Held(x)
  BY <1>1, <1>2, DiskKept, KindFixed
<1>4. files \subseteq files' /\ Held(v) \subseteq Held(w) \cup (files' \ files) /\ Held(w) \subseteq files
  BY <1>1, <1>2 DEF Advance, Owned
<1>5. ASSUME NEW d \in Callers
      PROVE  /\ caller[d] \in CallerStates /\ Placed(caller[d]) /\ Held(caller[d]) \subseteq files
             /\ d # c => Held(caller[d]) \cap Held(w) = {}
  BY <1>1, <1>2 DEF Owned, PlacedAll
<1> QED  BY <1>1, <1>2, <1>3, <1>4, <1>5

LEMMA RecordedNext ==
  ASSUME BaseInv, Recorded, NEW c, NEW w, NEW v, Turn(c, w, v)
  PROVE  Recorded'
<1>1. /\ w \in CallerStates /\ v \in CallerStates /\ kind' = kind /\ kind \in KindNames /\ Placed(w) /\ Acts(w, v)
      /\ files \subseteq files' /\ Held(w) \subseteq files /\ DiskTyped
  BY TurnFacts
<1>2. w.pc \in Working =>
        ScopeFile(w.root, w.phase) \in files /\ LedgerFile(Place(w)) \in files
  BY <1>1, HeldWorking DEF LedgerFile, Place
<1>3. \A r, p : ScopeFile(r, p)' = ScopeFile(r, p)
  BY <1>1 DEF ScopeFile, ScopePhase, TwoPhase
<1>4. ASSUME NEW s \in Slots
      PROVE  /\ ScopeFile(s[1], s[2]) \notin files' => ledger'[s] = <<>>
             /\ LedgerFile(s) \notin files' => summary'[s] = "none" /\ \A i \in Cell : results'[s][i] = "none"
  <2>1. CASE s = Place(w) /\ w.pc \in Working
    <3>1. ScopeFile(s[1], s[2]) = ScopeFile(w.root, w.phase)
      BY <1>1, <2>1, PlaceInScope
    <3> QED  BY <1>1, <1>2, <2>1, <3>1
  <2>2. CASE s # Place(w) \/ w.pc \notin Working
    <3>1. ledger'[s] = ledger[s] /\ results'[s] = results[s] /\ summary'[s] = summary[s]
      BY <1>1, <2>2, Writes DEF Working, InCell
    <3> QED  BY <1>1, <3>1 DEF Recorded
  <2> QED  BY <2>1, <2>2
<1> QED  BY <1>3, <1>4 DEF Recorded, LedgerFile

LEMMA ScopeOthers ==
  ASSUME BaseInv, NEW c, NEW w, NEW v, Turn(c, w, v), NEW d \in Callers, d # c,
         ScopeFile(caller[d].root, caller[d].phase) \in Held(caller[d]),
         NEW s \in Slots, InScope(caller[d], s)
  PROVE  ledger'[s] = ledger[s]
<1>1. PICK x : x = caller[d]
  OBVIOUS
<1>2. /\ w \in CallerStates /\ v \in CallerStates /\ x \in CallerStates /\ Placed(w) /\ Acts(w, v) /\ DiskTyped
      /\ Held(x) \cap Held(w) = {} /\ kind \in KindNames
  BY <1>1, TurnFacts
<1>3. CASE s = Place(w) /\ w.pc \in Working
  <2>1. ScopeFile(w.root, w.phase) \in Held(w)
    BY <1>2, <1>3, HeldWorking
  <2>2. ScopeFile(s[1], s[2]) = ScopeFile(x.root, x.phase)
    BY <1>1, <1>2, ScopeShared
  <2>3. ScopeFile(s[1], s[2]) = ScopeFile(w.root, w.phase)
    BY <1>2, <1>3, PlaceInScope
  <2> QED  BY <1>1, <1>2, <2>1, <2>2, <2>3
<1>4. CASE s # Place(w) \/ w.pc \notin Working
  BY <1>2, <1>4, Writes DEF Working, InCell
<1> QED  BY <1>3, <1>4

\* The budget of a phase depends on its ledger alone.
LEMMA OccupiedFixed ==
  ASSUME kind' = kind, NEW s, ledger'[s] = ledger[s]
  PROVE  Occupied(s)' = Occupied(s)
BY DEF Occupied, Carried

LEMMA BooksKept ==
  ASSUME kind' = kind, NEW x \in CallerStates, Books(x),
         ScopeFile(x.root, x.phase) \in Held(x) =>
           \A s \in Slots : InScope(x, s) => ledger'[s] = ledger[s]
  PROVE  Books(x)'
<1>1. /\ Held(x)' = Held(x) /\ ScopeFile(x.root, x.phase)' = ScopeFile(x.root, x.phase)
      /\ \A s : InScope(x, s)' = InScope(x, s)
  BY KindFixed DEF ScopeFile, ScopePhase, InScope
<1>2. CASE ScopeFile(x.root, x.phase) \notin Held(x)
  BY <1>1, <1>2 DEF Books
<1>3. CASE ScopeFile(x.root, x.phase) \in Held(x)
  <2>1. Place(x) \in Slots /\ InScope(x, Place(x))
    BY PlaceInScope
  <2>2. ledger'[Place(x)] = ledger[Place(x)] /\ Occupied(Place(x))' = Occupied(Place(x))
    BY <1>3, <2>1, OccupiedFixed
  <2>3. ASSUME NEW s \in Slots, InScope(x, s)
        PROVE  AllGood(s, x.print)' = AllGood(s, x.print) /\ OthersGood(x, s)' = OthersGood(x, s)
    BY <1>3, <2>3 DEF AllGood, OthersGood, Good, Place
  <2>4. Clear(x) => \A s \in Slots : InScope(x, s)' => AllGood(s, x.print)'
    BY <1>1, <1>3, <2>3 DEF Books
  <2>5. OneReserved(x) => OneReserved(x)'
    BY <1>1, <2>2, <2>3 DEF OneReserved, Place
  <2> QED  BY <1>3, <2>2, <2>4, <2>5 DEF Books, Clear, Place
<1> QED  BY <1>2, <1>3

LEMMA BooksMoved ==
  ASSUME NEW w \in CallerStates, NEW v \in CallerStates, Books(w),
         v.root = w.root, v.phase = w.phase, v.print = w.print,
         ScopeFile(w.root, w.phase) \in Held(v) => ScopeFile(w.root, w.phase) \in Held(w),
         Clear(v) => Clear(w), v.pc # "wire", v.pc = "answer" => w.pc = "wire"
  PROVE  Books(v)
<1>1. Place(v) = Place(w) /\ \A s : InScope(v, s) = InScope(w, s)
  BY DEF Place, InScope
<1>2. \A s : OthersGood(v, s) = OthersGood(w, s)
  BY <1>1 DEF OthersGood
<1>3. OneReserved(w) => OneReserved(v)
  BY <1>1, <1>2 DEF OneReserved
<1> QED  BY <1>1, <1>3 DEF Books

\* The sum of what a ledger holds, when it grows by one reservation.
LEMMA OccupiedGrows ==
  ASSUME DiskTyped, kind' = kind, NEW s \in Slots, NEW row \in LedgerRows,
         ledger'[s] = Append(ledger[s], row)
  PROVE  Occupied(s)' = Occupied(s) + row.held
<1> DEFINE n == Len(ledger[s])
           f == [i \in DOMAIN ledger[s] |-> ledger[s][i].held]
           g == [i \in DOMAIN ledger'[s] |-> ledger'[s][i].held]
<1>1. /\ n \in Nat /\ DOMAIN ledger[s] = 1..n /\ \A i \in 1..n : ledger[s][i] \in LedgerRows
      /\ DOMAIN ledger'[s] = 1..(n + 1) /\ ledger'[s][n + 1] = row
      /\ \A i \in 1..n : ledger'[s][i] = ledger[s][i]
  <2>1. ledger[s] \in Seq(LedgerRows)
    BY DEF DiskTyped
  <2> QED  BY <2>1
<1>2. IsFiniteSet(1..(n + 1)) /\ IsFiniteSet(1..n)
  BY <1>1, FS_Interval
<1>3. /\ f \in [1..n -> Nat] /\ \A i \in 1..n : f[i] = ledger[s][i].held
      /\ DOMAIN f = 1..n
  BY <1>1 DEF LedgerRows
<1>5. /\ g \in [1..(n + 1) -> Nat] /\ g[n + 1] = row.held /\ \A i \in 1..n : g[i] = ledger[s][i].held
  BY <1>1 DEF LedgerRows
<1>6. Occupied(s) = Carried + SumFunction(f) /\ Occupied(s)' = Carried + SumFunction(g)
  BY DEF Occupied, Carried
<1> HIDE DEF f, g
<1>7. SumFunction(g) = row.held + SumFunction(f)
  <2>1. n + 1 \in 1..(n + 1) /\ (1..(n + 1)) \ {n + 1} = 1..n
    BY <1>1
  <2>2. SumFunction(g) = g[n + 1] + SumFunction([y \in (1..(n + 1)) \ {n + 1} |-> g[y]])
    <3>1. PICK S : S = 1..(n + 1)
      OBVIOUS
    <3>2. PICK x : x = n + 1
      OBVIOUS
    <3>3. x \in S /\ IsFiniteSet(S) /\ g \in [S -> Nat]
      BY <1>2, <1>5, <2>1, <3>1, <3>2
    <3>4. SumFunction(g) = g[x] + SumFunction([y \in S \ {x} |-> g[y]])
      BY <3>3, SumRemove
    <3> QED  BY <3>1, <3>2, <3>4
  <2>3. [y \in (1..(n + 1)) \ {n + 1} |-> g[y]] = f
    BY <1>3, <1>5, <2>1
  <2> QED  BY <1>5, <2>2, <2>3
<1>8. SumFunction(f) \in Nat /\ Carried \in Nat /\ row.held \in Nat
  BY <1>2, <1>3, SumType, StudyConstants DEF Carried, LedgerRows
<1> QED  BY <1>6, <1>7, <1>8

LEMMA AdmitBooks ==
  ASSUME DiskTyped, kind' = kind, NEW w \in CallerStates, NEW v \in CallerStates, Books(w), AdmitStep(w, v),
         ScopeFile(w.root, w.phase) \in Held(w)
  PROVE  Books(v)'
<1>1. /\ w.pc = "admit" /\ v.pc = "wire" /\ v.root = w.root /\ v.phase = w.phase /\ v.print = w.print
      /\ Place(v) = Place(w)
  BY DEF AdmitStep, Kept, Stays, Place
<1>2. PICK row \in LedgerRows : /\ row.state = "reserved" /\ row.held = Reservation
                                /\ ledger' = [ledger EXCEPT ![Place(w)] = Append(@, row)]
  BY DEF AdmitStep
<1>3. Place(w) \in Slots /\ ledger[Place(w)] \in Seq(LedgerRows)
  BY PlaceInScope DEF DiskTyped
<1>4. /\ ledger'[Place(w)] = Append(ledger[Place(w)], row)
      /\ \A s \in Slots : s # Place(w) => ledger'[s] = ledger[s]
  BY <1>2, <1>3 DEF DiskTyped
<1>5. PICK n \in Nat : n = Len(ledger[Place(w)])
  BY <1>3
<1>6. /\ Len(ledger'[Place(w)]) = n + 1 /\ DOMAIN ledger'[Place(w)] = 1..(n + 1)
      /\ ledger'[Place(w)][n + 1] = row /\ DOMAIN ledger[Place(w)] = 1..n
      /\ \A i \in 1..n : ledger'[Place(w)][i] = ledger[Place(w)][i]
      /\ ledger'[Place(w)] # <<>>
  BY <1>3, <1>4, <1>5
<1>7. \A s \in Slots : InScope(w, s) => AllGood(s, w.print)
  BY <1>1 DEF Books, Clear
<1>8. ASSUME NEW s \in Slots, InScope(w, s)
      PROVE  OthersGood(v, s)'
  <2>1. AllGood(s, v.print)
    BY <1>1, <1>7, <1>8
  <2>2. CASE s # Place(w)
    BY <1>1, <1>4, <2>1, <2>2 DEF AllGood, OthersGood, Good
  <2>3. CASE s = Place(w)
    <3>1. SUFFICES ASSUME NEW i \in DOMAIN ledger'[s], i # Len(ledger'[s])
                   PROVE  Good(ledger'[s][i], v.print)
      BY <1>1, <2>3 DEF OthersGood, Good, Place
    <3>2. i \in 1..n
      BY <1>6, <2>3, <3>1
    <3> QED  BY <1>6, <2>1, <2>3, <3>2 DEF AllGood
  <2> QED  BY <2>2, <2>3
<1>9. \A s : InScope(v, s)' = InScope(w, s)
  BY <1>1, KindFixed DEF InScope
<1>10. OneReserved(v)'
  BY <1>1, <1>2, <1>6, <1>8, <1>9 DEF OneReserved, Place
<1>11. Occupied(Place(v))' <= MaxUsd
  <2>1. Occupied(Place(w))' = Occupied(Place(w)) + Reservation
    BY <1>2, <1>3, <1>4, OccupiedGrows
  <2>2. Occupied(Place(w)) + Reservation <= MaxUsd
    BY DEF AdmitStep, Afford
  <2> QED  BY <1>1, <2>1, <2>2
<1>12. ~Clear(v)
  BY <1>1 DEF Clear
<1> QED  BY <1>10, <1>11, <1>12 DEF Books, Clear, Place

LEMMA SettleBooks ==
  ASSUME DiskTyped, kind' = kind, NEW w \in CallerStates, NEW v \in CallerStates, Books(w), SettleStep(w, v),
         ScopeFile(w.root, w.phase) \in Held(w)
  PROVE  Books(v)'
<1>1. /\ w.pc = "answer" /\ v.pc \in {"admit", "result"} /\ v.root = w.root /\ v.phase = w.phase
      /\ Place(v) = Place(w)
  BY DEF SettleStep, Place
<1>2. OneReserved(w)
  BY <1>1 DEF Books
<1>3. PICK row \in LedgerRows :
        /\ ledger' = [ledger EXCEPT ![Place(w)] = [@ EXCEPT ![Len(ledger[Place(w)])] = row]]
        /\ Clear(v) => Answered(w, v, row)
  BY <1>2 DEF SettleStep, OneReserved
<1>4. Place(w) \in Slots /\ ledger[Place(w)] \in Seq(LedgerRows) /\ ledger[Place(w)] # <<>>
  BY <1>2, PlaceInScope DEF DiskTyped, OneReserved
<1>5. /\ ledger'[Place(w)] = [ledger[Place(w)] EXCEPT ![Len(ledger[Place(w)])] = row]
      /\ \A s \in Slots : s # Place(w) => ledger'[s] = ledger[s]
  BY <1>3, <1>4 DEF DiskTyped
<1>6. PICK n \in Nat : n = Len(ledger[Place(w)])
  BY <1>4
<1>7. /\ n # 0 /\ DOMAIN ledger'[Place(w)] = 1..n /\ DOMAIN ledger[Place(w)] = 1..n
      /\ ledger'[Place(w)][n] = row
      /\ \A i \in 1..n : i # n => ledger'[Place(w)][i] = ledger[Place(w)][i]
  BY <1>4, <1>5, <1>6
<1>8. SUFFICES ASSUME Clear(v)
               PROVE  \A s \in Slots : InScope(v, s)' => AllGood(s, v.print)'
  BY <1>1 DEF Books, Clear
<1>9. Answered(w, v, row)
  BY <1>3, <1>8
<1>10. ASSUME NEW s \in Slots, InScope(w, s)
       PROVE  AllGood(s, v.print)'
  <2>1. ASSUME NEW i \in DOMAIN ledger[s], s # Place(w) \/ i # Len(ledger[s])
        PROVE  Good(ledger[s][i], v.print)
    <3>1. Good(ledger[s][i], w.print)
      BY <1>2, <1>10, <2>1 DEF OneReserved, OthersGood
    <3> QED  BY <1>9, <3>1 DEF Good, Answered
  <2>2. CASE s # Place(w)
    BY <1>5, <2>1, <2>2 DEF AllGood, Good
  <2>3. CASE s = Place(w)
    <3>1. SUFFICES ASSUME NEW i \in 1..n
                   PROVE  Good(ledger'[s][i], v.print)
      BY <1>7, <2>3 DEF AllGood, Good
    <3>2. CASE i = n
      BY <1>7, <1>9, <2>3, <3>2 DEF Good, Answered
    <3>3. CASE i # n
      BY <1>6, <1>7, <2>1, <2>3, <3>1, <3>3
    <3> QED  BY <3>2, <3>3
  <2> QED  BY <2>2, <2>3
<1>11. \A s : InScope(v, s)' = InScope(w, s)
  BY <1>1, KindFixed DEF InScope
<1> QED  BY <1>10, <1>11

LEMMA BooksNext ==
  ASSUME BaseInv, Recorded, BooksAll, NEW c, NEW w, NEW v, Turn(c, w, v),
         JudgeStep(w, v) => ~w.stop
  PROVE  BooksAll'
<1>1. /\ c \in Callers /\ w \in CallerStates /\ v \in CallerStates
      /\ w = caller[c] /\ v = caller'[c] /\ \A d \in Callers : d # c => caller'[d] = caller[d]
      /\ kind' = kind /\ kind \in KindNames /\ Placed(w) /\ Placed(v) /\ Acts(w, v)
      /\ files \subseteq files' /\ Held(v) \subseteq Held(w) \cup (files' \ files) /\ DiskTyped
  BY TurnFacts
<1>2. Books(w)
  BY <1>1 DEF BooksAll
<1>3. ASSUME NEW d \in Callers, d # c
      PROVE  Books(caller[d])'
  <2>1. PICK x \in CallerStates : x = caller[d] /\ x = caller'[d] /\ Books(x)
    BY <1>1, <1>3, TurnFacts DEF BooksAll
  <2>2. ScopeFile(x.root, x.phase) \in Held(x) => \A s \in Slots : InScope(x, s) => ledger'[s] = ledger[s]
    BY <1>3, <2>1, ScopeOthers
  <2>3. Books(x)'
    BY <1>1, <2>1, <2>2, BooksKept
  <2> QED  BY <2>1, <2>3
<1>4. ASSUME ledger' = ledger, Books(v)
      PROVE  Books(v)'
  BY <1>1, <1>4, BooksKept
<1>5. CASE CalmStep(w, v)
  <2>1. Books(v)
    BY <1>1, <1>2, <1>5, BooksMoved DEF CalmStep, Kept, Stays, DiskSame, Working
  <2> QED  BY <1>1, <1>3, <1>4, <1>5, <2>1 DEF CalmStep, DiskSame, BooksAll
<1>6. CASE QuitStep(w, v) \/ BeginStep(w, v) \/ (SummaryStep(w, v) /\ Left(v))
  <2>1. Left(v) => Held(v) = {}
    BY DEF Left, Held, Ended
  <2>2. BeginStep(w, v) => Held(w) = {} /\ files' = files
    BY DEF BeginStep, DiskSame, Held, Ended
  <2>3. Held(v) = {} /\ ledger' = ledger
    BY <1>1, <1>6, <2>1, <2>2 DEF QuitStep, BeginStep, SummaryStep, DiskSame
  <2>4. Books(v)
    BY <2>3 DEF Books
  <2> QED  BY <1>1, <1>3, <1>4, <2>3, <2>4 DEF BooksAll
<1>7. CASE Took(w, v)
  <2>1. /\ v.pc = "open" /\ w.pc = "open" /\ v.root = w.root /\ v.phase = w.phase /\ v.print = w.print
        /\ ledger' = ledger
    BY <1>7 DEF Took, Stays
  <2>2. CASE ScopeFile(w.root, w.phase) \in Held(w) \/ ScopeFile(w.root, w.phase) \notin Held(v)
    <3>1. Books(v)
      BY <1>1, <1>2, <2>1, <2>2, BooksMoved DEF Clear
    <3> QED  BY <1>1, <1>3, <1>4, <2>1, <3>1 DEF BooksAll
  <2>3. CASE ScopeFile(w.root, w.phase) \notin Held(w) /\ ScopeFile(w.root, w.phase) \in Held(v)
    <3>1. ScopeFile(v.root, v.phase) \notin files
      BY <1>1, <2>1, <2>3
    <3>2. ASSUME NEW s \in Slots, InScope(v, s)
          PROVE  AllGood(s, v.print)
      <4>1. ScopeFile(s[1], s[2]) = ScopeFile(v.root, v.phase)
        BY <1>1, <3>2, ScopeShared
      <4>2. ledger[s] = <<>>
        BY <3>1, <4>1 DEF Recorded
      <4> QED  BY <4>2 DEF AllGood
    <3>3. Books(v)
      BY <2>1, <3>2 DEF Books
    <3> QED  BY <1>1, <1>3, <1>4, <2>1, <3>3 DEF BooksAll
  <2> QED  BY <2>2, <2>3
<1>8. CASE KeepStep(w, v) \/ \E f \in FileNames : MakeStep(w, v, f)
  BY <1>7, <1>8 DEF KeepStep, MakeStep
<1>9. CASE AdmitStep(w, v)
  <2>1. ScopeFile(w.root, w.phase) \in Held(w)
    BY <1>1, <1>9, HeldWorking DEF AdmitStep, Working, InCell
  <2>2. Books(v)'
    BY <1>1, <1>2, <1>9, <2>1, AdmitBooks
  <2> QED  BY <1>1, <1>3, <2>2 DEF BooksAll
<1>10. CASE SettleStep(w, v)
  <2>1. ScopeFile(w.root, w.phase) \in Held(w)
    BY <1>1, <1>10, HeldWorking DEF SettleStep, Working, InCell
  <2>2. Books(v)'
    BY <1>1, <1>2, <1>10, <2>1, SettleBooks
  <2> QED  BY <1>1, <1>3, <2>2 DEF BooksAll
<1>11. CASE PostStep(w, v) \/ AccountStep(w, v) \/ (SummaryStep(w, v) /\ ~Left(v))
  <2>1. /\ v.root = w.root /\ v.phase = w.phase /\ v.print = w.print /\ ledger' = ledger /\ files' = files
        /\ v.pc # "wire" /\ (v.pc = "answer" => w.pc = "wire") /\ (Clear(v) => Clear(w))
    BY <1>11 DEF PostStep, AccountStep, SummaryStep, Went, Kept, Stays, Clear
  <2>2. Books(v)
    BY <1>1, <1>2, <2>1, BooksMoved
  <2> QED  BY <1>1, <1>3, <1>4, <2>1, <2>2 DEF BooksAll
<1>12. CASE JudgeStep(w, v)
  <2>1. /\ TwoPhase /\ v.root = w.root /\ v.print = w.print /\ v.pc = "open" /\ w.pc = "judge" /\ ~w.stop
        /\ ledger' = ledger /\ files' = files
    BY <1>1, <1>12 DEF JudgeStep, Placed, DiskSame
  <2>2. ScopeFile(v.root, v.phase) = ScopeFile(w.root, w.phase) /\ \A s : InScope(v, s) = InScope(w, s)
    BY <2>1 DEF ScopeFile, ScopePhase, InScope
  <2>3. Books(v)
    BY <1>1, <1>2, <2>1, <2>2 DEF Books, Clear
  <2> QED  BY <1>1, <1>3, <1>4, <2>1, <2>3 DEF BooksAll
<1> QED  BY <1>1, <1>5, <1>6, <1>8, <1>9, <1>10, <1>11, <1>12 DEF Acts

-----------------------------------------------------------------------------
(* The traces an early stop leaves.                                         *)

\* A call that stopped early leaves a trace in the results of its phase, or says so
\* in its summary.
Unwritten(w, i) == i > w.cell \/ (i = w.cell /\ w.pc \in InCell \cup {"cell", "open"})
Traces(w) ==
  LedgerFile(Place(w)) \in Held(w) =>
    /\ \A i \in Cell : Unwritten(w, i) => results[Place(w)][i] = "none"
    /\ kind = "stage" /\ w.stop => \E i \in Cell : results[Place(w)][i] \notin Valid
    /\ kind = "value" /\ w.pc = "judge" /\ summary[Place(w)] = "open" => ~w.stop
TracesAll == \A c \in Callers : Traces(caller[c])

LEMMA LedgerHeld ==
  ASSUME kind \in KindNames, NEW w \in CallerStates, Placed(w), w.pc \in Working
  PROVE  LedgerFile(Place(w)) \in Held(w)
BY HeldWorking DEF LedgerFile, Place

LEMMA TracesFixed ==
  ASSUME kind' = kind, NEW x \in CallerStates, Traces(x),
         LedgerFile(Place(x)) \in Held(x) =>
           results'[Place(x)] = results[Place(x)] /\ summary'[Place(x)] = summary[Place(x)]
  PROVE  Traces(x)'
<1>1. Held(x)' = Held(x) /\ Place(x)' = Place(x) /\ LedgerFile(Place(x))' = LedgerFile(Place(x))
  BY KindFixed DEF Place, LedgerFile
<1> QED  BY <1>1 DEF Traces, Unwritten

LEMMA TracesOthers ==
  ASSUME BaseInv, TracesAll, NEW c, NEW w, NEW v, Turn(c, w, v), NEW d \in Callers, d # c
  PROVE  Traces(caller[d])'
<1>1. PICK x : x = caller[d]
  OBVIOUS
<1>2. /\ w \in CallerStates /\ v \in CallerStates /\ x \in CallerStates /\ Placed(w) /\ Acts(w, v) /\ DiskTyped
      /\ Held(x) \cap Held(w) = {} /\ kind \in KindNames /\ kind' = kind /\ x = caller'[d] /\ Traces(x)
  BY <1>1, TurnFacts DEF TracesAll
<1>3. Place(x) \in Slots
  BY <1>2, PlaceInScope
<1>4. LedgerFile(Place(x)) \in Held(x) =>
        results'[Place(x)] = results[Place(x)] /\ summary'[Place(x)] = summary[Place(x)]
  <2>1. CASE Place(x) = Place(w) /\ w.pc \in Working
    BY <1>2, <2>1, LedgerHeld
  <2>2. CASE Place(x) # Place(w) \/ w.pc \notin Working
    BY <1>2, <1>3, <2>2, Writes DEF Working, InCell
  <2> QED  BY <2>1, <2>2
<1>5. Traces(x)'
  BY <1>2, <1>4, TracesFixed
<1> QED  BY <1>2, <1>5

LEMMA TracesMoved ==
  ASSUME NEW w \in CallerStates, NEW v \in CallerStates, Traces(w), kind' = kind,
         results' = results, summary' = summary,
         v.root = w.root, v.phase = w.phase, v.stop = w.stop, Held(v) \subseteq Held(w),
         \A i \in Cell : Unwritten(v, i) => Unwritten(w, i),
         v.pc = "judge" => kind = "stage"
  PROVE  Traces(v)'
<1>1. Traces(v)
  BY DEF Traces, Place, LedgerFile
<1> QED  BY <1>1, TracesFixed

LEMMA TracesNext ==
  ASSUME BaseInv, Recorded, TracesAll, NEW c, NEW w, NEW v, Turn(c, w, v)
  PROVE  TracesAll'
<1>1. /\ c \in Callers /\ w \in CallerStates /\ v \in CallerStates
      /\ w = caller[c] /\ v = caller'[c]
      /\ kind' = kind /\ kind \in KindNames /\ Placed(w) /\ Placed(v) /\ Acts(w, v)
      /\ files \subseteq files' /\ Held(v) \subseteq Held(w) \cup (files' \ files) /\ DiskTyped
      /\ Held(v)' = Held(v)
  BY TurnFacts
<1>2. Traces(w) /\ Place(w) \in Slots
  BY <1>1, PlaceInScope DEF TracesAll
<1>3. SUFFICES Traces(v)'
  BY <1>1, TracesOthers DEF TracesAll
<1>4. CASE LedgerFile(Place(v)) \notin Held(v)
  BY <1>1, <1>4 DEF Traces, Place, LedgerFile
<1>5. CASE CalmStep(w, v)
  <2>1. /\ results' = results /\ summary' = summary
        /\ v.root = w.root /\ v.phase = w.phase /\ v.stop = w.stop /\ Held(v) \subseteq Held(w)
        /\ v.pc = "judge" => kind = "stage"
    BY <1>1, <1>5 DEF CalmStep, DiskSame, Kept, Stays
  <2>2. \A i \in Cell : Unwritten(v, i) => Unwritten(w, i)
    BY <1>5 DEF CalmStep, Kept, Working, InCell, Unwritten
  <2> QED  BY <1>1, <1>2, <2>1, <2>2, TracesMoved
<1>6. CASE AdmitStep(w, v) \/ PostStep(w, v) \/ SettleStep(w, v)
  <2>1. /\ results' = results /\ summary' = summary /\ files' = files
        /\ v.root = w.root /\ v.phase = w.phase /\ v.stop = w.stop /\ v.cell = w.cell
        /\ v.pc # "judge" /\ w.pc \in InCell
    BY <1>6 DEF AdmitStep, PostStep, SettleStep, Kept, Stays, InCell
  <2>2. \A i \in Cell : Unwritten(v, i) => Unwritten(w, i)
    BY <2>1 DEF Unwritten
  <2>3. Held(v) \subseteq Held(w)
    BY <1>1, <2>1
  <2> QED  BY <1>1, <1>2, <2>1, <2>2, <2>3, TracesMoved
<1>7. CASE QuitStep(w, v) \/ BeginStep(w, v) \/ (SummaryStep(w, v) /\ Left(v))
  <2>1. Left(v) => Held(v) = {}
    BY DEF Left, Held, Ended
  <2>2. BeginStep(w, v) => Held(w) = {} /\ files' = files
    BY DEF BeginStep, DiskSame, Held, Ended
  <2>3. Held(v) = {}
    BY <1>1, <1>7, <2>1, <2>2 DEF QuitStep
  <2> QED  BY <1>4, <2>3
<1>8. CASE Took(w, v)
  <2>1. /\ results' = results /\ summary' = summary /\ v.pc = "open" /\ w.pc = "open" /\ ~v.stop
        /\ v.root = w.root /\ v.phase = w.phase /\ v.stop = w.stop /\ v.cell = w.cell /\ Place(v) = Place(w)
    BY <1>1, <1>8 DEF Took, Stays, Placed, Place
  <2>2. CASE LedgerFile(Place(w)) \in Held(w)
    BY <1>1, <1>2, <2>1, <2>2 DEF Traces, Unwritten, Place, LedgerFile
  <2>3. CASE LedgerFile(Place(w)) \notin Held(w) /\ LedgerFile(Place(v)) \in Held(v)
    <3>1. LedgerFile(Place(w)) \notin files
      BY <1>1, <2>1, <2>3
    <3>2. \A i \in Cell : results[Place(w)][i] = "none"
      BY <1>2, <3>1 DEF Recorded
    <3> QED  BY <1>1, <2>1, <3>2 DEF Traces, Place, LedgerFile
  <2> QED  BY <1>4, <2>2, <2>3
<1>9. CASE KeepStep(w, v) \/ \E f \in FileNames : MakeStep(w, v, f)
  BY <1>8, <1>9 DEF KeepStep, MakeStep
<1>10. CASE AccountStep(w, v)
  <2>1. /\ w.pc = "result" /\ v.pc = "cell" /\ v.cell = w.cell + 1 /\ w.cell \in Cell /\ w.cell \in Nat /\ Cells \in Nat
        /\ Place(v) = Place(w) /\ files' = files
        /\ kind = "stage" /\ v.stop => results' = results \/ w.status \notin Valid
    BY <1>1, <1>10, StudyConstants DEF AccountStep, Stays, Place, Placed, InCell, CallerStates
  <2>2. LedgerFile(Place(w)) \in Held(w)
    BY <1>1, <2>1, LedgerHeld DEF Working, InCell
  <2>3. /\ \A i \in Cell : i >= w.cell => results[Place(w)][i] = "none"
    <3>1. \A i \in Cell : i >= w.cell => Unwritten(w, i)
      BY <2>1 DEF Unwritten, InCell, Cell
    <3> QED  BY <1>2, <2>2, <3>1 DEF Traces
  <2>4. results' = results \/ results' = [results EXCEPT ![Place(w)] = [@ EXCEPT ![w.cell] = w.status]]
    BY <1>10 DEF AccountStep
  <2>5. \A i \in Cell : results'[Place(w)][i] =
          IF results' = results \/ i # w.cell THEN results[Place(w)][i] ELSE w.status
    BY <1>1, <1>2, <2>1, <2>4 DEF DiskTyped
  <2>6. \A i \in Cell : Unwritten(v, i) => results'[Place(w)][i] = "none"
    BY <2>1, <2>3, <2>5 DEF Unwritten, Cell
  <2>7. kind = "stage" /\ v.stop => \E i \in Cell : results'[Place(w)][i] \notin Valid
    <3>1. SUFFICES ASSUME kind = "stage", v.stop
                   PROVE  results'[Place(w)][w.cell] \notin Valid
      BY <2>1
    <3>2. results[Place(w)][w.cell] = "none"
      BY <2>1, <2>3
    <3> QED  BY <2>1, <2>5, <3>1, <3>2 DEF Valid
  <2> QED  BY <1>1, <2>1, <2>6, <2>7 DEF Traces, Unwritten, Place, LedgerFile
<1>11. CASE SummaryStep(w, v) /\ ~Left(v)
  <2>1. /\ Went(w, v, "judge") /\ kind = "value" /\ results' = results /\ files' = files /\ w.pc = "summary"
        /\ \E s \in {"open", "halted"} : summary' = [summary EXCEPT ![Place(w)] = s] /\ (s = "open" => ~w.stop)
    BY <1>11 DEF SummaryStep
  <2>2. Place(v) = Place(w) /\ v.stop = w.stop /\ v.cell = w.cell /\ v.pc = "judge" /\ Held(v) \subseteq Held(w)
    BY <1>1, <2>1 DEF Went, Kept, Stays, Place
  <2>3. summary'[Place(w)] = "open" => ~w.stop
    BY <1>1, <1>2, <2>1 DEF DiskTyped
  <2>4. \A i \in Cell : Unwritten(v, i) => Unwritten(w, i)
    BY <2>2 DEF Unwritten, InCell
  <2>5. LedgerFile(Place(w)) \in Held(w)
    BY <1>1, <2>1, LedgerHeld DEF Working
  <2> QED  BY <1>1, <1>2, <2>1, <2>2, <2>3, <2>4, <2>5 DEF Traces, Unwritten, Place, LedgerFile
<1>12. CASE JudgeStep(w, v)
  <2>1. w.phase = 1 /\ TwoPhase /\ w.root \in Roots /\ w.pc = "judge" /\ v.root = w.root /\ v.phase = 2 /\ files' = files
    BY <1>1, <1>12 DEF JudgeStep, Placed, CallerStates, DiskSame
  <2>2. Held(w) = Makes(FilesOf(w.root, 1))
    BY <1>1, <2>1, HeldWorking DEF Needs, Working
  <2>3. Layout(w.root, 2)
    BY <1>1, <2>1, FilesLaidOut DEF Phases
  <2>4. LedgerFile(Place(v)) = <<w.root, 2, "ledger">>
    BY <2>1 DEF LedgerFile, Place
  <2>5. LedgerFile(Place(v)) \notin Held(v)
    BY <1>1, <2>1, <2>2, <2>3, <2>4 DEF Layout
  <2> QED  BY <1>4, <2>5
<1> QED  BY <1>1, <1>5, <1>6, <1>7, <1>9, <1>10, <1>11, <1>12 DEF Acts

\* A batch whose first phase qualifies never stopped early.
LEMMA QualifiedRan ==
  ASSUME BaseInv, TracesAll, NEW c, NEW w, NEW v, Turn(c, w, v), JudgeStep(w, v)
  PROVE  ~w.stop
<1>1. /\ c \in Callers /\ w \in CallerStates /\ w = caller[c] /\ kind \in KindNames /\ Placed(w)
  BY TurnFacts
<1>2. w.pc = "judge" /\ Qualifies(w.root) /\ TwoPhase /\ Place(w) = <<w.root, 1>>
  BY <1>1 DEF JudgeStep, Placed, Place
<1>3. LedgerFile(Place(w)) \in Held(w)
  BY <1>1, <1>2, LedgerHeld DEF Working
<1>4. /\ kind = "stage" /\ w.stop => \E i \in Cell : results[Place(w)][i] \notin Valid
      /\ kind = "value" /\ summary[Place(w)] = "open" => ~w.stop
  BY <1>1, <1>2, <1>3 DEF TracesAll, Traces
<1> QED  BY <1>2, <1>4 DEF Qualifies, ValueQualifies, StageQualifies, TwoPhase

-----------------------------------------------------------------------------
(* The second phase stands on a first one that can no longer change.        *)

\* A first phase that a second one stands on: its records qualify, and whoever holds
\* its ledger has gone on to the second phase.
FirstLedger(r) == LedgerFile(<<r, 1>>)
Earned(r) ==
  /\ Settled(<<r, 1>>) /\ Cardinality(PrintsOf(<<r, 1>>)) = 1
  /\ \A i \in Cell : results[<<r, 1>>][i] \in Valid \cup (IF kind = "pilot" THEN {"contract"} ELSE {})
Firm(r) ==
  /\ FirstLedger(r) \in files /\ Earned(r)
  /\ \A c \in Callers : FirstLedger(r) \in Held(caller[c]) => caller[c].phase = 2
\* The regression phase of a pilot is closed once it has a summary.
Closed(r) == FirstLedger(r) \in files /\ \A c \in Callers : FirstLedger(r) \notin Held(caller[c])

InSecond(w, r) == w.pc \notin Ended /\ w.root = r /\ w.phase = 2
Stands(r) == ledger[<<r, 2>>] # <<>> \/ \E c \in Callers : InSecond(caller[c], r)
SecondInv ==
  \A r \in Roots : /\ Stands(r) => Firm(r)
                   /\ kind = "pilot" /\ summary[<<r, 1>>] # "none" => Closed(r)

LEMMA EarnedFixed ==
  ASSUME kind' = kind, NEW r, ledger'[<<r, 1>>] = ledger[<<r, 1>>], results'[<<r, 1>>] = results[<<r, 1>>]
  PROVE  Earned(r)' = Earned(r)
<1>1. Rows(<<r, 1>>)' = Rows(<<r, 1>>)
  BY DEF Rows
<1>2. PrintsOf(<<r, 1>>)' = PrintsOf(<<r, 1>>) /\ Settled(<<r, 1>>)' = Settled(<<r, 1>>)
  BY <1>1 DEF PrintsOf, Settled
<1> QED  BY <1>2 DEF Earned

\* A call changes its phase only into the second one, or by ending.
LEMMA PhaseKept ==
  ASSUME kind \in KindNames, NEW w \in CallerStates, NEW v \in CallerStates, Acts(w, v)
  PROVE  v.phase = w.phase \/ v.phase = 2 \/ Left(v) \/ w.pc = "idle"
<1>1. CASE \E f \in FileNames : MakeStep(w, v, f)
  BY <1>1 DEF MakeStep, Took, Stays
<1> QED  BY <1>1 DEF Acts, CalmStep, QuitStep, BeginStep, KeepStep, Took, AdmitStep, PostStep,
             SettleStep, AccountStep, SummaryStep, JudgeStep, Kept, Stays, Went

\* It comes into the second phase by starting there or by a first phase that qualifies.
LEMMA Entering ==
  ASSUME NEW w \in CallerStates, NEW v \in CallerStates, Acts(w, v), NEW r, InSecond(v, r), ~InSecond(w, r)
  PROVE  BeginStep(w, v) \/ JudgeStep(w, v)
<1>1. CASE \E f \in FileNames : MakeStep(w, v, f)
  BY <1>1 DEF MakeStep, Took, Stays, InSecond, Ended
<1>2. CASE Left(v)
  BY <1>2 DEF Left, InSecond
<1> QED  BY <1>1, <1>2
         DEF Acts, CalmStep, QuitStep, KeepStep, Took, AdmitStep, PostStep, SettleStep, AccountStep,
             SummaryStep, Kept, Stays, Went, InSecond, Ended, Working, InCell

\* The holder of the first ledger writes there only in the first phase.
LEMMA FirstWritten ==
  ASSUME BaseInv, NEW c, NEW w, NEW v, Turn(c, w, v), NEW r \in Roots,
         FirstLedger(r) \in Held(w) => w.phase = 2
  PROVE  /\ ledger'[<<r, 1>>] = ledger[<<r, 1>>] /\ results'[<<r, 1>>] = results[<<r, 1>>]
         /\ summary'[<<r, 1>>] = summary[<<r, 1>>]
<1>1. w \in CallerStates /\ v \in CallerStates /\ Placed(w) /\ Acts(w, v) /\ DiskTyped /\ kind \in KindNames
  BY TurnFacts
<1>2. <<r, 1>> \in Slots
  BY DEF Slots, Phases
<1>3. CASE w.pc \in Working /\ Place(w) = <<r, 1>>
  <2>1. FirstLedger(r) \in Held(w) /\ w.phase = 1
    BY <1>1, <1>3, LedgerHeld DEF FirstLedger, Place
  <2> QED  BY <2>1
<1>4. CASE w.pc \notin Working \/ Place(w) # <<r, 1>>
  BY <1>1, <1>2, <1>4, Writes DEF Working, InCell
<1> QED  BY <1>3, <1>4

LEMMA FirmKept ==
  ASSUME BaseInv, NEW c, NEW w, NEW v, Turn(c, w, v), NEW r \in Roots, Firm(r)
  PROVE  Firm(r)'
<1>1. /\ c \in Callers /\ w \in CallerStates /\ v \in CallerStates
      /\ w = caller[c] /\ v = caller'[c] /\ \A d \in Callers : d # c => caller'[d] = caller[d]
      /\ kind' = kind /\ kind \in KindNames /\ Acts(w, v)
      /\ files \subseteq files' /\ Held(v) \subseteq Held(w) \cup (files' \ files)
      /\ \A x : Held(x)' = Held(x)
  BY TurnFacts
<1>2. /\ FirstLedger(r) \in files /\ Earned(r)
      /\ \A d \in Callers : FirstLedger(r) \in Held(caller[d]) => caller[d].phase = 2
  BY DEF Firm
<1>3. FirstLedger(r)' = FirstLedger(r)
  BY DEF FirstLedger, LedgerFile
<1>4. Earned(r)'
  <2>1. FirstLedger(r) \in Held(w) => w.phase = 2
    BY <1>1, <1>2
  <2>2. ledger'[<<r, 1>>] = ledger[<<r, 1>>] /\ results'[<<r, 1>>] = results[<<r, 1>>]
    BY <2>1, FirstWritten
  <2>3. Earned(r)' = Earned(r)
    BY <1>1, <2>2, EarnedFixed
  <2> QED  BY <1>2, <2>3
<1>5. FirstLedger(r) \in Held(v) => v.phase = 2
  <2>1. Left(v) => Held(v) = {}
    BY DEF Left, Held, Ended
  <2>2. w.pc = "idle" => Held(w) = {}
    BY DEF Held, Ended
  <2> QED  BY <1>1, <1>2, <2>1, <2>2, PhaseKept
<1>6. ASSUME NEW d \in Callers
      PROVE  (FirstLedger(r) \in Held(caller[d]) => caller[d].phase = 2)'
  <2>1. PICK x : x = caller'[d]
    OBVIOUS
  <2>2. FirstLedger(r) \in Held(x) => x.phase = 2
    BY <1>1, <1>2, <1>5, <2>1
  <2> QED  BY <1>1, <1>3, <2>1, <2>2
<1> QED  BY <1>1, <1>2, <1>3, <1>4, <1>6 DEF Firm

LEMMA ClosedKept ==
  ASSUME BaseInv, NEW c, NEW w, NEW v, Turn(c, w, v), NEW r \in Roots, Closed(r)
  PROVE  Closed(r)'
<1>1. /\ c \in Callers /\ w = caller[c] /\ v = caller'[c] /\ \A d \in Callers : d # c => caller'[d] = caller[d]
      /\ files \subseteq files' /\ Held(v) \subseteq Held(w) \cup (files' \ files)
      /\ \A x : Held(x)' = Held(x)
  BY TurnFacts
<1>2. FirstLedger(r) \in files /\ \A d \in Callers : FirstLedger(r) \notin Held(caller[d])
  BY DEF Closed
<1>3. FirstLedger(r)' = FirstLedger(r)
  BY DEF FirstLedger, LedgerFile
<1>4. ASSUME NEW d \in Callers
      PROVE  (FirstLedger(r) \notin Held(caller[d]))'
  <2>1. PICK x : x = caller'[d]
    OBVIOUS
  <2>2. FirstLedger(r) \notin Held(x)
    BY <1>1, <1>2, <2>1
  <2> QED  BY <1>1, <1>3, <2>1, <2>2
<1> QED  BY <1>1, <1>2, <1>3, <1>4 DEF Closed

\* A gate that may go on has billed everything under one fingerprint.
LEMMA OnePrint ==
  ASSUME DiskTyped, NEW s \in Slots, NEW print, AllGood(s, print), PrintsOf(s) # {}
  PROVE  Cardinality(PrintsOf(s)) = 1
<1>1. \A row \in Rows(s) : row.print = print
  BY DEF AllGood, Good, Rows
<1>2. PrintsOf(s) = {print}
  BY <1>1 DEF PrintsOf
<1> QED  BY <1>2, FS_Singleton

LEMMA JudgedFirm ==
  ASSUME BaseInv, Recorded, BooksAll, TracesAll, NEW c, NEW w, NEW v, Turn(c, w, v), JudgeStep(w, v)
  PROVE  Firm(w.root)'
<1>1. /\ c \in Callers /\ w \in CallerStates /\ v \in CallerStates
      /\ w = caller[c] /\ v = caller'[c] /\ \A d \in Callers : d # c => caller'[d] = caller[d]
      /\ kind' = kind /\ kind \in KindNames /\ Placed(w) /\ Held(w) \subseteq files /\ DiskTyped
      /\ \A d \in Callers : d # c => Held(caller[d]) \cap Held(w) = {}
      /\ \A x : Held(x)' = Held(x)
  BY TurnFacts
<1>2. /\ w.pc = "judge" /\ w.phase = 1 /\ TwoPhase /\ kind # "pilot" /\ Qualifies(w.root) /\ v.phase = 2
      /\ ledger' = ledger /\ results' = results /\ files' = files /\ Place(w) = <<w.root, 1>>
  BY <1>1 DEF JudgeStep, Placed, DiskSame, Place, TwoPhase
<1>3. FirstLedger(w.root) \in Held(w) /\ ScopeFile(w.root, w.phase) \in Held(w)
  BY <1>1, <1>2, LedgerHeld, HeldWorking DEF FirstLedger, Working
<1>4. ~w.stop
  BY QualifiedRan
<1>5. AllGood(<<w.root, 1>>, w.print) /\ <<w.root, 1>> \in Slots
  <2>1. Books(w)
    BY <1>1 DEF BooksAll
  <2>2. Place(w) \in Slots /\ InScope(w, Place(w))
    BY <1>1, PlaceInScope
  <2> QED  BY <1>2, <1>3, <1>4, <2>1, <2>2 DEF Books, Clear
<1>6. Earned(w.root)
  <2>1. CASE kind = "value"
    BY <1>2, <2>1 DEF Qualifies, ValueQualifies, Earned, Valid
  <2>2. CASE kind # "value"
    <3>1. StageQualifies(<<w.root, 1>>)
      BY <1>2, <2>2 DEF Qualifies
    <3>2. Cardinality(PrintsOf(<<w.root, 1>>)) = 1
      BY <1>1, <1>5, <3>1, OnePrint DEF StageQualifies
    <3> QED  BY <1>2, <3>1, <3>2 DEF StageQualifies, Earned
  <2> QED  BY <2>1, <2>2
<1>7. Earned(w.root)'
  BY <1>1, <1>2, <1>6, EarnedFixed
<1>8. ASSUME NEW d \in Callers
      PROVE  (FirstLedger(w.root) \in Held(caller[d]) => caller[d].phase = 2)'
  <2>1. CASE d = c
    BY <1>1, <1>2, <2>1
  <2>2. CASE d # c
    <3>1. FirstLedger(w.root) \notin Held(caller[d])
      BY <1>1, <1>3, <2>2
    <3>2. PICK x : x = caller[d] /\ x = caller'[d]
      BY <1>1, <2>2
    <3> QED  BY <1>1, <3>1, <3>2 DEF FirstLedger, LedgerFile
  <2> QED  BY <2>1, <2>2
<1> QED  BY <1>1, <1>2, <1>3, <1>7, <1>8 DEF Firm, FirstLedger, LedgerFile

LEMMA SecondNext ==
  ASSUME BaseInv, Recorded, BooksAll, TracesAll, SecondInv, NEW c, NEW w, NEW v, Turn(c, w, v)
  PROVE  SecondInv'
<1>1. /\ c \in Callers /\ w \in CallerStates /\ v \in CallerStates
      /\ w = caller[c] /\ v = caller'[c] /\ \A d \in Callers : d # c => caller'[d] = caller[d]
      /\ kind' = kind /\ kind \in KindNames /\ Placed(w) /\ Acts(w, v) /\ DiskTyped
      /\ files \subseteq files' /\ Held(w) \subseteq files
      /\ \A d \in Callers : d # c => Held(caller[d]) \cap Held(w) = {}
      /\ \A x : Held(x)' = Held(x)
  BY TurnFacts
<1>2. ASSUME NEW r \in Roots, Stands(r)'
      PROVE  Firm(r)'
  <2>1. CASE Stands(r)
    BY <2>1, FirmKept DEF SecondInv
  <2>2. CASE ~Stands(r)
    <3>1. ledger[<<r, 2>>] = <<>> /\ \A d \in Callers : ~InSecond(caller[d], r)
      BY <2>2 DEF Stands
    <3>2. ledger'[<<r, 2>>] = <<>>
      <4>1. <<r, 2>> \in Slots
        BY DEF Slots, Phases
      <4>2. Place(w) = <<r, 2>> => w.pc \notin {"admit", "answer"}
        BY <1>1, <3>1 DEF InSecond, Place, Ended
      <4>3. ledger'[<<r, 2>>] = ledger[<<r, 2>>]
        BY <1>1, <4>1, <4>2, Writes
      <4> QED  BY <3>1, <4>3
    <3>3. PICK d \in Callers : InSecond(caller'[d], r)
      BY <1>2, <3>2 DEF Stands, InSecond
    <3>4. InSecond(v, r) /\ ~InSecond(w, r)
      BY <1>1, <3>1, <3>3
    <3>5. v.root = r
      BY <3>4 DEF InSecond
    <3>6. CASE BeginStep(w, v)
      <4>1. kind = "pilot" /\ RegressionReceipt(r)
        BY <3>4, <3>5, <3>6 DEF BeginStep, InSecond
      <4>2. summary[<<r, 1>>] = "open" /\ Earned(r)
        BY <4>1 DEF RegressionReceipt, PilotEligible, Earned
      <4>3. Closed(r)
        BY <4>1, <4>2 DEF SecondInv
      <4>4. Firm(r)
        BY <4>2, <4>3 DEF Firm, Closed
      <4> QED  BY <4>4, FirmKept
    <3>7. CASE JudgeStep(w, v)
      <4>1. w.root = r
        BY <3>5, <3>7 DEF JudgeStep
      <4>2. Firm(w.root)'
        BY <3>7, JudgedFirm
      <4> QED  BY <4>1, <4>2
    <3> QED  BY <1>1, <3>4, <3>6, <3>7, Entering
  <2> QED  BY <2>1, <2>2
<1>3. ASSUME NEW r \in Roots, kind = "pilot", summary'[<<r, 1>>] # "none"
      PROVE  Closed(r)'
  <2>1. CASE summary[<<r, 1>>] # "none"
    BY <1>3, <2>1, ClosedKept DEF SecondInv
  <2>2. CASE summary[<<r, 1>>] = "none"
    <3>1. <<r, 1>> \in Slots
      BY DEF Slots, Phases
    <3>2. w.pc = "summary" /\ Place(w) = <<r, 1>>
      BY <1>1, <1>3, <2>2, <3>1, Writes
    <3>3. SummaryStep(w, v) \/ Left(v)
      BY <1>1, <1>3, <2>2, <3>1, <3>2
         DEF Acts, CalmStep, DiskSame, QuitStep, BeginStep, KeepStep, MakeStep, Took, AdmitStep, PostStep,
             SettleStep, AccountStep, JudgeStep
    <3>4. Left(v)
      BY <1>3, <3>3 DEF SummaryStep
    <3>5. Held(v) = {} /\ FirstLedger(r) \in Held(w)
      BY <1>1, <3>2, <3>4, LedgerHeld DEF Left, Held, Ended, FirstLedger, Working
    <3>6. ASSUME NEW d \in Callers
          PROVE  (FirstLedger(r) \notin Held(caller[d]))'
      <4>1. PICK x : x = caller'[d]
        OBVIOUS
      <4>2. FirstLedger(r) \notin Held(x)
        BY <1>1, <3>5, <4>1
      <4> QED  BY <1>1, <4>1, <4>2 DEF FirstLedger, LedgerFile
    <3> QED  BY <1>1, <3>5, <3>6 DEF Closed, FirstLedger, LedgerFile
  <2> QED  BY <2>1, <2>2
<1> QED  BY <1>1, <1>2, <1>3 DEF SecondInv

-----------------------------------------------------------------------------
(* Provenance and the credential.                                           *)

\* Provenance: a phase has one only once its claim exists, and it never turns; a
\* call in a real second phase stands on a real first one.
ClaimOf(s) == <<s[1], s[2], "claim">>
Lively(w) ==
  /\ w.pc \notin Ended /\ w.phase = 2 /\ w.live /\ kind \in {"pilot", "value"} =>
       origin[<<w.root, 1>>] = "live"
  /\ kind = "value" /\ w.phase = 1 /\ w.live /\ ClaimOf(<<w.root, 1>>) \in Held(w) =>
       origin[<<w.root, 1>>] = "live"
OriginInv ==
  /\ \A s \in Slots : origin[s] # "none" => ClaimOf(s) \in files
  /\ \A r \in Roots : origin[<<r, 2>>] = "live" => origin[<<r, 1>>] = "live"
  /\ \A c \in Callers : Lively(caller[c])
\* The credential is held only by a call that holds its claim.
Keyed(w) == w.key => ClaimFile(w.root, w.phase) \in Held(w)
KeyedAll == \A c \in Callers : Keyed(caller[c])

\* A call keeps its root and its wire.
LEMMA InCall ==
  ASSUME NEW w \in CallerStates, NEW v \in CallerStates, Acts(w, v), v.pc \notin Ended, w.pc # "idle"
  PROVE  v.root = w.root /\ v.live = w.live /\ w.pc \notin Ended
<1>1. CASE \E f \in FileNames : MakeStep(w, v, f)
  BY <1>1 DEF MakeStep, Took, Stays, Ended
<1>2. CASE Left(v)
  BY <1>2 DEF Left, Ended
<1> QED  BY <1>1, <1>2
         DEF Acts, CalmStep, QuitStep, BeginStep, JudgeStep, KeepStep, Took, AdmitStep, PostStep, SettleStep,
             AccountStep, SummaryStep, Kept, Stays, Went, Ended, Working, InCell

LEMMA KeptHeld ==
  ASSUME NEW w \in CallerStates, NEW v \in CallerStates, KeepStep(w, v)
  PROVE  Held(v) \subseteq Held(w)
<1>1. w.todo \in Seq(Steps) /\ w.todo # <<>>
  BY DEF KeepStep, Took, CallerStates
<1>2. \A f \in Makes(w.todo) : f \in Makes(Tail(w.todo))
  BY <1>1, MakesTail DEF KeepStep
<1> QED  BY <1>2 DEF KeepStep, Took, Stays, Held, Ended

LEMMA OriginStep ==
  ASSUME NEW w, NEW v, Acts(w, v)
  PROVE  \/ origin' = origin
         \/ MakeStep(w, v, ClaimOf(Place(w)))
<1>1. ASSUME NEW f \in FileNames, MakeStep(w, v, f)
      PROVE  origin' = origin \/ MakeStep(w, v, ClaimOf(Place(w)))
  <2>1. CASE f = <<w.root, w.phase, "claim">>
    <3>1. f = ClaimOf(Place(w))
      BY <2>1 DEF ClaimOf, Place
    <3> QED  BY <1>1, <3>1
  <2>2. CASE f # <<w.root, w.phase, "claim">>
    BY <1>1, <2>2 DEF MakeStep
  <2> QED  BY <2>1, <2>2
<1> QED  BY <1>1 DEF Acts, CalmStep, QuitStep, BeginStep, KeepStep, AdmitStep, PostStep,
             SettleStep, AccountStep, SummaryStep, JudgeStep, DiskSame

\* The claim of a phase is created once, and says then what the call is.
LEMMA ClaimMade ==
  ASSUME BaseInv, OriginInv, NEW c, NEW w, NEW v, Turn(c, w, v), MakeStep(w, v, ClaimOf(Place(w)))
  PROVE  /\ w.pc = "open" /\ Place(w) \in Slots /\ origin[Place(w)] = "none"
         /\ origin'[Place(w)] = (IF w.live THEN "live" ELSE "fake")
         /\ \A s \in Slots : s # Place(w) => origin'[s] = origin[s]
         /\ ClaimOf(Place(w)) \in files'
         /\ w.phase = 2 => kind \in {"pilot", "value"}
<1>1. /\ w \in CallerStates /\ kind \in KindNames /\ Placed(w) /\ DiskTyped
  BY TurnFacts
<1>2. /\ w.pc = "open" /\ w.todo # <<>> /\ Head(w.todo) = <<"make", ClaimOf(Place(w))>>
      /\ ClaimOf(Place(w)) \notin files /\ files' = files \cup {ClaimOf(Place(w))} /\ ClaimOf(Place(w)) \in FileNames
  BY DEF MakeStep, Took
<1>3. ClaimOf(Place(w)) = <<w.root, w.phase, "claim">>
  BY DEF ClaimOf, Place
<1>4. origin' = [origin EXCEPT ![Place(w)] = IF w.live THEN "live" ELSE "fake"]
  BY <1>3 DEF MakeStep
<1>5. Place(w) \in Slots
  BY <1>1, PlaceInScope
<1>6. origin[Place(w)] = "none"
  BY <1>2, <1>5 DEF OriginInv
<1>7. ASSUME w.phase = 2, kind \notin {"pilot", "value"}
      PROVE  FALSE
  <2>1. kind = "stage"
    BY <1>1, <1>2, <1>7 DEF Placed, TwoPhase, Ended
  <2>2. w.todo \in Seq(Steps) /\ Makes(w.todo) \subseteq Makes(FilesOf(w.root, w.phase))
    BY <1>1, <1>2 DEF Placed, CallerStates
  <2>3. ClaimOf(Place(w)) \in Makes(w.todo)
    <3>1. 1 \in DOMAIN w.todo /\ w.todo[1] = Head(w.todo)
      BY <1>2, <2>2
    <3> QED  BY <1>2, <3>1 DEF Makes
  <2>4. Layout(w.root, w.phase)
    BY <1>1, FilesLaidOut DEF CallerStates
  <2> QED  BY <1>3, <1>7, <2>1, <2>2, <2>3, <2>4 DEF Layout
<1>8. /\ origin'[Place(w)] = (IF w.live THEN "live" ELSE "fake")
      /\ \A s \in Slots : s # Place(w) => origin'[s] = origin[s]
  BY <1>1, <1>4, <1>5 DEF DiskTyped
<1> QED  BY <1>2, <1>5, <1>6, <1>7, <1>8

LEMMA OriginKept ==
  ASSUME BaseInv, OriginInv, NEW c, NEW w, NEW v, Turn(c, w, v), NEW s \in Slots, origin[s] = "live"
  PROVE  origin'[s] = "live"
<1>1. Acts(w, v)
  BY TurnFacts
<1>2. CASE MakeStep(w, v, ClaimOf(Place(w)))
  BY <1>2, ClaimMade
<1> QED  BY <1>1, <1>2, OriginStep

LEMMA LivelyNext ==
  ASSUME BaseInv, OriginInv, NEW c, NEW w, NEW v, Turn(c, w, v)
  PROVE  Lively(v)'
<1>1. /\ c \in Callers /\ w \in CallerStates /\ v \in CallerStates /\ w = caller[c]
      /\ kind' = kind /\ kind \in KindNames /\ Placed(w) /\ Acts(w, v)
      /\ Held(v) \subseteq Held(w) \cup (files' \ files) /\ Held(v)' = Held(v)
  BY TurnFacts
<1>2. Lively(w) /\ <<w.root, 1>> \in Slots /\ <<v.root, 1>> \in Slots
  BY <1>1 DEF OriginInv, Slots, Phases, CallerStates
<1>3. ASSUME v.pc \notin Ended, v.phase = 2, v.live, kind \in {"pilot", "value"}
      PROVE  origin[<<v.root, 1>>] = "live"
  <2>1. CASE InSecond(w, v.root)
    <3>1. w.pc # "idle" /\ w.pc \notin Ended /\ w.phase = 2 /\ w.root = v.root
      BY <2>1 DEF InSecond, Ended
    <3>2. w.live
      BY <1>1, <1>3, <3>1, InCall
    <3> QED  BY <1>2, <1>3, <3>1, <3>2 DEF Lively
  <2>2. CASE ~InSecond(w, v.root) /\ BeginStep(w, v)
    BY <1>3, <2>2 DEF BeginStep
  <2>3. CASE ~InSecond(w, v.root) /\ JudgeStep(w, v)
    <3>1. w.pc = "judge" /\ w.phase = 1 /\ kind = "value" /\ w.live /\ w.root = v.root /\ w.root \in Roots
      BY <1>1, <1>3, <2>3 DEF JudgeStep, Placed, TwoPhase, CallerStates
    <3>2. Held(w) = Makes(FilesOf(w.root, 1))
      BY <1>1, <3>1, HeldWorking DEF Needs, Working
    <3>3. Layout(w.root, 1)
      BY <1>1, <3>1, FilesLaidOut DEF Phases
    <3>4. ClaimOf(<<w.root, 1>>) \in Held(w)
      BY <3>1, <3>2, <3>3 DEF Layout, ClaimOf
    <3> QED  BY <1>2, <3>1, <3>4 DEF Lively
  <2>4. InSecond(v, v.root)
    BY <1>3 DEF InSecond
  <2> QED  BY <1>1, <2>1, <2>2, <2>3, <2>4, Entering
<1>4. ASSUME kind = "value", v.phase = 1, v.live, ClaimOf(<<v.root, 1>>) \in Held(v)
      PROVE  origin'[<<v.root, 1>>] = "live"
  <2>1. v.pc \notin Ended
    BY <1>4 DEF Held
  <2>2. w.pc # "idle"
    <3>1. w.pc = "idle" => files' = files /\ Held(w) = {}
      <4>1. CASE \E f \in FileNames : MakeStep(w, v, f)
        BY <4>1 DEF MakeStep, Took
      <4>2. CalmStep(w, v) \/ QuitStep(w, v) \/ BeginStep(w, v) \/ JudgeStep(w, v) => files' = files
        BY DEF CalmStep, QuitStep, BeginStep, JudgeStep, DiskSame
      <4>3. w.pc = "idle" => Held(w) = {}
        BY DEF Held, Ended
      <4> QED  BY <1>1, <4>1, <4>2, <4>3
               DEF Acts, KeepStep, Took, AdmitStep, PostStep, SettleStep, AccountStep, SummaryStep
    <3> QED  BY <1>1, <1>4, <3>1
  <2>3. v.root = w.root /\ v.live = w.live /\ w.phase = 1
    <3>1. ~Left(v)
      BY <2>1 DEF Left, Ended
    <3>2. v.root = w.root /\ v.live = w.live
      BY <1>1, <2>1, <2>2, InCall
    <3>3. v.phase = w.phase \/ v.phase = 2
      BY <1>1, <2>2, <3>1, PhaseKept
    <3>4. w.phase = 1
      BY <1>4, <3>3
    <3> QED  BY <3>2, <3>4
  <2>4. CASE ClaimOf(<<v.root, 1>>) \in Held(w)
    <3>1. origin[<<v.root, 1>>] = "live"
      BY <1>2, <1>4, <2>3, <2>4 DEF Lively
    <3> QED  BY <1>2, <3>1, OriginKept
  <2>5. CASE ClaimOf(<<v.root, 1>>) \notin Held(w)
    <3>1. ClaimOf(<<v.root, 1>>) \in files' \ files /\ ~KeepStep(w, v)
      BY <1>1, <1>4, <2>5, KeptHeld
    <3>2. PICK f \in FileNames : MakeStep(w, v, f)
      BY <1>1, <3>1
         DEF Acts, CalmStep, QuitStep, BeginStep, JudgeStep, AdmitStep, PostStep, SettleStep,
             AccountStep, SummaryStep, DiskSame
    <3>3. f = ClaimOf(Place(w)) /\ Place(w) = <<v.root, 1>>
      BY <2>3, <3>1, <3>2 DEF MakeStep, Place
    <3>4. MakeStep(w, v, ClaimOf(Place(w)))
      BY <3>2, <3>3
    <3> QED  BY <1>4, <2>3, <3>3, <3>4, ClaimMade
  <2> QED  BY <2>4, <2>5
<1>5. origin[<<v.root, 1>>] = "live" => origin'[<<v.root, 1>>] = "live"
  BY <1>2, OriginKept
<1> QED  BY <1>1, <1>3, <1>4, <1>5 DEF Lively, ClaimOf

LEMMA OriginNext ==
  ASSUME BaseInv, OriginInv, NEW c, NEW w, NEW v, Turn(c, w, v)
  PROVE  OriginInv'
<1>1. /\ c \in Callers /\ w \in CallerStates /\ w = caller[c] /\ v = caller'[c]
      /\ kind' = kind /\ Acts(w, v) /\ files \subseteq files'
      /\ \A d \in Callers : caller[d] \in CallerStates /\ (d # c => caller'[d] = caller[d])
      /\ \A x : Held(x)' = Held(x)
  BY TurnFacts
<1>2. \A r \in Roots : <<r, 1>> \in Slots /\ <<r, 2>> \in Slots
  BY DEF Slots, Phases
<1>3. ASSUME NEW s \in Slots, origin'[s] # "none"
      PROVE  ClaimOf(s) \in files'
  <2>1. CASE origin' = origin
    BY <1>1, <1>3, <2>1 DEF OriginInv
  <2>2. CASE MakeStep(w, v, ClaimOf(Place(w)))
    <3>1. CASE s = Place(w)
      BY <2>2, <3>1, ClaimMade
    <3>2. CASE s # Place(w)
      <4>1. origin'[s] = origin[s]
        BY <2>2, <3>2, ClaimMade
      <4> QED  BY <1>1, <1>3, <4>1 DEF OriginInv
    <3> QED  BY <3>1, <3>2
  <2> QED  BY <1>1, <2>1, <2>2, OriginStep
<1>4. ASSUME NEW r \in Roots, origin'[<<r, 2>>] = "live"
      PROVE  origin'[<<r, 1>>] = "live"
  <2>1. origin[<<r, 1>>] = "live"
    <3>1. CASE origin[<<r, 2>>] = "live"
      BY <3>1 DEF OriginInv
    <3>2. CASE origin[<<r, 2>>] # "live"
      <4>1. MakeStep(w, v, ClaimOf(Place(w)))
        BY <1>1, <1>4, <3>2, OriginStep
      <4>2. Place(w) = <<r, 2>> /\ w.live /\ w.pc = "open"
        <5>1. /\ w.pc = "open" /\ origin'[Place(w)] = (IF w.live THEN "live" ELSE "fake")
              /\ \A s \in Slots : s # Place(w) => origin'[s] = origin[s]
          BY <4>1, ClaimMade
        <5>2. Place(w) = <<r, 2>>
          BY <1>2, <1>4, <3>2, <5>1
        <5>3. origin'[Place(w)] = "live"
          BY <1>4, <5>2
        <5> QED  BY <5>1, <5>2, <5>3
      <4>3. w.root = r /\ w.phase = 2 /\ kind \in {"pilot", "value"}
        BY <4>1, <4>2, ClaimMade DEF Place
      <4>4. Lively(w)
        BY <1>1 DEF OriginInv
      <4> QED  BY <4>2, <4>3, <4>4 DEF Lively, Ended
    <3> QED  BY <3>1, <3>2
  <2> QED  BY <1>2, <2>1, OriginKept
<1>5. ASSUME NEW d \in Callers
      PROVE  Lively(caller[d])'
  <2>1. CASE d = c
    BY <1>1, <2>1, LivelyNext
  <2>2. CASE d # c
    <3>1. PICK x \in CallerStates : x = caller[d] /\ x = caller'[d]
      BY <1>1, <2>2
    <3>2. Lively(x) /\ <<x.root, 1>> \in Slots
      BY <1>2, <3>1 DEF OriginInv, CallerStates
    <3>3. origin[<<x.root, 1>>] = "live" => origin'[<<x.root, 1>>] = "live"
      BY <3>2, OriginKept
    <3>4. Lively(x)'
      BY <1>1, <3>2, <3>3 DEF Lively, ClaimOf
    <3> QED  BY <3>1, <3>4
  <2> QED  BY <2>1, <2>2
<1> QED  BY <1>3, <1>4, <1>5 DEF OriginInv, ClaimOf

LEMMA KeyedNext ==
  ASSUME BaseInv, KeyedAll, NEW c, NEW w, NEW v, Turn(c, w, v)
  PROVE  KeyedAll'
<1>1. /\ c \in Callers /\ w \in CallerStates /\ v \in CallerStates /\ w = caller[c] /\ v = caller'[c]
      /\ kind' = kind /\ kind \in KindNames /\ Placed(w) /\ Placed(v) /\ Acts(w, v)
      /\ \A d \in Callers : d # c => caller'[d] = caller[d]
      /\ \A x : Held(x)' = Held(x)
  BY TurnFacts
<1>2. v.pc \notin Ended => Held(w) \subseteq Held(v)
  BY DEF Turn, Advance
<1>3. \A x : Keyed(x)' = Keyed(x)
  BY <1>1, KindFixed DEF Keyed, ClaimFile
<1>4. ASSUME v.key
      PROVE  ClaimFile(v.root, v.phase) \in Held(v)
  <2>1. v.pc \notin Ended
    BY <1>1, <1>4 DEF Placed
  <2>2. w.key \/ w.pc = "key"
    <3>1. CASE \E f \in FileNames : MakeStep(w, v, f)
      BY <1>4, <3>1 DEF MakeStep, Took
    <3>2. CASE Left(v)
      BY <1>4, <3>2 DEF Left
    <3> QED  BY <1>1, <1>4, <3>1, <3>2
             DEF Acts, CalmStep, QuitStep, BeginStep, JudgeStep, KeepStep, Took, AdmitStep, PostStep, SettleStep,
                 AccountStep, SummaryStep, Went
  <2>3. ClaimFile(w.root, w.phase) \in Held(w)
    BY <1>1, <2>2, HeldWorking DEF KeyedAll, Keyed, Working, InCell
  <2>4. w.pc # "idle"
    BY <1>1, <2>2 DEF Placed, Ended
  <2>5. v.root = w.root
    BY <1>1, <2>1, <2>4, InCall
  <2>6. v.phase = w.phase \/ TwoPhase
    <3>1. CASE v.phase = 2 /\ w.phase # 2
      <4>1. InSecond(v, v.root) /\ ~InSecond(w, v.root)
        BY <2>1, <3>1 DEF InSecond
      <4>2. JudgeStep(w, v)
        BY <1>1, <2>4, <4>1, Entering DEF BeginStep
      <4> QED  BY <1>1, <4>2 DEF JudgeStep, Placed
    <3>2. CASE ~(v.phase = 2 /\ w.phase # 2)
      <4>1. ~Left(v)
        BY <2>1 DEF Left, Ended
      <4> QED  BY <1>1, <2>4, <3>2, <4>1, PhaseKept
    <3> QED  BY <3>1, <3>2
  <2>7. ClaimFile(v.root, v.phase) = ClaimFile(w.root, w.phase)
    BY <2>5, <2>6 DEF ClaimFile
  <2> QED  BY <1>2, <2>1, <2>3, <2>7
<1>5. ASSUME NEW d \in Callers
      PROVE  Keyed(caller[d])'
  <2>1. PICK x : x = caller'[d]
    OBVIOUS
  <2>2. Keyed(x)
    BY <1>1, <1>4, <2>1 DEF KeyedAll, Keyed
  <2> QED  BY <1>3, <2>1, <2>2
<1> QED  BY <1>5 DEF KeyedAll

-----------------------------------------------------------------------------
(* The invariant and the theorems.                                          *)

Ledgers == Recorded /\ BooksAll /\ TracesAll
Standing == SecondInv /\ OriginInv /\ KeyedAll
StageInv == BaseInv /\ SentInv /\ Ledgers /\ Standing

LEMMA StageInvInit ==
  ASSUME StageInit
  PROVE  StageInv
<1>1. BaseInv /\ SentInv
  BY BaseInit, SentInit
<1>2. /\ \A c \in Callers : caller[c] = Idle
      /\ \A s \in Slots : ledger[s] = <<>> /\ summary[s] = "none" /\ origin[s] = "none"
                          /\ \A i \in Cell : results[s][i] = "none"
  BY DEF StageInit
<1>3. Held(Idle) = {} /\ ~Idle.key /\ Idle.pc \in Ended
  BY IdleTyped DEF Held, Ended
<1>4. Recorded
  BY <1>2 DEF Recorded
<1>5. BooksAll
  BY <1>2, <1>3 DEF BooksAll, Books
<1>6. TracesAll
  BY <1>2, <1>3 DEF TracesAll, Traces
<1>7. \A r \in Roots : <<r, 1>> \in Slots /\ <<r, 2>> \in Slots
  BY DEF Slots, Phases
<1>8. SecondInv
  BY <1>2, <1>3, <1>7 DEF SecondInv, Stands, InSecond
<1>9. OriginInv
  BY <1>2, <1>3, <1>7 DEF OriginInv, Lively
<1>10. KeyedAll
  BY <1>2, <1>3 DEF KeyedAll, Keyed
<1> QED  BY <1>1, <1>4, <1>5, <1>6, <1>8, <1>9, <1>10 DEF StageInv, Ledgers, Standing

\* A step outside every call changes nothing the invariant speaks of.
LEMMA QuietKeeps ==
  ASSUME StageInv, Quiet
  PROVE  SentInv' /\ Ledgers' /\ Standing'
<1>1. /\ kind' = kind /\ files' = files /\ ledger' = ledger /\ results' = results /\ summary' = summary
      /\ origin' = origin /\ sent' = sent /\ caller' = caller
  BY DEF Quiet, DiskSame
<1>2. /\ \A x : Held(x)' = Held(x)
      /\ \A p : Token(p)' = Token(p)
      /\ \A c \in Callers : caller[c] \in CallerStates
  BY <1>1, KindFixed, TokenFixed DEF StageInv, BaseInv, StageTyped
<1>3. SentInv'
  BY <1>1, <1>2 DEF StageInv, SentInv, NothingAhead, Ahead
<1>4. Recorded'
  BY <1>1 DEF StageInv, Ledgers, Recorded, ScopeFile, ScopePhase, TwoPhase, LedgerFile
<1>5. BooksAll'
  <2>1. ASSUME NEW c \in Callers
        PROVE  Books(caller[c])'
    <3>1. PICK x \in CallerStates : x = caller[c] /\ x = caller'[c]
      BY <1>1, <1>2
    <3>2. Books(x)
      BY <3>1 DEF StageInv, Ledgers, BooksAll
    <3>3. Books(x)'
      BY <1>1, <3>2, BooksKept
    <3> QED  BY <3>1, <3>3
  <2> QED  BY <2>1 DEF BooksAll
<1>6. TracesAll'
  <2>1. ASSUME NEW c \in Callers
        PROVE  Traces(caller[c])'
    <3>1. PICK x \in CallerStates : x = caller[c] /\ x = caller'[c]
      BY <1>1, <1>2
    <3>2. Traces(x)
      BY <3>1 DEF StageInv, Ledgers, TracesAll
    <3>3. Traces(x)'
      BY <1>1, <3>2, TracesFixed
    <3> QED  BY <3>1, <3>3
  <2> QED  BY <2>1 DEF TracesAll
<1>7. SecondInv'
  <2>1. \A r : FirstLedger(r)' = FirstLedger(r) /\ Earned(r)' = Earned(r)
    BY <1>1, EarnedFixed DEF FirstLedger, LedgerFile
  <2>2. \A c \in Callers : Held(caller[c])' = Held(caller[c])
    BY <1>1, <1>2
  <2> QED  BY <1>1, <2>1, <2>2 DEF StageInv, Standing, SecondInv, Stands, InSecond, Firm, Closed
<1>8. OriginInv'
  <2>1. \A c \in Callers : Held(caller[c])' = Held(caller[c])
    BY <1>1, <1>2
  <2> QED  BY <1>1, <2>1 DEF StageInv, Standing, OriginInv, Lively, ClaimOf
<1>9. KeyedAll'
  <2>1. \A c \in Callers : Held(caller[c])' = Held(caller[c])
    BY <1>1, <1>2
  <2> QED  BY <1>1, <2>1, KindFixed DEF StageInv, Standing, KeyedAll, Keyed, ClaimFile
<1> QED  BY <1>3, <1>4, <1>5, <1>6, <1>7, <1>8, <1>9 DEF Ledgers, Standing

LEMMA StageInvNext ==
  ASSUME StageInv, [StageNext]_stageVars
  PROVE  StageInv'
<1>1. BaseInv /\ SentInv /\ Recorded /\ BooksAll /\ TracesAll /\ SecondInv /\ OriginInv /\ KeyedAll
  BY DEF StageInv, Ledgers, Standing
<1>2. BaseInv' /\ (Quiet \/ \E c, w, v : Turn(c, w, v))
  BY <1>1, BaseNext
<1>3. CASE Quiet
  BY <1>2, <1>3, QuietKeeps DEF StageInv
<1>4. ASSUME NEW c, NEW w, NEW v, Turn(c, w, v)
      PROVE  SentInv' /\ Ledgers' /\ Standing'
  <2>1. SentInv' /\ Recorded' /\ TracesAll'
    BY <1>1, <1>4, SentNext, RecordedNext, TracesNext
  <2>2. BooksAll'
    <3>1. JudgeStep(w, v) => ~w.stop
      BY <1>1, <1>4, QualifiedRan
    <3> QED  BY <1>1, <1>4, <3>1, BooksNext
  <2>3. SecondInv' /\ OriginInv' /\ KeyedAll'
    BY <1>1, <1>4, SecondNext, OriginNext, KeyedNext
  <2> QED  BY <2>1, <2>2, <2>3 DEF Ledgers, Standing
<1> QED  BY <1>2, <1>3, <1>4 DEF StageInv

LEMMA StageInvariant == StageSpec => []StageInv
<1>1. StageInit => StageInv
  BY StageInvInit
<1>2. StageInv /\ [StageNext]_stageVars => StageInv'
  BY StageInvNext
<1> QED  BY <1>1, <1>2, PTL DEF StageSpec

\* Every variable of a gate keeps its type, in every experiment and for every
\* number of cells, decisions, callers and control roots.
THEOREM StagesStayTyped == StageSpec => []StageTyped
<1>1. StageInv => StageTyped
  BY DEF StageInv, BaseInv
<1> QED  BY <1>1, StageInvariant, PTL

\* No request is sent twice: not by two processes started on one claim, not by two
\* continuations of one source, not after a death at any step.
THEOREM RequestsAreSentOnce == StageSpec => []SentOnce
<1>1. ASSUME StageInv
      PROVE  SentOnce
  <2>1. DOMAIN sent = Phases \X Cell \X (1..Decisions)
    BY <1>1 DEF StageInv, BaseInv, StageTyped, DiskTyped
  <2>2. ASSUME NEW i \in DOMAIN sent
        PROVE  sent[i] <= 1
    <3>1. PICK p \in Phases, a \in Cell, k \in 1..Decisions : i = <<p, a, k>>
      BY <2>1
    <3> QED  BY <1>1, <3>1 DEF StageInv, SentInv
  <2> QED  BY <2>2 DEF SentOnce
<1> QED  BY <1>1, StageInvariant, PTL

\* A request leaves only over its own durable reservation, with everything else of
\* its scope billed under one fingerprint and the budget covering it; the key is
\* held only by a call whose claim is on disk.
THEOREM SendsAreBacked == StageSpec => []SendBacked
<1>1. ASSUME StageInv
      PROVE  SendBacked
  <2>1. ASSUME NEW c \in Callers
        PROVE  /\ caller[c] \in CallerStates /\ Placed(caller[c]) /\ kind \in KindNames /\ DiskTyped
               /\ Books(caller[c]) /\ Held(caller[c]) \subseteq files /\ Keyed(caller[c])
    BY <1>1 DEF StageInv, BaseInv, StageTyped, PlacedAll, Owned, Ledgers, BooksAll, Standing, KeyedAll
  <2>2. ASSUME NEW c \in Callers, caller[c].pc = "wire", NEW s, s = Slot(c)
        PROVE  /\ Last(ledger[s]).state = "reserved" /\ Occupied(s) <= MaxUsd
               /\ \A p \in Phases : \A row \in Rows(<<caller[c].root, p>>) \ {Last(ledger[s])} :
                    p = caller[c].phase \/ TwoPhase => row.state = "settled" /\ row.print = caller[c].print
    <3>1. PICK w \in CallerStates : w = caller[c]
      BY <2>1
    <3>2. s = Place(w) /\ Last(ledger[s]) = ledger[s][Len(ledger[s])]
      BY <2>2, <3>1 DEF Slot, Place, Last
    <3>3. ScopeFile(w.root, w.phase) \in Held(w)
      BY <2>1, <2>2, <3>1, HeldWorking DEF Working, InCell
    <3>4. OneReserved(w) /\ Occupied(Place(w)) <= MaxUsd
      BY <2>1, <2>2, <3>1, <3>3 DEF Books
    <3>5. ASSUME NEW p \in Phases, NEW row \in Rows(<<w.root, p>>) \ {Last(ledger[s])},
                 p = w.phase \/ TwoPhase
          PROVE  row.state = "settled" /\ row.print = w.print
      <4>1. <<w.root, p>> \in Slots /\ InScope(w, <<w.root, p>>)
        BY <3>5 DEF Slots, CallerStates, InScope
      <4>2. PICK i \in DOMAIN ledger[<<w.root, p>>] : row = ledger[<<w.root, p>>][i]
        BY <3>5 DEF Rows
      <4>3. <<w.root, p>> # Place(w) \/ i # Len(ledger[<<w.root, p>>])
        BY <3>2, <3>5, <4>2
      <4>4. Good(ledger[<<w.root, p>>][i], w.print)
        BY <3>4, <4>1, <4>2, <4>3 DEF OneReserved, OthersGood
      <4> QED  BY <4>2, <4>4 DEF Good
    <3> QED  BY <3>1, <3>2, <3>4, <3>5 DEF OneReserved
  <2>3. ASSUME NEW c \in Callers, caller[c].key
        PROVE  caller[c].pc \notin Ended /\ \E f \in files : f[1] = caller[c].root /\ f[3] = "claim"
    <3>1. ClaimFile(caller[c].root, caller[c].phase) \in files
      BY <2>1, <2>3 DEF Keyed
    <3>2. caller[c].pc \notin Ended
      BY <2>1, <2>3 DEF Placed
    <3> QED  BY <3>1, <3>2 DEF ClaimFile
  <2>4. ASSUME NEW c \in Callers, caller[c].pc = "wire"
        PROVE  LET s == Slot(c)
                   others == (UNION {Rows(<<caller[c].root, p>>) : p \in Phases}) \ {Last(ledger[s])}
                   mine == IF TwoPhase THEN others ELSE Rows(s) \ {Last(ledger[s])}
               IN /\ Last(ledger[s]).state = "reserved"
                  /\ \A row \in mine : row.state = "settled" /\ row.print = caller[c].print
                  /\ Occupied(s) <= MaxUsd
    <3> DEFINE s == Slot(c)
               others == (UNION {Rows(<<caller[c].root, p>>) : p \in Phases}) \ {Last(ledger[s])}
    <3>1. /\ Last(ledger[s]).state = "reserved" /\ Occupied(s) <= MaxUsd
          /\ \A p \in Phases : \A row \in Rows(<<caller[c].root, p>>) \ {Last(ledger[s])} :
               p = caller[c].phase \/ TwoPhase => row.state = "settled" /\ row.print = caller[c].print
      BY <2>2, <2>4
    <3>2. s = <<caller[c].root, caller[c].phase>> /\ caller[c].phase \in Phases
      BY <2>1 DEF Slot, CallerStates
    <3> HIDE DEF s
    <3>3. ASSUME NEW row \in IF TwoPhase THEN others ELSE Rows(s) \ {Last(ledger[s])}
          PROVE  row.state = "settled" /\ row.print = caller[c].print
      <4>1. PICK p \in Phases : row \in Rows(<<caller[c].root, p>>) \ {Last(ledger[s])} /\ (p = caller[c].phase \/ TwoPhase)
        <5>1. CASE TwoPhase
          BY <3>3, <5>1
        <5>2. CASE ~TwoPhase
          BY <3>2, <3>3, <5>2
        <5> QED  BY <5>1, <5>2
      <4> QED  BY <3>1, <4>1
    <3> QED  BY <3>1, <3>3 DEF s
  <2> QED  BY <2>3, <2>4 DEF SendBacked
<1> QED  BY <1>1, StageInvariant, PTL

\* A second phase with any request stands on a first one that is billed, pinned and
\* within its contract, and a real one never on a rehearsal.
THEOREM SecondPhasesAreEarned == StageSpec => []SecondPhaseEarned
<1>1. ASSUME StageInv
      PROVE  SecondPhaseEarned
  <2>1. ASSUME NEW r \in Roots, ledger[<<r, 2>>] # <<>>
        PROVE  Earned(r) /\ (origin[<<r, 2>>] = "live" => origin[<<r, 1>>] = "live")
    BY <1>1, <2>1 DEF StageInv, Standing, SecondInv, Stands, Firm, OriginInv
  <2> QED  BY <2>1 DEF SecondPhaseEarned, Earned
<1> QED  BY <1>1, StageInvariant, PTL
=============================================================================
