-------------------------------- MODULE SumFacts --------------------------------
(***************************************************************************)
(* Facts about SumFunction, which totals the bytes under the data root     *)
(* (Workbench) and the charges of a batch (PolicySpend): the sum of a      *)
(* function with a finite domain and values in Nat is a natural number,    *)
(* changes by what one entry changes, and grows with its entries.          *)
(*                                                                         *)
(* SumFunction is the value at DOMAIN f of a function defined recursively  *)
(* over the subsets of the domain, so everything here is induction; it     *)
(* rests on Counting and Building, which state induction over Nat and over *)
(* the subsets of a finite set for a SET of good elements, and follow from *)
(* the well-foundedness of < (WFMin).                                      *)
(***************************************************************************)
EXTENDS Integers, FiniteSets, Functions, FiniteSetTheorems, WellFoundedInduction, TLAPS

(* Every non-empty set of natural numbers has a least element. *)
LEMMA LeastElement ==
  ASSUME NEW T \in SUBSET Nat, T # {}
  PROVE  \E n \in T : \A m \in T : n <= m
<1> DEFINE Less == {ss \in Nat \X Nat : ss[1] < ss[2]}
<1>1. IsWellFoundedOn(Less, Nat)
  BY NatLessThanWellFounded DEF OpToRel
<1> HIDE DEF Less
<1>2. \E n \in T : \A m \in T : ~(<<m, n>> \in Less)
  BY <1>1, WFMin
<1>3. \E n \in T : \A m \in T : ~(m < n)
  BY <1>2 DEF Less
<1> QED  BY <1>3

(* Induction over the natural numbers. *)
LEMMA Counting ==
  ASSUME NEW Good, 0 \in Good, \A n \in Nat : n \in Good => n + 1 \in Good
  PROVE  Nat \subseteq Good
<1> SUFFICES ASSUME Nat \ Good # {} PROVE FALSE
  OBVIOUS
<1>1. PICK n \in Nat \ Good : \A m \in Nat \ Good : n <= m
  BY LeastElement
<1>2. n # 0 /\ n \in Nat
  BY <1>1
<1>3. n - 1 \in Nat /\ n - 1 \in Good
  BY <1>1, <1>2
<1>4. (n - 1) + 1 \in Good
  BY <1>3
<1> QED  BY <1>1, <1>2, <1>4

(* Induction over the subsets of a finite set. *)
LEMMA Building ==
  ASSUME NEW S, IsFiniteSet(S), NEW Good,
         \A s \in SUBSET S : (\A y \in s : s \ {y} \in Good) => s \in Good
  PROVE  SUBSET S \subseteq Good
<1> SUFFICES ASSUME (SUBSET S) \ Good # {} PROVE FALSE
  OBVIOUS
<1> DEFINE Sizes == {Cardinality(s) : s \in (SUBSET S) \ Good}
<1>1. \A s \in SUBSET S : IsFiniteSet(s) /\ Cardinality(s) \in Nat
  BY FS_Subset, FS_CardinalityType
<1>2. Sizes \in SUBSET Nat /\ Sizes # {}
  BY <1>1
<1>3. PICK n \in Sizes : \A m \in Sizes : n <= m
  <2> HIDE DEF Sizes
  <2> QED  BY <1>2, LeastElement
<1>4. PICK s \in (SUBSET S) \ Good : n = Cardinality(s)
  BY <1>3, Zenon
<1>5. PICK y \in s : s \ {y} \notin Good
  BY <1>4
<1>6. Cardinality(s \ {y}) = Cardinality(s) - 1
  BY <1>1, <1>5, FS_RemoveElement
<1>7. Cardinality(s \ {y}) \in Sizes
  BY <1>5
<1>8. Cardinality(s) <= Cardinality(s \ {y})
  BY <1>3, <1>4, <1>7
<1>9. Cardinality(s) \in Nat
  BY <1>1
<1> QED  BY <1>6, <1>8, <1>9

--------------------------------------------------------------------------------
(* The partial sums of f, one for every subset of its domain. *)
Chosen(s) == CHOOSE x \in s : TRUE

PartialSums(f, S, t) ==
  t = [s \in SUBSET S |-> IF s = {} THEN 0 ELSE f[Chosen(s)] + t[s \ {Chosen(s)}]]

LEMMA PartialSumsExist ==
  ASSUME NEW S, IsFiniteSet(S), NEW f
  PROVE  \E t : PartialSums(f, S, t)
<1> DEFINE Upto(n) == {s \in SUBSET S : Cardinality(s) <= n}
           Sums(t, n) == t = [s \in Upto(n) |-> IF s = {} THEN 0
                                               ELSE f[Chosen(s)] + t[s \ {Chosen(s)}]]
           Good == {n \in Nat : \E t : Sums(t, n)}
<1>1. \A s \in SUBSET S : IsFiniteSet(s) /\ Cardinality(s) \in Nat
  BY FS_Subset, FS_CardinalityType
<1>2. \A s \in SUBSET S : s # {} =>
        /\ Chosen(s) \in s /\ s \ {Chosen(s)} \in SUBSET S
        /\ Cardinality(s \ {Chosen(s)}) = Cardinality(s) - 1
  BY <1>1, FS_RemoveElement DEF Chosen
<1>3. 0 \in Good
  <2>1. \A s \in SUBSET S : Cardinality(s) <= 0 <=> s = {}
    BY <1>1, FS_EmptySet
  <2>2. Sums([s \in Upto(0) |-> 0], 0)
    BY <2>1
  <2> QED  BY <2>2
<1>4. ASSUME NEW n \in Nat, n \in Good
      PROVE  n + 1 \in Good
  <2>1. PICK t : Sums(t, n)
    BY <1>4
  <2> DEFINE u == [s \in Upto(n + 1) |-> IF s = {} THEN 0
                                         ELSE f[Chosen(s)] + t[s \ {Chosen(s)}]]
  <2>2. \A s \in Upto(n) : s \in Upto(n + 1) /\ u[s] = t[s]
    <3> SUFFICES ASSUME NEW s \in Upto(n)
                 PROVE  s \in Upto(n + 1) /\ u[s] = t[s]
      OBVIOUS
    <3>1. s \in Upto(n + 1)
      BY <1>1
    <3>2. t[s] = IF s = {} THEN 0 ELSE f[Chosen(s)] + t[s \ {Chosen(s)}]
      BY <2>1
    <3> QED  BY <3>1, <3>2
  <2>3. \A s \in Upto(n + 1) : s # {} => s \ {Chosen(s)} \in Upto(n)
    BY <1>1, <1>2
  <2>4. \A s \in Upto(n + 1) : s # {} => u[s \ {Chosen(s)}] = t[s \ {Chosen(s)}]
    BY <2>2, <2>3
  <2>5. u = [s \in Upto(n + 1) |-> IF s = {} THEN 0
                                   ELSE f[Chosen(s)] + u[s \ {Chosen(s)}]]
    BY <2>4
  <2> HIDE DEF u
  <2>6. Sums(u, n + 1)
    BY <2>5
  <2> HIDE DEF Sums
  <2> QED  BY <2>6
<1> HIDE DEF Good
<1>5. Cardinality(S) \in Good
  BY <1>1, <1>3, <1>4, Counting
<1>6. PICK t : Sums(t, Cardinality(S))
  BY <1>5 DEF Good
<1>7. Upto(Cardinality(S)) = SUBSET S
  BY FS_Subset
<1> QED  BY <1>6, <1>7 DEF PartialSums

(* SumFunction(f) is the partial sum over the whole domain. *)
LEMMA SumIsPartialSum ==
  ASSUME NEW S, IsFiniteSet(S), NEW f \in [S -> Nat]
  PROVE  \E t : PartialSums(f, S, t) /\ SumFunction(f) = t[S]
<1> DEFINE t == CHOOSE t : PartialSums(f, S, t)
<1>1. PartialSums(f, S, t)
  BY PartialSumsExist
<1>2. DOMAIN f = S
  OBVIOUS
<1>3. SumFunction(f) = t[S]
  BY <1>2 DEF SumFunction, SumFunctionOnSet, FoldFunctionOnSet, MapThenFoldSet, PartialSums, Chosen
<1> QED  BY <1>1, <1>3

(* The facts about partial sums that need induction: they are natural       *)
(* numbers, and any element may be the one that is added last.              *)
Totals(f, S, t) ==
  /\ \A s \in SUBSET S : t[s] \in Nat
  /\ \A s \in SUBSET S : \A x \in s : t[s] = f[x] + t[s \ {x}]

LEMMA PartialSumFacts ==
  ASSUME NEW S, IsFiniteSet(S), NEW f \in [S -> Nat], NEW t, PartialSums(f, S, t)
  PROVE  Totals(f, S, t)
<1>1. /\ t[{}] = 0
      /\ \A s \in SUBSET S : s # {} =>
           Chosen(s) \in s /\ s \ {Chosen(s)} \in SUBSET S /\ t[s] = f[Chosen(s)] + t[s \ {Chosen(s)}]
  BY DEF PartialSums, Chosen
<1> DEFINE Typed == {s \in SUBSET S : t[s] \in Nat}
<1>2. SUBSET S \subseteq Typed
  <2>1. ASSUME NEW s \in SUBSET S, \A y \in s : s \ {y} \in Typed
        PROVE  s \in Typed
    <3>1. CASE s = {}
      BY <1>1, <3>1
    <3>2. CASE s # {}
      <4>1. t[s \ {Chosen(s)}] \in Nat /\ f[Chosen(s)] \in Nat
        BY <1>1, <2>1, <3>2
      <4> QED  BY <1>1, <3>2, <4>1
    <3> QED  BY <3>1, <3>2
  <2> HIDE DEF Typed
  <2> QED  BY <2>1, Building
<1> DEFINE Good == {s \in SUBSET S : \A x \in s : t[s] = f[x] + t[s \ {x}]}
<1>3. SUBSET S \subseteq Good
  <2>1. ASSUME NEW s \in SUBSET S, \A y \in s : s \ {y} \in Good
        PROVE  s \in Good
    <3> SUFFICES ASSUME NEW x \in s, x # Chosen(s)
                 PROVE  t[s] = f[x] + t[s \ {x}]
      BY <1>1
    <3> DEFINE c == Chosen(s)
    <3>1. c \in s /\ t[s] = f[c] + t[s \ {c}]
      BY <1>1
    <3> HIDE DEF c
    <3>2. t[s \ {c}] = f[x] + t[(s \ {c}) \ {x}]
      BY <2>1, <3>1 DEF c
    <3>3. t[s \ {x}] = f[c] + t[(s \ {x}) \ {c}]
      BY <2>1, <3>1 DEF c
    <3>4. (s \ {x}) \ {c} = (s \ {c}) \ {x}
      OBVIOUS
    <3>5. f[x] \in Nat /\ f[c] \in Nat /\ t[(s \ {c}) \ {x}] \in Nat
      BY <1>2, <3>1
    <3> QED  BY <3>1, <3>2, <3>3, <3>4, <3>5
  <2> HIDE DEF Good
  <2> QED  BY <2>1, Building
<1> QED  BY <1>2, <1>3 DEF Totals

(* Partial sums grow with the entries they add. *)
LEMMA PartialSumsGrow ==
  ASSUME NEW S, IsFiniteSet(S), NEW f \in [S -> Nat], NEW g \in [S -> Nat],
         NEW t, PartialSums(f, S, t), NEW u, PartialSums(g, S, u)
  PROVE  \A s \in SUBSET S : (\A x \in s : f[x] <= g[x]) => t[s] <= u[s]
<1> DEFINE Good == {s \in SUBSET S : (\A x \in s : f[x] <= g[x]) => t[s] <= u[s]}
<1>1. ASSUME NEW s \in SUBSET S, \A y \in s : s \ {y} \in Good
      PROVE  s \in Good
  <2>1. CASE s = {}
    BY <2>1 DEF PartialSums
  <2>2. CASE s # {}
    <3> SUFFICES ASSUME \A x \in s : f[x] <= g[x] PROVE t[s] <= u[s]
      OBVIOUS
    <3>1. PICK x \in s : TRUE
      BY <2>2
    <3>2. t[s \ {x}] <= u[s \ {x}]
      BY <1>1
    <3>3. t[s] = f[x] + t[s \ {x}] /\ t[s \ {x}] \in Nat
      BY PartialSumFacts DEF Totals
    <3>4. u[s] = g[x] + u[s \ {x}] /\ u[s \ {x}] \in Nat
      BY PartialSumFacts DEF Totals
    <3>5. f[x] \in Nat /\ g[x] \in Nat /\ f[x] <= g[x]
      OBVIOUS
    <3> QED  BY <3>2, <3>3, <3>4, <3>5
  <2> QED  BY <2>1, <2>2
<1> HIDE DEF Good
<1>2. SUBSET S \subseteq Good
  BY <1>1, Building
<1> QED  BY <1>2 DEF Good

--------------------------------------------------------------------------------
(* What the other modules use *)

(* A sum is a natural number, at least each of its entries.                *)
LEMMA SumType ==
  ASSUME NEW S, IsFiniteSet(S), NEW f \in [S -> Nat]
  PROVE  /\ SumFunction(f) \in Nat
         /\ \A x \in S : f[x] <= SumFunction(f)
<1>1. PICK t : PartialSums(f, S, t) /\ SumFunction(f) = t[S]
  BY SumIsPartialSum
<1>2. /\ \A s \in SUBSET S : t[s] \in Nat
      /\ \A s \in SUBSET S : \A x \in s : t[s] = f[x] + t[s \ {x}]
  <2>1. Totals(f, S, t)
    BY <1>1, PartialSumFacts
  <2> QED  BY <2>1 DEF Totals
<1>3. SumFunction(f) \in Nat
  BY <1>1, <1>2
<1>4. ASSUME NEW x \in S
      PROVE  f[x] <= SumFunction(f)
  <2>1. /\ SumFunction(f) = f[x] + t[S \ {x}]
        /\ f[x] \in Nat /\ t[S \ {x}] \in Nat
    BY <1>1, <1>2
  <2> QED  BY <2>1
<1> QED  BY <1>3, <1>4

(* Larger entries, larger sum. *)
LEMMA SumMonotone ==
  ASSUME NEW S, IsFiniteSet(S), NEW f \in [S -> Nat], NEW g \in [S -> Nat],
         \A x \in S : f[x] <= g[x]
  PROVE  SumFunction(f) <= SumFunction(g)
<1>1. DOMAIN f = S /\ DOMAIN g = S /\ \A x \in S : f[x] \in Nat /\ g[x] \in Nat
  OBVIOUS
<1>2. PICK t : PartialSums(f, S, t) /\ SumFunction(f) = t[S]
  BY <1>1, SumIsPartialSum
<1>3. PICK u : PartialSums(g, S, u) /\ SumFunction(g) = u[S]
  BY <1>1, SumIsPartialSum
<1>4. \A s \in SUBSET S : (\A x \in s : f[x] <= g[x]) => t[s] <= u[s]
  BY <1>1, <1>2, <1>3, PartialSumsGrow
<1> QED  BY <1>1, <1>2, <1>3, <1>4

(* Changing one entry changes the sum by as much. *)
LEMMA SumUpdate ==
  ASSUME NEW S, IsFiniteSet(S), NEW f \in [S -> Nat], NEW g \in [S -> Nat], NEW x \in S,
         \A y \in S \ {x} : g[y] = f[y]
  PROVE  SumFunction(g) + f[x] = SumFunction(f) + g[x]
<1>1. /\ g[x] \in Nat /\ \A y \in S \ {x} : g[y] = f[y]
      /\ DOMAIN f = S /\ DOMAIN g = S /\ \A y \in S : f[y] \in Nat /\ g[y] \in Nat
  OBVIOUS
<1>2. PICK t : PartialSums(f, S, t) /\ SumFunction(f) = t[S]
  BY <1>1, SumIsPartialSum
<1>3. PICK u : PartialSums(g, S, u) /\ SumFunction(g) = u[S]
  BY <1>1, SumIsPartialSum
<1>4. t[S] = f[x] + t[S \ {x}] /\ t[S \ {x}] \in Nat
  <2>1. Totals(f, S, t)
    BY <1>2, PartialSumFacts
  <2> QED  BY <2>1 DEF Totals
<1>5. u[S] = g[x] + u[S \ {x}] /\ u[S \ {x}] \in Nat
  <2>1. Totals(g, S, u)
    BY <1>1, <1>3, PartialSumFacts
  <2> QED  BY <1>1, <2>1 DEF Totals
<1>6. t[S \ {x}] <= u[S \ {x}] /\ u[S \ {x}] <= t[S \ {x}]
  <2>1. \A y \in S \ {x} : f[y] <= g[y] /\ g[y] <= f[y]
    BY <1>1
  <2>2. \A s \in SUBSET S : (\A y \in s : f[y] <= g[y]) => t[s] <= u[s]
    BY <1>1, <1>2, <1>3, PartialSumsGrow
  <2>3. \A s \in SUBSET S : (\A y \in s : g[y] <= f[y]) => u[s] <= t[s]
    BY <1>1, <1>2, <1>3, PartialSumsGrow
  <2> QED  BY <2>1, <2>2, <2>3
<1> QED  BY <1>1, <1>2, <1>3, <1>4, <1>5, <1>6

(* Nothing adds up to nothing. *)
LEMMA SumZero ==
  ASSUME NEW S, IsFiniteSet(S)
  PROVE  SumFunction([x \in S |-> 0]) = 0
<1> DEFINE f == [x \in S |-> 0]
<1>1. f \in [S -> Nat] /\ DOMAIN f = S /\ \A x \in S : f[x] = 0
  OBVIOUS
<1> HIDE DEF f
<1>2. PICK t : PartialSums(f, S, t) /\ SumFunction(f) = t[S]
  BY <1>1, SumIsPartialSum
<1>3. /\ t[{}] = 0
      /\ \A s \in SUBSET S : \A x \in s : t[s] = f[x] + t[s \ {x}]
  <2>1. t[{}] = 0
    BY <1>2 DEF PartialSums
  <2>2. Totals(f, S, t)
    BY <1>1, <1>2, PartialSumFacts
  <2> QED  BY <2>1, <2>2 DEF Totals
<1> DEFINE Good == {s \in SUBSET S : t[s] = 0}
<1>4. ASSUME NEW s \in SUBSET S, \A y \in s : s \ {y} \in Good
      PROVE  s \in Good
  <2>1. CASE s = {}
    BY <1>3, <2>1
  <2>2. CASE s # {}
    <3> PICK x \in s : TRUE
      BY <2>2
    <3>1. t[s] = f[x] + t[s \ {x}] /\ f[x] = 0 /\ t[s \ {x}] = 0
      BY <1>1, <1>3, <1>4
    <3> QED  BY <3>1
  <2> QED  BY <2>1, <2>2
<1>5. SUBSET S \subseteq Good
  <2> HIDE DEF Good
  <2> QED  BY <1>4, Building
<1> QED  BY <1>1, <1>2, <1>5 DEF f

(* Taking one entry out takes its value out of the sum.                     *)
LEMMA SumRemove ==
  ASSUME NEW S, IsFiniteSet(S), NEW f \in [S -> Nat], NEW x \in S
  PROVE  SumFunction(f) = f[x] + SumFunction([y \in S \ {x} |-> f[y]])
<1> DEFINE T == S \ {x}
           h == [y \in T |-> f[y]]
<1>1. h \in [T -> Nat] /\ (\A y \in T : h[y] = f[y]) /\ T \subseteq S /\ IsFiniteSet(T)
  BY FS_Subset
<1>2. PICK t : PartialSums(f, S, t) /\ SumFunction(f) = t[S]
  BY SumIsPartialSum
<1>3. t[S] = f[x] + t[T]
  <2>1. Totals(f, S, t)
    BY <1>2, PartialSumFacts
  <2> QED  BY <2>1 DEF Totals
<1> HIDE DEF h, T
<1>4. PICK u : PartialSums(h, T, u) /\ SumFunction(h) = u[T]
  BY <1>1, SumIsPartialSum
<1> DEFINE Good == {s \in SUBSET T : t[s] = u[s]}
<1>5. ASSUME NEW s \in SUBSET T, \A y \in s : s \ {y} \in Good
      PROVE  s \in Good
  <2>1. CASE s = {}
    BY <1>2, <1>4, <2>1 DEF PartialSums
  <2>2. CASE s # {}
    <3>1. Chosen(s) \in s
      BY <2>2 DEF Chosen
    <3>2. t[s] = f[Chosen(s)] + t[s \ {Chosen(s)}]
      BY <1>1, <1>2, <2>2 DEF PartialSums
    <3>3. u[s] = h[Chosen(s)] + u[s \ {Chosen(s)}]
      BY <1>4, <2>2 DEF PartialSums
    <3> QED  BY <1>1, <1>5, <3>1, <3>2, <3>3
  <2> QED  BY <2>1, <2>2
<1>6. SUBSET T \subseteq Good
  <2> HIDE DEF Good
  <2> QED  BY <1>1, <1>5, Building
<1>7. t[T] = u[T]
  BY <1>6
<1> QED  BY <1>2, <1>3, <1>4, <1>7 DEF h, T

(* The sum over a part of the domain is the sum of the function cut down to *)
(* that part.                                                               *)
LEMMA SumOnPart ==
  ASSUME NEW S, NEW T \in SUBSET S, IsFiniteSet(T), NEW f \in [S -> Nat]
  PROVE  SumFunctionOnSet(f, T) = SumFunction([x \in T |-> f[x]])
<1> DEFINE h == [x \in T |-> f[x]]
           t == CHOOSE t : PartialSums(f, T, t)
<1>1. PartialSums(f, T, t)
  BY PartialSumsExist
<1>2. SumFunctionOnSet(f, T) = t[T]
  BY DEF SumFunctionOnSet, FoldFunctionOnSet, MapThenFoldSet, PartialSums, Chosen
<1>3. h \in [T -> Nat] /\ \A x \in T : h[x] = f[x]
  OBVIOUS
<1> HIDE DEF h, t
<1>4. PICK u : PartialSums(h, T, u) /\ SumFunction(h) = u[T]
  BY <1>3, SumIsPartialSum
<1> DEFINE Good == {s \in SUBSET T : t[s] = u[s]}
<1>5. ASSUME NEW s \in SUBSET T, \A y \in s : s \ {y} \in Good
      PROVE  s \in Good
  <2>1. CASE s = {}
    BY <1>1, <1>4, <2>1 DEF PartialSums
  <2>2. CASE s # {}
    <3>1. Chosen(s) \in s
      BY <2>2 DEF Chosen
    <3>2. t[s] = f[Chosen(s)] + t[s \ {Chosen(s)}]
      BY <1>1, <2>2 DEF PartialSums
    <3>3. u[s] = h[Chosen(s)] + u[s \ {Chosen(s)}]
      BY <1>4, <2>2 DEF PartialSums
    <3> QED  BY <1>3, <1>5, <3>1, <3>2, <3>3
  <2> QED  BY <2>1, <2>2
<1>6. SUBSET T \subseteq Good
  <2> HIDE DEF Good
  <2> QED  BY <1>5, Building
<1> QED  BY <1>2, <1>4, <1>6 DEF h

LEMMA SumOnPartType ==
  ASSUME NEW S, NEW T \in SUBSET S, IsFiniteSet(T), NEW f \in [S -> Nat]
  PROVE  SumFunctionOnSet(f, T) \in Nat
<1> DEFINE h == [x \in T |-> f[x]]
<1>1. SumFunctionOnSet(f, T) = SumFunction(h)
  BY SumOnPart
<1>2. h \in [T -> Nat]
  OBVIOUS
<1> HIDE DEF h
<1> QED  BY <1>1, <1>2, SumType

(* The sum over a part changes by what one entry of the part changes.       *)
PartMoves(f, g, T, x) ==
  /\ SumFunctionOnSet(f, T) \in Nat /\ SumFunctionOnSet(g, T) \in Nat
  /\ x \in T => SumFunctionOnSet(g, T) + f[x] = SumFunctionOnSet(f, T) + g[x]
  /\ x \notin T => SumFunctionOnSet(g, T) = SumFunctionOnSet(f, T)

LEMMA SumOnPartUpdate ==
  ASSUME NEW S, NEW T \in SUBSET S, IsFiniteSet(T), NEW f \in [S -> Nat], NEW g \in [S -> Nat],
         NEW x \in S, \A y \in S \ {x} : g[y] = f[y]
  PROVE  PartMoves(f, g, T, x)
<1> DEFINE a == [y \in T |-> f[y]]
           b == [y \in T |-> g[y]]
<1>1. SumFunctionOnSet(f, T) = SumFunction(a) /\ SumFunctionOnSet(g, T) = SumFunction(b)
  BY SumOnPart
<1>2. /\ a \in [T -> Nat] /\ b \in [T -> Nat]
      /\ \A y \in T : a[y] = f[y] /\ b[y] = g[y]
  OBVIOUS
<1> HIDE DEF a, b
<1>3. SumFunction(a) \in Nat /\ SumFunction(b) \in Nat
  BY <1>2, SumType
<1>4. ASSUME x \in T
      PROVE  SumFunction(b) + f[x] = SumFunction(a) + g[x]
  <2>1. \A y \in T \ {x} : b[y] = a[y]
    BY <1>2
  <2>2. SumFunction(b) + a[x] = SumFunction(a) + b[x]
    BY <1>2, <1>4, <2>1, SumUpdate
  <2> QED  BY <1>2, <1>4, <2>2
<1>5. ASSUME x \notin T
      PROVE  SumFunction(b) = SumFunction(a)
  <2>1. \A y \in T : b[y] = a[y]
    BY <1>2, <1>5
  <2>2. b = a
    BY <1>2, <2>1
  <2> QED  BY <2>2
<1> QED  BY <1>1, <1>3, <1>4, <1>5 DEF PartMoves
=============================================================================
