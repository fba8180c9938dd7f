--------------------------- MODULE SpendChargeProofs ---------------------------
(***************************************************************************)
(* What every accepted usage is charged, for all counters up to the        *)
(* context limit and every limit on output a request may have.             *)
(***************************************************************************)
EXTENDS SpendCharge, TLAPS

(* A whole number between one and a limit. *)
UpTo(x, limit) == x \in Nat /\ 0 < x /\ x <= limit

(* A natural number of millionths, rounded up: the least whole number that *)
(* covers it.                                                              *)
LEMMA CeilingCovers ==
  ASSUME NEW n \in Nat
  PROVE  LET c == (n + Million - 1) \div Million
         IN  c \in Nat /\ n <= c * Million /\ c * Million < n + Million
BY SMT DEF Million

(* The counters an accepted reply leaves behind are whole numbers that add *)
(* up.                                                                     *)
LEMMA NormalizedCounts ==
  ASSUME NEW maxOutput \in Nat, maxOutput <= OutputLimit, NEW u \in Usage, Accepted(u, maxOutput)
  PROVE  /\ Normalized(u).hit \in Nat /\ Normalized(u).miss \in Nat
         /\ Normalized(u).hit + Normalized(u).miss = u.prompt
         /\ Normalized(u).prompt = u.prompt /\ Normalized(u).output = u.output
         /\ UpTo(u.prompt, ContextLimit) /\ UpTo(u.output, OutputLimit)
<1>1. UpTo(u.prompt, ContextLimit) /\ UpTo(u.output, OutputLimit)
  BY SMT DEF Accepted, Usage, UpTo, OutputLimit, ContextLimit
<1>2. CASE SplitMissing(u)
  BY <1>1, <1>2, SMT DEF Normalized, Usage, UpTo
<1>3. CASE ~SplitMissing(u)
  <2>1. u.hit \in Nat /\ u.miss \in Nat /\ u.hit + u.miss = u.prompt
    BY <1>3, SMT DEF Accepted, Usage
  <2> QED BY <1>1, <1>3, <2>1, SMT DEF Normalized
<1> QED BY <1>2, <1>3

LEMMA NumeratorBounds ==
  ASSUME NEW maxOutput \in Nat, maxOutput <= OutputLimit, NEW u \in Usage, Accepted(u, maxOutput)
  PROVE  UpTo(Numerator(Normalized(u)), 307200000000)
<1> DEFINE n == Normalized(u)
<1>1. /\ n.hit \in Nat /\ n.miss \in Nat /\ n.hit + n.miss = u.prompt
      /\ UpTo(n.output, OutputLimit) /\ UpTo(u.prompt, ContextLimit)
  BY NormalizedCounts, SMT
<1> HIDE DEF n
<1>2. UpTo(Numerator(n), 307200000000)
  BY <1>1, SMT DEF Numerator, MissRate, HitRate, OutputRate, ContextLimit, OutputLimit, UpTo
<1> QED BY <1>2, SMT DEF n

(* A request whose usage _usage_evidence accepts costs at least a           *)
(* micro-dollar and never more than its reservation: the ledger's answer    *)
(* "usage_unknown" for a larger charge is unreachable, and a settlement     *)
(* always frees money.                                                      *)
THEOREM AcceptedChargeFits ==
  ASSUME NEW maxOutput \in Nat, maxOutput <= OutputLimit, NEW u \in Usage, Accepted(u, maxOutput)
  PROVE  UpTo(Charge(u), OneReservation)
<1> DEFINE k == Numerator(Normalized(u))
<1>1. UpTo(k, 307200000000)
  BY NumeratorBounds, SMT
<1>2. Charge(u) = (k + Million - 1) \div Million
  BY SMT DEF Charge
<1> HIDE DEF k
<1> QED BY <1>1, <1>2, SMT DEF Million, OneReservation, UpTo

(* The charge covers the price of the tokens and exceeds it by less than a  *)
(* micro-dollar, so the sum of a batch is never below what its price        *)
(* snapshot says.                                                           *)
THEOREM ChargeCoversPrice ==
  ASSUME NEW maxOutput \in Nat, maxOutput <= OutputLimit, NEW u \in Usage, Accepted(u, maxOutput)
  PROVE  /\ Numerator(Normalized(u)) <= Charge(u) * Million
         /\ Charge(u) * Million < Numerator(Normalized(u)) + Million
<1> DEFINE k == Numerator(Normalized(u))
<1>1. k \in Nat
  BY NumeratorBounds, SMT DEF UpTo
<1> HIDE DEF k
<1>2. LET c == (k + Million - 1) \div Million
      IN  c \in Nat /\ k <= c * Million /\ c * Million < k + Million
  BY <1>1, CeilingCovers, SMT
<1> QED BY <1>2, SMT DEF Charge, k

(* Leaving the cache split out never makes a request cheaper: a reply with  *)
(* the same tokens and any split that adds up is charged no more.           *)
THEOREM MissingSplitNotCheaper ==
  ASSUME NEW maxOutput \in Nat, maxOutput <= OutputLimit,
         NEW u \in Usage, Accepted(u, maxOutput), SplitMissing(u),
         NEW v \in Usage, Accepted(v, maxOutput),
         v.prompt = u.prompt, v.output = u.output
  PROVE  Charge(v) <= Charge(u)
<1> DEFINE m == Normalized(u)
           n == Normalized(v)
<1>1. m.hit = 0 /\ m.miss = u.prompt /\ m.output = u.output
  BY SMT DEF Normalized
<1>2. n.hit \in Nat /\ n.miss \in Nat /\ n.hit + n.miss = u.prompt /\ n.output = u.output
  BY NormalizedCounts, SMT
<1>3. u.prompt \in Nat /\ u.output \in Nat
  BY NormalizedCounts, SMT DEF UpTo
<1> HIDE DEF m, n
<1>4. Numerator(m) \in Nat /\ Numerator(n) \in Nat /\ Numerator(n) <= Numerator(m)
  BY <1>1, <1>2, <1>3, SMT DEF Numerator, MissRate, HitRate, OutputRate
<1>5. (Numerator(n) + Million - 1) \div Million <= (Numerator(m) + Million - 1) \div Million
  <2> DEFINE a == Numerator(n)
             b == Numerator(m)
  <2>1. a \in Nat /\ b \in Nat /\ a <= b
    BY <1>4, SMT
  <2> HIDE DEF a, b
  <2>2. (a + Million - 1) \div Million <= (b + Million - 1) \div Million
    BY <2>1, SMT DEF Million
  <2> QED BY <2>2, SMT DEF a, b
<1> QED BY <1>5, SMT DEF Charge, m, n

(* What a settlement writes, every later reading of the ledger accepts: the *)
(* counters kept pass the checks of _normalized_charge.                     *)
THEOREM SettledReadsBack ==
  ASSUME NEW maxOutput \in Nat, maxOutput <= OutputLimit, NEW u \in Usage, Accepted(u, maxOutput)
  PROVE  Chargeable(Normalized(u), maxOutput)
<1>1. CASE SplitMissing(u)
  BY <1>1, SMT DEF Normalized, Chargeable, Accepted, Usage, Within, ContextLimit
<1>2. CASE ~SplitMissing(u)
  BY <1>2, SMT DEF Normalized, Chargeable, Accepted, Usage, Within, ContextLimit
<1> QED BY <1>1, <1>2
=============================================================================
