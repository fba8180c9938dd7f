------------------------------ MODULE SpendCharge ------------------------------
(***************************************************************************)
(* What a settled request is charged (_usage_evidence and                  *)
(* _normalized_charge of src/src/macr/evals/deepseek_policy_spend.py): the *)
(* counters a provider reports, checked and priced in whole micro-dollars. *)
(* Nothing here has state; PolicySpend takes a charge as any cost within   *)
(* one reservation, and SpendChargeProofs shows that it is.                *)
(***************************************************************************)
EXTENDS Integers

(* The price snapshot, in micro-dollars per million tokens. *)
MissRate == 300000
HitRate == 6000
OutputRate == 1200000
Million == 1000000
ContextLimit == 1000000
OutputLimit == 6000
OneReservation == 330000

Missing == -1  \* a counter the reply does not contain

(* The counters of a reply; the cache split and the reasoning tokens may be *)
(* missing, and any of them may be what the provider makes of it.           *)
Usage ==
  [prompt : Int, output : Int, total : Int, hit : Int, miss : Int, reasoning : Int]

Within(value, limit) == value = Missing \/ (0 <= value /\ value <= limit)

(* A reply that reports only one half of the split reports none. *)
SplitMissing(u) == u.hit = Missing \/ u.miss = Missing

(* _usage_evidence refuses a reply whose counters contradict each other or *)
(* the request's own limit on output.                                      *)
Accepted(u, maxOutput) ==
  /\ 0 < u.prompt /\ u.prompt <= ContextLimit
  /\ 0 < u.output /\ u.output <= maxOutput
  /\ u.total \in {Missing, u.prompt + u.output}
  /\ Within(u.reasoning, u.output)
  /\ IF SplitMissing(u) THEN Within(u.hit, u.prompt) /\ Within(u.miss, u.prompt)
     ELSE u.hit >= 0 /\ u.miss >= 0 /\ u.hit + u.miss = u.prompt

(* The counters kept in the ledger: a missing split is charged as if      *)
(* nothing had been cached.                                               *)
Normalized(u) ==
  IF SplitMissing(u)
    THEN [prompt |-> u.prompt, output |-> u.output, hit |-> 0, miss |-> u.prompt,
          basis |-> "all_miss", reasoning |-> u.reasoning]
    ELSE [prompt |-> u.prompt, output |-> u.output, hit |-> u.hit, miss |-> u.miss,
          basis |-> "reported", reasoning |-> u.reasoning]

(* _normalized_charge checks the kept counters again, each time _records   *)
(* reads a settled outcome.                                                *)
Chargeable(n, maxOutput) ==
  /\ 0 < n.prompt /\ n.prompt <= ContextLimit
  /\ 0 < n.output /\ n.output <= maxOutput
  /\ n.hit >= 0 /\ n.miss >= 0 /\ n.hit + n.miss = n.prompt
  /\ n.basis = "all_miss" => n.hit = 0 /\ n.miss = n.prompt
  /\ Within(n.reasoning, n.output)

(* The price times a million, and its ceiling in micro-dollars. *)
Numerator(n) == n.miss * MissRate + n.hit * HitRate + n.output * OutputRate
Charge(u) == (Numerator(Normalized(u)) + Million - 1) \div Million
=============================================================================
