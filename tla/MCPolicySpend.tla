---------------------------- MODULE MCPolicySpend ----------------------------
(* PolicySpend on small grids, and SpendCharge on boundary values. *)
(* Processes are interchangeable.                                  *)
EXTENDS PolicySpend, SpendCharge, TLC

OneArm == <<1>>
TwoArms == <<1, 3>>

ProcessSymmetry == Permutations(Processes)
(* Bound of the run about succession: one batch spends, the others compete *)
(* for its budget.                                                         *)
OneBatchSpends == Cardinality({b \in Batches : Claimed(b) # {}}) <= 1

SpendSymmetry == Permutations(Processes) \cup Permutations(Batches)

(* A charge is the least number of micro-dollars that covers the price, on *)
(* both sides of the token counts where the ceiling moves.                 *)
Tokens == {0, 1, 2, 3, 4, 166, 167, 333, 334, 999, 1000, 1001}
Replies ==
  {u \in [prompt : Tokens \ {0}, output : {1, 4, 5, 6}, total : {Missing}, hit : Tokens \cup {Missing},
          miss : Tokens \cup {Missing}, reasoning : {Missing, 6, 7}] : Accepted(u, 6)}
ASSUME ChargesMean ==
  \A u \in Replies :
    LET n == Normalized(u)
        covered == {c \in 0..310 : c * Million >= Numerator(n)}
    IN  /\ Charge(u) \in covered
        /\ \A c \in covered : Charge(u) <= c
================================================================================
