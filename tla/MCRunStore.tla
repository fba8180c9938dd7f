------------------------------ MODULE MCRunStore ------------------------------
\* Instances of RunStore for TLC: one writer of either kind, and two processes
\* that open one root with different stores.
EXTENDS RunStore, TLC

SameKind == {[p \in Procs |-> b] : b \in Kinds}
OneOfEach == {f \in [Procs -> Kinds] : \E p, q \in Procs : f[p] # f[q]}
=============================================================================
