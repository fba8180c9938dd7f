------------------------------ MODULE RunJournal ------------------------------
(***************************************************************************)
(* What a run store promises, whatever it keeps on disk: a journal that    *)
(* only grows, and one state, which an accepted event changes together     *)
(* with the journal and a checkpoint only moves forward.                   *)
(***************************************************************************)
EXTENDS RunState

CONSTANT None

VARIABLES
  log,    \* accepted events, in order
  state   \* what load returns, or None before the first checkpoint

journal == <<log, state>>

Start ==
  /\ state = None
  /\ \E s \in FreshStates : state' = s
  /\ UNCHANGED log

\* A checkpoint moves the state forward and leaves the journal alone.
Revise ==
  /\ state # None
  /\ \E s \in Revisions(state) : Valid(s) /\ Forward(state, s) /\ state' = s
  /\ UNCHANGED log

\* An accepted event and its state are one step.
Accept ==
  /\ state # None
  /\ \E e \in Events :
       /\ Applies(state, e)
       /\ log' = Append(log, e)
       /\ state' = Apply(state, e)

Init == log = <<>> /\ state = None
Next == Start \/ Revise \/ Accept
Spec == Init /\ [][Next]_journal
=============================================================================
