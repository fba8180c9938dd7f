------------------------------- MODULE RunState -------------------------------
(***************************************************************************)
(* The state of one investigation and what a journalled event does to it:  *)
(* the domain checks both run stores share (RunStore._validate_state,      *)
(* _apply and _check_forward) with the accounting of a BudgetLedger inside *)
(* them.  Evidence, hypotheses, messages and cursors only grow and are one *)
(* counter, notes; the budget is its count of calls.                       *)
(***************************************************************************)
EXTENDS Naturals, FiniteSets, Sequences, SequencesExt

CONSTANTS
  Actions,    \* action identifiers
  CallLimit,  \* profile.tool_calls
  MaxNotes,   \* bound on notes
  PhasesUsed  \* the phases callers ask for

ASSUME RunStateAssumption ==
  /\ IsFiniteSet(Actions)
  /\ CallLimit \in Nat /\ MaxNotes \in Nat
  /\ PhasesUsed \subseteq STRING

Terminals == {"completed", "budget_exhausted", "inconclusive",
              "blocked_environment", "failed", "cancelled"}

Transitions ==
  [received |-> {"indexing"}, indexing |-> {"checking"},
   checking |-> {"investigating"},
   investigating |-> {"verifying", "reporting"},
   verifying |-> {"investigating", "reporting"}, reporting |-> {"completed"}]

Phases == DOMAIN Transitions \cup Terminals

\* validate_transition: a step of the plan, or giving up from any live phase.
ValidTransition(before, after) ==
  /\ before \in DOMAIN Transitions
  /\ after \in Transitions[before] \cup (Terminals \ {"completed"})

States ==
  [phase: Phases, reservation: [Actions -> {"none", "reserved", "unknown", "settled"}],
   inflight: SUBSET Actions, completed: SUBSET Actions, used: Nat,
   exceeded: BOOLEAN, queue: SUBSET Actions, notes: 0..MaxNotes]

ReservedActions(s) == {a \in Actions : s.reservation[a] = "reserved"}

\* The identities _validate_state requires of a state it reads or writes.
Valid(s) ==
  /\ s.inflight \cap s.completed = {}
  /\ \A a \in s.inflight : s.reservation[a] \in {"reserved", "unknown"}
  /\ \A a \in s.completed : s.reservation[a] = "settled"
  /\ \A a \in Actions :
       /\ s.reservation[a] \in {"reserved", "unknown"} => a \in s.inflight
       /\ s.reservation[a] = "settled" => a \in s.completed
  /\ s.queue \cap (s.inflight \cup s.completed) = {}

\* What a caller hands to its first checkpoint.
FreshStates ==
  {[phase |-> "received", reservation |-> [a \in Actions |-> "none"],
    inflight |-> {}, completed |-> {}, used |-> 0, exceeded |-> FALSE,
    queue |-> q, notes |-> 0] : q \in SUBSET Actions}

\* _check_forward: what a new checkpoint may not take back.  The queue is not
\* compared: an action may leave it or come back until it is dispatched.
Forward(prior, s) ==
  /\ prior.inflight \subseteq s.inflight
  /\ prior.completed \subseteq s.completed
  /\ \A a \in Actions :
       prior.reservation[a] # "none" => s.reservation[a] = prior.reservation[a]
  /\ s.used >= prior.used
  /\ prior.exceeded => s.exceeded
  /\ s.phase # prior.phase => ValidTransition(prior.phase, s.phase)
  /\ s.notes >= prior.notes

\* BudgetLedger.reserve: the call, its twin reservations and what was used fit.
CanReserveCall(s, a) ==
  /\ s.reservation[a] = "none"
  /\ ~s.exceeded
  /\ s.used + Cardinality(ReservedActions(s)) + 1 <= CallLimit

Events ==
  [kind: {"phase"}, to: PhasesUsed] \cup [kind: {"reservation"}, action: Actions]
    \cup [kind: {"result"}, action: Actions, known: BOOLEAN, measured: BOOLEAN,
          over: BOOLEAN]

ReservationApplied(s, e) ==
  [s EXCEPT !.reservation[e.action] = "reserved", !.inflight = @ \cup {e.action}]

\* Mutant: a reservation that ends is released instead of settled.
ResultApplied_Released(s, e) ==
  [s EXCEPT !.reservation[e.action] = "none", !.used = @ + 1,
            !.inflight = @ \ {e.action}]

\* BudgetLedger.settle and the move from inflight to completed.  Usage that
\* is not measured keeps the reservation as unknown and the action inflight.
ResultApplied(s, e) ==
  LET settled == IF e.measured THEN "settled" ELSE "unknown"
      closes == e.known /\ e.measured
  IN [s EXCEPT !.reservation[e.action] = settled,
               !.used = @ + (IF e.over THEN 2 ELSE 1),
               !.exceeded = @ \/ e.over,
               !.inflight = IF closes THEN @ \ {e.action} ELSE @,
               !.completed = IF closes THEN @ \cup {e.action} ELSE @]

\* The state _apply builds.
Apply(s, e) ==
  CASE e.kind = "phase" -> [s EXCEPT !.phase = e.to]
    [] e.kind = "reservation" -> ReservationApplied(s, e)
    [] e.kind = "result" -> ResultApplied(s, e)

\* _apply accepts the event: its own checks, then those of the state it built.
Applies(s, e) ==
  /\ CASE e.kind = "phase" -> ValidTransition(s.phase, e.to)
       [] e.kind = "reservation" ->
            e.action \notin s.inflight \cup s.completed /\ CanReserveCall(s, e.action)
       [] e.kind = "result" ->
            e.action \in s.inflight \ s.completed /\ s.reservation[e.action] = "reserved"
  /\ Valid(Apply(s, e))

\* What a caller may write into its next checkpoint, starting from a state it
\* knows: the next phase, another queue, more notes, reservations of its own.
NextPhases(s) == {s.phase} \cup {p \in PhasesUsed : ValidTransition(s.phase, p)}
Unreserved(s) == {a \in Actions : s.reservation[a] = "none"}
Revision(s, p, q, n, new) ==
  [s EXCEPT !.phase = p, !.queue = q, !.notes = n, !.inflight = @ \cup new,
            !.reservation = [a \in Actions |-> IF a \in new THEN "reserved" ELSE @[a]]]
Revisions(s) ==
  {Revision(s, p, q, n, new) : p \in NextPhases(s), q \in SUBSET Actions,
                               n \in s.notes..MaxNotes, new \in SUBSET Unreserved(s)}
=============================================================================
