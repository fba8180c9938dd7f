----------------------------- MODULE Investigation -----------------------------
\* The investigation queue (macr/investigation/queue.py) and the budget ledger
\* (macr/investigation/budget.py) as one dispatcher drives them: actions wait in two
\* lanes, are reserved, settled and observed, and both structures are written down and
\* restored after the process died.
EXTENDS Integers, FiniteSets, FiniteSetsExt, Functions

CONSTANTS
  Actions,       \* action ids, the model calls and the checks among them
  ModelActions,
  CheckActions,
  Limits,        \* the profile: [model, tool, check, tokens |-> a number]
  WallLimit,     \* active seconds of the profile
  MaxTime        \* how long a behaviour is followed

VARIABLES
  queue,   \* pending entries, turns used, seen and observed ids, uninformative results, released lanes
  ledger,  \* reservations, what was used, whether a bound was ever exceeded, the active clock
  clock    \* wall time passed

investigationVars == <<queue, ledger, clock>>

Lanes == {"breadth", "depth"}
ActionKinds == {"model", "read", "check"}
Kind(a) == IF a \in ModelActions THEN "model" ELSE IF a \in CheckActions THEN "check" ELSE "read"

----------------------------------------------------------------------------
\* Usage

Fields == {"model", "tool", "check", "tokens"}
Zero == [f \in Fields |-> 0]
Plus(u, v) == [f \in Fields |-> u[f] + v[f]]
Beyond(u, v) == \E f \in Fields : u[f] > v[f]

\* What reserve asks of an upper bound: one call of the action's own sort, and tokens
\* for a model call.
Upper(a) ==
  [f \in Fields |-> CASE f \in {"model", "tokens"} -> IF Kind(a) = "model" THEN 1 ELSE 0
                      [] f = "tool" -> IF Kind(a) = "model" THEN 0 ELSE 1
                      [] f = "check" -> IF Kind(a) = "check" THEN 1 ELSE 0]
InState(held, state) == {a \in DOMAIN held : held[a] = state}
Reserved(held) ==
  [f \in Fields |-> SumFunction([a \in InState(held, "reserved") |-> Upper(a)[f]])]

\* What an adapter may report: certain or not, and tokens within the bound or beyond.
\* A dispatched call is charged even when it is not reported, an uncertain one at
\* least its upper bound.
Actuals == [known : BOOLEAN, tokens : {0, 2}]
Charge(a, actual) ==
  [Upper(a) EXCEPT !["tokens"] = IF actual.known THEN actual.tokens ELSE Max({@, actual.tokens})]

Exhausted(extra) ==
  \/ ledger.exceeded
  \/ ledger.seconds >= WallLimit
  \/ Beyond(Plus(Plus(ledger.used, Reserved(ledger.held)), extra), Limits)

----------------------------------------------------------------------------
\* Queue

EmptyQueue ==
  [pending |-> {}, used |-> [l \in Lanes |-> [k \in ActionKinds |-> 0]],
   seen |-> {}, observed |-> {}, dull |-> 0, released |-> {}]
Waiting == {e.id : e \in queue.pending}
InHand == queue.seen \ (queue.observed \union Waiting)

\* pop: an entry the budget can still pay for.
Affordable(e) ==
  LET spent == Plus(ledger.used, Reserved(ledger.held))
  IN  IF Kind(e.id) = "model" THEN spent["model"] < Limits["model"]
      ELSE /\ spent["tool"] < Limits["tool"]
           /\ Kind(e.id) = "check" => spent["check"] < Limits["check"]
Before(e, d) == e.priority > d.priority \/ (e.priority = d.priority /\ e.order < d.order)
FirstOf(entries) == CHOOSE e \in entries : \A d \in entries \ {e} : Before(e, d)

\* A lane that has had three quarters of a kind yields to the other, checks apart.
Share(k) == (3 * (IF k = "model" THEN Limits["model"] ELSE Limits["tool"])) \div 4
Present(available, k) == {e.lane : e \in {d \in available : Kind(d.id) = k}}
Selected(available) ==
  LET first == FirstOf(available)
      k == Kind(first.id)
      others == {e \in available : Kind(e.id) = k /\ e.lane # first.lane}
  IN  IF others # {} /\ k # "check" /\ queue.used[first.lane][k] >= Share(k)
      THEN FirstOf(others) ELSE first

ShouldStop == queue.dull >= 3 /\ queue.pending = {} /\ queue.seen = queue.observed

\* restore refuses a queue whose parts contradict each other.
Accepts(q) ==
  /\ q.observed \subseteq q.seen /\ q.released \subseteq Lanes
  /\ \A e \in q.pending : e.id \in q.seen \ q.observed /\ e.lane \in Lanes /\ e.order > 0
  /\ \A e, d \in q.pending : e.id = d.id => e = d
  /\ Cardinality(q.seen) =
       Cardinality(q.pending)
         + q.used["breadth"]["model"] + q.used["breadth"]["read"] + q.used["breadth"]["check"]
         + q.used["depth"]["model"] + q.used["depth"]["read"] + q.used["depth"]["check"]

----------------------------------------------------------------------------
InvestigationInit ==
  /\ queue = EmptyQueue
  /\ ledger = [held |-> [a \in {} |-> "reserved"], used |-> Zero, exceeded |-> FALSE,
               active |-> TRUE, seconds |-> 0]
  /\ clock = 0

Push ==
  /\ \E a \in Actions \ queue.seen, lane \in Lanes, priority \in 1..2 :
       queue' = [queue EXCEPT
         !.seen = @ \union {a},
         !.pending = @ \union {[id |-> a, lane |-> lane, priority |-> priority,
                                order |-> Cardinality(queue.seen) + 1]},
         !.released = @ \ {lane}]
  /\ UNCHANGED <<ledger, clock>>

Pop ==
  /\ ~ledger.exceeded /\ ledger.seconds < WallLimit
  /\ LET available == {e \in queue.pending : Affordable(e)}
     IN  /\ available # {}
         /\ LET chosen == Selected(available)
                k == Kind(chosen.id)
            IN  queue' = [queue EXCEPT !.pending = @ \ {chosen},
                            !.used[chosen.lane][k] = @ + 1,
                            !.released = @ \union (Lanes \ Present(available, k))]
  /\ UNCHANGED <<ledger, clock>>

Reserve ==
  /\ ledger.active
  /\ \E a \in InHand \ DOMAIN ledger.held :
       /\ ~Exhausted(Upper(a))
       /\ ledger' = [ledger EXCEPT !.held =
                       [b \in DOMAIN @ \union {a} |-> IF b = a THEN "reserved" ELSE @[b]]]
  /\ UNCHANGED <<queue, clock>>

\* Mutant: more than was reserved raises no flag.
Settle_Unflagged ==
  /\ \E a \in InState(ledger.held, "reserved"), actual \in Actuals :
       LET charged == Charge(a, actual)
       IN  ledger' = [ledger EXCEPT
             !.held[a] = IF actual.known THEN "settled" ELSE "unknown",
             !.used = Plus(@, charged)]
  /\ UNCHANGED <<queue, clock>>

Settle ==
  /\ \E a \in InState(ledger.held, "reserved"), actual \in Actuals :
       LET charged == Charge(a, actual)
       IN  ledger' = [ledger EXCEPT
             !.held[a] = IF actual.known THEN "settled" ELSE "unknown",
             !.exceeded = @ \/ Beyond(charged, Upper(a)),
             !.used = Plus(@, charged)]
  /\ UNCHANGED <<queue, clock>>

\* The dispatcher observes what was settled, and what the budget refused.
Observe ==
  /\ \E a \in InHand, informative \in BOOLEAN :
       /\ a \in DOMAIN ledger.held => ledger.held[a] # "reserved"
       /\ a \notin DOMAIN ledger.held => Exhausted(Upper(a))
       /\ queue' = [queue EXCEPT !.observed = @ \union {a}, !.dull = IF informative THEN 0 ELSE @ + 1]
  /\ UNCHANGED <<ledger, clock>>

\* Waiting time is active time; pausing is for a dispatcher with nothing in flight.
Pause ==
  /\ ledger.active
  /\ InState(ledger.held, "reserved") \union InState(ledger.held, "unknown") = {}
  /\ ledger' = [ledger EXCEPT !.active = FALSE]
  /\ UNCHANGED <<queue, clock>>
Resume ==
  /\ ~ledger.active
  /\ ledger' = [ledger EXCEPT !.active = TRUE]
  /\ UNCHANGED <<queue, clock>>

\* Active time is counted, waiting for another process included.
Passes(seconds) ==
  /\ clock + seconds <= MaxTime
  /\ clock' = clock + seconds
  /\ ledger' = [ledger EXCEPT !.seconds = IF ledger.active THEN @ + seconds ELSE @]
  /\ UNCHANGED queue

Tick == Passes(1)

\* snapshot and view are written after every step, the process dies after any, and both
\* structures are restored later: time away was active time if the ledger was active.
Restart ==
  /\ Accepts(queue)
  /\ \E away \in 1..MaxTime : Passes(away)

InvestigationNext ==
  Push \/ Pop \/ Reserve \/ Settle \/ Observe \/ Pause \/ Resume \/ Tick \/ Restart

----------------------------------------------------------------------------
\* Whatever was pushed, popped, observed and restarted in whatever order, the queue
\* written down now would be taken back, and a ledger that does not call its bounds
\* exceeded never committed more than the profile allows, all that it still holds and
\* all that came back uncertain included; when the queue calls for a stop, nothing is
\* held any more.
InvestigationRestores ==
  /\ Accepts(queue)
  /\ ~ledger.exceeded => ~Beyond(Plus(ledger.used, Reserved(ledger.held)), Limits)
  /\ ShouldStop => InState(ledger.held, "reserved") = {}
=============================================================================
