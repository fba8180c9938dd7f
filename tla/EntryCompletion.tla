---------------------------- MODULE EntryCompletion ----------------------------
\* Observing the end of an owned child (macr/investigation/entry_completion.py): the
\* observer polls wait4 under a deadline that may tighten, a cancellation and a guard,
\* while the child, the clock and the caller move between any two of its steps.
EXTENDS Naturals, FiniteSets

CONSTANTS
  MaxPolls,     \* polls before the observer gives up
  MaxInstant    \* the last instant the clock reaches

ASSUME CompletionAssumption == {MaxPolls, MaxInstant} \subseteq Nat

VARIABLES
  child,     \* the kernel's view: running, ended (a zombie), reaped; its exit and when
  instant,   \* the monotonic clock
  bound,     \* the deadline the caller's callback answers, and its cancellation
  observer,  \* where the observer is
  record     \* the record it returns

completionVars == <<child, instant, bound, observer, record>>

Instants == 0..MaxInstant
Least(a, b) == IF a < b THEN a ELSE b

CompletionInit ==
  /\ child = [state |-> "running", exit |-> "none", at |-> 0]
  /\ instant = 0
  /\ bound \in [limit : Instants \ {0}, cancelled : {FALSE}]
  /\ observer = "start"
  /\ record = [polls |-> 0, limit |-> MaxInstant + 1, reaped |-> FALSE, exit |-> "none",
               upper |-> MaxInstant + 1, cpu |-> FALSE, errors |-> {}, status |-> "evidence_incomplete"]

----------------------------------------------------------------------------
\* The world around the observer

ChildEnds ==
  /\ child.state = "running"
  /\ \E exit \in {"zero", "nonzero"} :
       child' = [state |-> "ended", exit |-> exit, at |-> instant]
  /\ UNCHANGED <<instant, bound, observer, record>>

TimePasses ==
  /\ instant < MaxInstant
  /\ instant' = instant + 1
  /\ UNCHANGED <<child, bound, observer, record>>

\* The deadline callback may answer an earlier or a later instant from now on.
CallerChanges ==
  /\ \/ \E limit \in Instants \ {bound.limit} : bound' = [bound EXCEPT !.limit = limit]
     \/ ~bound.cancelled /\ bound' = [bound EXCEPT !.cancelled = TRUE]
  /\ UNCHANGED <<child, instant, observer, record>>

----------------------------------------------------------------------------
\* The observer

Moved(place) == observer' = place
Return(rec) == record' = rec /\ Moved("returned")
WithError(rec, code) == [rec EXCEPT !.errors = @ \union {code}]
\* tighten_deadline: a later answer never extends the bound.
Tightened(rec) == [rec EXCEPT !.limit = Least(@, bound.limit)]

\* Before a wait: tighten, look at the cancellation, read the clock, or fail at any of them.
BeforeWait ==
  /\ observer = "start"
  /\ LET rec == Tightened(record)
     IN  \/ Return(WithError(rec, "pre_wait_observation_failed"))
         \/ /\ bound.cancelled
            /\ Return(WithError(rec, "cancelled"))
         \/ /\ ~bound.cancelled /\ instant >= rec.limit
            /\ Return(WithError(rec, "deadline_before_wait"))
         \/ /\ ~bound.cancelled /\ instant < rec.limit
            /\ record' = [rec EXCEPT !.polls = @ + 1]
            /\ Moved("wait")
  /\ UNCHANGED <<child, instant, bound>>

\* wait4 with WNOHANG reaps an ended child or answers at once.
Wait ==
  /\ observer = "wait"
  /\ \/ /\ child.state = "ended"
        /\ child' = [child EXCEPT !.state = "reaped"]
        /\ Moved("waited") /\ UNCHANGED record
     \/ /\ child.state = "running"
        /\ \/ Moved("nothing") /\ UNCHANGED record
           \/ Return(WithError(record, "post_wait_clock_failed"))
        /\ UNCHANGED child
     \/ /\ Return(WithError(record, "wait4_failed"))
        /\ UNCHANGED child
  /\ UNCHANGED <<instant, bound>>

\* The reaping wait returned: the clock first, then the facts, then the bounds again,
\* which may have moved meanwhile.
Kept(upper, errors) ==
  record' = [record EXCEPT !.reaped = TRUE, !.exit = child.exit, !.upper = upper, !.errors = @ \union errors]
NoUpper == MaxInstant + 1

\* Mutant: the exit is dated by the start of the observation.
KeepExit_BeforeRead ==
  /\ observer = "waited"
  /\ Kept(0, {}) /\ Moved("kept")
  /\ UNCHANGED <<child, instant, bound>>

KeepExit ==
  /\ observer = "waited"
  /\ \/ Kept(instant, {})
     \/ Kept(NoUpper, {"post_wait_clock_failed"})
  /\ Moved("kept")
  /\ UNCHANGED <<child, instant, bound>>

\* What was found wrong once the bounds and the processor time were read again.
Belated(rec, bounds, cpu) ==
  {e \in {"completion_observation_after_deadline"} : instant > rec.limit}
    \union {e \in {"wait_returned_after_deadline"} : rec.upper \in Instants /\ rec.upper > rec.limit}
    \union {e \in {"cancelled"} : bound.cancelled}
    \union {e \in {"post_wait_observation_failed"} : ~bounds}
    \union {e \in {"cpu_accounting_unavailable"} : ~cpu}

JudgeExit ==
  /\ observer = "kept"
  /\ \E cpu, bounds \in BOOLEAN :
     LET rec == Tightened(record)
         errors == rec.errors \union Belated(rec, bounds, cpu)
     IN  Return([rec EXCEPT !.cpu = cpu, !.errors = errors,
                   !.status = IF errors = {} THEN "observed" ELSE @])
  /\ UNCHANGED <<child, instant, bound>>

\* Nothing ended yet: the live guard, then the bounds, then a pause before the next poll.
Guard ==
  /\ observer = "nothing"
  /\ LET rec == Tightened(record)
     IN  \/ \E code \in {"live_guard_failed", "poll_pause_failed"} : Return(WithError(rec, code))
         \/ bound.cancelled /\ Return(WithError(rec, "cancelled"))
         \/ /\ ~bound.cancelled /\ instant >= rec.limit
            /\ Return(WithError(rec, "deadline_without_exit"))
         \/ /\ ~bound.cancelled /\ instant < rec.limit
            /\ IF rec.polls = MaxPolls THEN Return(WithError(rec, "poll_limit"))
               ELSE record' = rec /\ Moved("start")
  /\ UNCHANGED <<child, instant, bound>>

CompletionNext ==
  \/ ChildEnds \/ TimePasses \/ CallerChanges
  \/ BeforeWait \/ Wait \/ KeepExit \/ JudgeExit \/ Guard

----------------------------------------------------------------------------
\* qualify_completion: what a record proves to someone with a deadline of their own.
Qualified(rec, deadline) ==
  /\ rec.status = "observed" /\ rec.errors = {}
  /\ rec.reaped /\ rec.exit = "zero" /\ rec.cpu
  /\ rec.upper <= Least(deadline, rec.limit)

\* A record that qualifies under some deadline tells the truth about that deadline: the
\* child really ended with zero by then, whatever the caller's deadline and the clock did
\* between the polls.  And the exit status, which the kernel gives out once, is never
\* lost between the wait and the record.
QualifiedMeansExited ==
  observer = "returned" =>
    /\ \A deadline \in Instants :
         Qualified(record, deadline) => child.exit = "zero" /\ child.at <= deadline
    /\ child.state = "reaped" <=> record.reaped
=============================================================================
