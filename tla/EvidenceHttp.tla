------------------------------ MODULE EvidenceHttp ------------------------------
(***************************************************************************)
(* The loopback server of the evidence workbench (src/src/macr/api/        *)
(* evidence_http.py): a listening loop that starts one thread per accepted *)
(* connection while a slot is free, a window that admits RateMax requests  *)
(* in any second, the checks of a request in their order, and the ways the *)
(* server stops: POST /api/shutdown from one of its own threads, SIGTERM.  *)
(* What the handlers do to the workbench is module Workbench.              *)
(***************************************************************************)
EXTENDS Integers, FiniteSets, Sequences, Functions

CONSTANTS
  Requests, \* connections
  Slots,    \* threads at a time
  RateMax,  \* requests admitted per second
  Second,   \* clock ticks in the window's second
  MaxTime   \* bound on the clock

ASSUME EvidenceHttpAssumption ==
  /\ {Slots, RateMax, Second} \subseteq Nat \ {0}
  /\ MaxTime \in Nat

VARIABLES
  thread,   \* per connection: "away", "running", "admitted", "answered", "broken",
            \* "ended" or "dropped"
  request,  \* what it asks for
  slots,    \* the semaphore
  window,   \* times in self.requests, oldest first
  now,
  loop,     \* "serving", "stopping" (shutdown was called), "ended", "closed"
  stop,     \* stop_requested
  admitted  \* how many requests passed the window at each time

httpVars == <<thread, request, slots, window, now, loop, stop, admitted>>

\* A request is refused before it is counted (headers, length, host), asks for
\* anything else, or is POST /api/shutdown with token, origin and body in order.
Demands == {"refused", "other", "shutdown"}
Working == {q \in Requests : thread[q] \in {"running", "admitted", "answered", "broken"}}

HttpInit ==
  /\ thread = [q \in Requests |-> "away"]
  /\ request = [q \in Requests |-> "other"]
  /\ slots = Slots /\ window = <<>> /\ now = 0
  /\ loop = "serving" /\ stop = FALSE
  /\ admitted = [t \in 0..MaxTime |-> 0]

-----------------------------------------------------------------------------
\* The listening loop

\* A thread that cannot be started gives its slot back.
Accept(q) ==
  /\ loop \in {"serving", "stopping"} /\ thread[q] = "away"
  /\ IF slots = 0
       THEN thread' = [thread EXCEPT ![q] = "dropped"] /\ UNCHANGED <<slots, request>>
       ELSE \/ /\ thread' = [thread EXCEPT ![q] = "running"]
               /\ \E k \in Demands : request' = [request EXCEPT ![q] = k]
               /\ slots' = slots - 1
            \/ /\ thread' = [thread EXCEPT ![q] = "dropped"]
               /\ UNCHANGED <<slots, request>>
  /\ UNCHANGED <<window, now, loop, stop, admitted>>

\* shutdown() waits for the loop to notice; a signal ends it at once.
CallShutdown ==
  /\ stop /\ loop = "serving"
  /\ loop' = "stopping"
  /\ UNCHANGED <<thread, request, slots, window, now, stop, admitted>>

Signal ==
  /\ loop \in {"serving", "stopping"}
  /\ loop' = "ended"
  /\ UNCHANGED <<thread, request, slots, window, now, stop, admitted>>

\* Mutant: the loop sleeps until the next connection.
LoopEnds_Asleep == loop = "stopping" /\ (\E q \in Requests : thread[q] = "away") /\ Signal

\* serve_forever polls ten times a second.
LoopEnds == loop = "stopping" /\ Signal

\* server_close joins every request thread (daemon_threads = False).
ServerClose ==
  /\ loop = "ended" /\ Working = {}
  /\ loop' = "closed"
  /\ UNCHANGED <<thread, request, slots, window, now, stop, admitted>>

-----------------------------------------------------------------------------
\* A request thread

\* Everything that is refused before it is counted.
RefuseEarly(q) ==
  /\ thread[q] = "running" /\ request[q] = "refused"
  /\ thread' = [thread EXCEPT ![q] = "answered"]
  /\ UNCHANGED <<request, slots, window, now, loop, stop, admitted>>

\* Mutant: an entry leaves the window one tick before its second is over.
Recent_Early(t) == now - t < Second - 1

Recent(t) == now - t < Second

\* allow_request, under its lock: entries leave at the left until the oldest is
\* recent, and the request is counted if there is room.
Allow(q) ==
  /\ thread[q] = "running" /\ request[q] # "refused"
  /\ \E left \in 0..Len(window) :
       LET kept == SubSeq(window, left + 1, Len(window)) IN
         /\ \A i \in 1..left : ~Recent(window[i])
         /\ kept # <<>> => Recent(kept[1])
         /\ IF Len(kept) >= RateMax
              THEN /\ thread' = [thread EXCEPT ![q] = "answered"]
                   /\ window' = kept
                   /\ UNCHANGED admitted
              ELSE /\ thread' = [thread EXCEPT ![q] = "admitted"]
                   /\ window' = Append(kept, now)
                   /\ admitted' = [admitted EXCEPT ![now] = @ + 1]
  /\ UNCHANGED <<request, slots, now, loop, stop>>

\* Routing, token, origin and body are checked; then the workbench is called.
Answer(q) ==
  /\ thread[q] = "admitted"
  /\ thread' = [thread EXCEPT ![q] = "answered"]
  /\ stop' = (stop \/ request[q] = "shutdown")
  /\ UNCHANGED <<request, slots, window, now, loop, admitted>>

\* The socket timed out or broke: handle_one_request swallows it.
Break(q) ==
  /\ thread[q] \in {"running", "admitted"}
  /\ thread' = [thread EXCEPT ![q] = "broken"]
  /\ UNCHANGED <<request, slots, window, now, loop, stop, admitted>>

\* Whatever became of the request.
Released(q) == slots + 1

\* process_request_thread's finally.
ThreadEnds(q) ==
  /\ thread[q] \in {"answered", "broken"}
  /\ thread' = [thread EXCEPT ![q] = "ended"]
  /\ slots' = Released(q)
  /\ UNCHANGED <<request, window, now, loop, stop, admitted>>

Tick ==
  /\ now < MaxTime
  /\ now' = now + 1
  /\ UNCHANGED <<thread, request, slots, window, loop, stop, admitted>>

ThreadStep(q) == RefuseEarly(q) \/ Allow(q) \/ Answer(q) \/ ThreadEnds(q)

HttpNext ==
  \/ \E q \in Requests : Accept(q) \/ ThreadStep(q) \/ Break(q)
  \/ CallShutdown \/ Signal \/ LoopEnds \/ ServerClose \/ Tick

\* Threads run or time out after ten seconds; the loop polls its flag.
HttpFairness ==
  /\ \A q \in Requests : WF_httpVars(ThreadStep(q))
  /\ WF_httpVars(CallShutdown) /\ WF_httpVars(LoopEnds) /\ WF_httpVars(ServerClose)

-----------------------------------------------------------------------------
\* Properties

\* No slot is lost or given back twice, on whatever way a request thread ends.
SlotsBalance == slots + Cardinality(Working) = Slots

\* No second, wherever it begins, admits more than RateMax requests, and the slots
\* come back.
SecondFrom(t) == {u \in t..(t + Second - 1) : u <= MaxTime}
AdmissionBound ==
  /\ SlotsBalance
  /\ \A t \in 0..MaxTime : SumFunctionOnSet(admitted, SecondFrom(t)) <= RateMax

\* A stop that was asked for by a request ends with the server closed: the thread
\* that asked does not wait for itself, and every thread that must be joined ends.
HttpDrains == stop ~> loop = "closed"
=============================================================================
