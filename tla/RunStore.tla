------------------------------- MODULE RunStore -------------------------------
(***************************************************************************)
(* The two run stores (src/src/macr/memory/run_store.py,                   *)
(* sqlite_run_store.py) on one root.  JSON keeps a checkpoint file and an  *)
(* append-only journal beside it; SQLite keeps a row and its events in one *)
(* database and changes them in one transaction.  A root has one writer at *)
(* a time, holding the flock of writer.lock.  A process may die anywhere;  *)
(* a write may fail with none, part or all of its bytes in place.          *)
(*                                                                         *)
(* A store is modelled on one run: runs share nothing but the failed flag. *)
(* Power loss, size limits other than as a failed write, and loads through *)
(* a store that was closed are left out.                                   *)
(***************************************************************************)
EXTENDS RunState

CONSTANTS
  Procs,     \* processes that open the root
  Backends,  \* the store classes they may use: which process uses which
  MaxEvents, \* bound on the journal
  None

ASSUME RunStoreAssumption ==
  /\ Backends \subseteq [Procs -> {"json", "sqlite"}]
  /\ MaxEvents \in Nat
  /\ None \notin Procs \cup States \cup [state: States, sequence: Nat]

VARIABLES
  backend,  \* the class each process uses, the same for ever
  lock,     \* who holds writer.lock
  database, \* runs.sqlite3: "absent", "empty" or "ready"
  data,     \* per backend: checkpoint (or row), journal, torn last line
  pc,       \* "off", "looked", "creating", "open" or "failed"
  view      \* the state and sequence a process last loaded, or None

durable == <<backend, database, data>>
vars == <<backend, lock, database, data, pc, view>>

Kinds == {"json", "sqlite"}
NoData == [row |-> None, journal |-> <<>>, torn |-> FALSE]
Entry(n, e) == [sequence |-> n, event |-> e]

Init ==
  /\ backend \in Backends
  /\ lock = None
  /\ database = "absent"
  /\ data = [b \in Kinds |-> NoData]
  /\ pc = [p \in Procs |-> "off"]
  /\ view = [p \in Procs |-> None]

-----------------------------------------------------------------------------
\* Loading

\* Mutant: the last event of the checkpoint is applied again.
Unapplied_Again(d, entry) == entry.sequence >= d.row.sequence

\* The checkpoint does not contain the event yet.
Unapplied(d, entry) == entry.sequence > d.row.sequence

\* _load: the checkpoint, then every later event applied in order.
Recovered(d) ==
  FoldLeft(LAMBDA s, entry : IF Unapplied(d, entry) THEN Apply(s, entry.event) ELSE s,
           d.row.state, d.journal)

\* _load raises none of its identity and sequence errors.
Loadable(d) ==
  /\ d.row # None
  /\ Valid(d.row.state)
  /\ \A i \in DOMAIN d.journal : d.journal[i].sequence = i
  /\ d.row.sequence <= Len(d.journal)
  /\ \A i \in (d.row.sequence + 1)..Len(d.journal) :
       Applies(Recovered([d EXCEPT !.journal = SubSeq(@, 1, i - 1)]), d.journal[i].event)

\* SQLite keeps the state of every event in the row and requires it to be so.
Readable(b, d) ==
  /\ Loadable(d)
  /\ b = "sqlite" => d.row.sequence = Len(d.journal)

\* A partial last line is remembered by whoever reads it: the store has failed.
Load(p) ==
  LET d == data[backend[p]] IN
    /\ pc[p] \in {"open", "failed"}
    /\ Readable(backend[p], d)
    /\ view' = [view EXCEPT ![p] = [state |-> Recovered(d), sequence |-> Len(d.journal)]]
    /\ pc' = [pc EXCEPT ![p] = IF d.torn THEN "failed" ELSE @]
    /\ UNCHANGED <<lock, durable>>

-----------------------------------------------------------------------------
\* Opening and closing

\* RunStore.__init__ refuses a root that holds a database, before the lock.
Look(p) ==
  /\ pc[p] = "off"
  /\ backend[p] = "json" => database = "absent"
  /\ pc' = [pc EXCEPT ![p] = "looked"]
  /\ UNCHANGED <<lock, view, durable>>

\* Names SQLiteRunStore._check_files does not allow in its root.
ForeignFiles == data["json"].row # None

\* The flock, and for SQLite the file it creates when there is none.
Lock(p) ==
  /\ pc[p] = "looked" /\ lock = None
  /\ IF backend[p] = "json"
       THEN pc' = [pc EXCEPT ![p] = "open"] /\ lock' = p /\ UNCHANGED database
       ELSE IF ForeignFiles
         THEN pc' = [pc EXCEPT ![p] = "off"] /\ UNCHANGED <<lock, database>>
         ELSE /\ pc' = [pc EXCEPT ![p] = "creating"]
              /\ lock' = p
              /\ database' = IF database = "absent" THEN "empty" ELSE database
  /\ UNCHANGED <<backend, data, view>>

\* The transaction that creates the tables, when the file has none.
CreateSchema(p) ==
  /\ pc[p] = "creating"
  /\ database' = "ready"
  /\ pc' = [pc EXCEPT ![p] = "open"]
  /\ UNCHANGED <<backend, lock, data, view>>

\* close(), a lock that is taken, or the death of the process.
Stop(p) ==
  /\ pc[p] # "off"
  /\ pc' = [pc EXCEPT ![p] = "off"]
  /\ view' = [view EXCEPT ![p] = None]
  /\ lock' = IF lock = p THEN None ELSE lock
  /\ UNCHANGED durable

-----------------------------------------------------------------------------
\* Writing

\* An OSError or a database error: the store is failed, nothing was changed.
WriteFails(p) ==
  /\ pc' = [pc EXCEPT ![p] = "failed"]
  /\ UNCHANGED <<backend, lock, database, data, view>>

\* The last line got some of its bytes.
WriteTears(p) ==
  /\ backend[p] = "json"
  /\ pc' = [pc EXCEPT ![p] = "failed"]
  /\ data' = [data EXCEPT !["json"].torn = TRUE]
  /\ UNCHANGED <<backend, lock, database, view>>

\* Everything is in place; the caller hears of it, or of a late error.
WriteStored(p, d, acknowledged) ==
  /\ data' = [data EXCEPT ![backend[p]] = d]
  /\ pc' = [pc EXCEPT ![p] = IF acknowledged THEN @ ELSE "failed"]
  /\ UNCHANGED <<backend, lock, database, view>>

\* append: an event of the next sequence that the recovered state accepts.
\* JSON adds a line, which joins a partial one into a line nothing can parse;
\* SQLite adds the event and moves the row with it.
Appended(b, d, n, e) ==
  [d EXCEPT !.journal = Append(@, Entry(IF d.torn THEN 0 ELSE n, e)),
            !.row = IF b = "json" THEN @
                    ELSE [state |-> Apply(Recovered(d), e), sequence |-> n]]

\* Mutant: the store goes on after a partial line.
MayWrite_Torn(p) == pc[p] = "open" /\ lock = p

\* The guard, the load that may fail the store, and the guard again.
MayWrite(p) == pc[p] = "open" /\ lock = p /\ ~data[backend[p]].torn

CanAppend(d, n, e) ==
  /\ n = Len(d.journal) + 1
  /\ Applies(Recovered(d), e)

AppendEvent(p, n, e) ==
  LET d == data[backend[p]] IN
    /\ MayWrite(p) /\ Readable(backend[p], d)
    /\ Len(d.journal) < MaxEvents
    /\ CanAppend(d, n, e)
    /\ \/ WriteFails(p)
       \/ WriteTears(p)
       \/ \E ok \in BOOLEAN : WriteStored(p, Appended(backend[p], d, n, e), ok)

\* A caller numbers its event after what it last saw or after what is there.
Numbers(p) ==
  {Len(data[backend[p]].journal) + 1}
    \cup IF view[p] = None THEN {} ELSE {view[p].sequence + 1}

\* checkpoint: the first one, or one that moves the loaded state forward.
CanCheckpoint(d, s) ==
  /\ Valid(s)
  /\ d.row # None => Forward(Recovered(d), s)

Checkpoint(p, s) ==
  LET d == data[backend[p]]
      row == [state |-> s, sequence |-> IF d.row = None THEN 0 ELSE Len(d.journal)]
  IN /\ MayWrite(p)
     /\ d.row # None => Readable(backend[p], d)
     /\ CanCheckpoint(d, s)
     /\ \/ WriteFails(p)
        \/ \E ok \in BOOLEAN : WriteStored(p, [d EXCEPT !.row = row], ok)

\* What a caller may offer: revisions of what is stored or of what it last saw.
Offers(p) ==
  LET d == data[backend[p]] IN
    IF d.row = None THEN FreshStates
    ELSE Revisions(Recovered(d)) \cup (IF view[p] = None THEN {} ELSE Revisions(view[p].state))

\* A damaged tail found by a write fails the store before anything is written.
MeetTear(p) ==
  /\ pc[p] = "open" /\ data[backend[p]].torn
  /\ pc' = [pc EXCEPT ![p] = "failed"]
  /\ UNCHANGED <<lock, view, durable>>

Write(p) ==
  \/ \E e \in Events, n \in Numbers(p) : AppendEvent(p, n, e)
  \/ \E s \in Offers(p) : Checkpoint(p, s)

Next ==
  \E p \in Procs :
    \/ Look(p) \/ Lock(p) \/ CreateSchema(p) \/ Stop(p)
    \/ Load(p) \/ Write(p) \/ MeetTear(p)

Spec == Init /\ [][Next]_vars

-----------------------------------------------------------------------------
\* Properties

\* No order of operations, failed writes and deaths leaves a run that load
\* refuses: neither its checkpoint, nor a sequence, nor the replay of an event.
StaysReadable == \A b \in Kinds : data[b].row # None => Readable(b, data[b])

\* No action is journalled for dispatch twice, although the queue may name it
\* again and the process that dispatched it is gone.
DispatchedOnce ==
  \A b \in Kinds, a \in Actions :
    Cardinality({i \in DOMAIN data[b].journal :
      data[b].journal[i].event = [kind |-> "reservation", action |-> a]}) <= 1

\* A JSON checkpoint with its journal and a SQLite row with its events are both
\* the abstract journal: one growing log and the state it leads to.
LogOf(d) == [i \in DOMAIN d.journal |-> d.journal[i].event]
StateOf(d) == IF d.row = None THEN None ELSE Recovered(d)

JsonJournal ==
  INSTANCE RunJournal WITH log <- LogOf(data["json"]), state <- StateOf(data["json"])

SqliteJournal ==
  INSTANCE RunJournal WITH log <- LogOf(data["sqlite"]), state <- StateOf(data["sqlite"])

ImplementsJournal == JsonJournal!Spec /\ SqliteJournal!Spec

\* "JSON and SQLite roots reject one another" (docs/sqlite-run-store.md): a root
\* never holds the data of both.
OneBackend == ~(data["json"].row # None /\ database # "absent")
=============================================================================
