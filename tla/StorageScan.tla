------------------------------ MODULE StorageScan ------------------------------
(***************************************************************************)
(* check_storage (src/src/macr/investigation/evidence_workspace.py): the   *)
(* supervisor adds up the output directory while the worker process writes *)
(* there by temporary file and rename (memory/atomic_file.py).  A name that *)
(* vanished between listing and stat is forgiven once, if it was the       *)
(* temporary of a file that is there now, and the whole tree is read again.*)
(***************************************************************************)
EXTENDS Naturals, FiniteSets

CONSTANTS
  Files,     \* documents the worker writes, one unit of storage each
  MaxWrites  \* bound on the worker's writes during one scan

ASSUME StorageScanAssumption == MaxWrites \in Nat

VARIABLES
  temp,    \* documents with a temporary file in the directory
  final,   \* documents in place
  scan,    \* "idle", "live", "strict", "passed" or "failed"
  listed,  \* entries of the listing still to stat: <<kind, document>>
  counted, \* documents this pass has added up
  present, \* documents that were there, in either form, when the scan began
  renames  \* replacements since the scan began

scanVars == <<temp, final, scan, listed, counted, present, renames>>

Scanning == scan \in {"live", "strict"}
Entries == ({"temp"} \X temp) \cup ({"final"} \X final)

ScanInit ==
  /\ temp = {} /\ final = {} /\ scan = "idle"
  /\ listed = {} /\ counted = {} /\ present = {} /\ renames = 0

\* The worker: atomic_write makes the temporary, then replaces the name.
CreateTemp(f) ==
  /\ renames < MaxWrites /\ f \notin temp
  /\ temp' = temp \cup {f}
  /\ UNCHANGED <<final, scan, listed, counted, present, renames>>

Rename(f) ==
  /\ f \in temp
  /\ temp' = temp \ {f} /\ final' = final \cup {f}
  /\ renames' = IF Scanning THEN renames + 1 ELSE renames
  /\ UNCHANGED <<scan, listed, counted, present>>

\* Live while the worker runs; scandir lists the names there are.
BeginScan ==
  /\ scan = "idle"
  /\ scan' = "live" /\ listed' = Entries /\ counted' = {} /\ renames' = 0
  /\ present' = temp \cup final
  /\ UNCHANGED <<temp, final>>

StatFound(e) ==
  /\ Scanning /\ e \in listed /\ e \in Entries
  /\ listed' = listed \ {e} /\ counted' = counted \cup {e[2]}
  /\ UNCHANGED <<temp, final, scan, present, renames>>

\* Mutant: a vanished temporary is skipped and the pass goes on.
Rescan_Skip(e) ==
  /\ scan' = scan /\ listed' = listed \ {e} /\ UNCHANGED counted

\* The tree is read once more, strictly, from nothing.
Rescan(e) ==
  /\ scan' = "strict" /\ listed' = Entries /\ counted' = {}

Forgiven(e) == scan = "live" /\ e[1] = "temp" /\ e[2] \in final

StatMissing(e) ==
  /\ Scanning /\ e \in listed /\ e \notin Entries
  /\ IF Forgiven(e) THEN Rescan(e)
     ELSE scan' = "failed" /\ UNCHANGED <<listed, counted>>
  /\ UNCHANGED <<temp, final, present, renames>>

EndScan ==
  /\ Scanning /\ listed = {}
  /\ scan' = "passed"
  /\ UNCHANGED <<temp, final, listed, counted, present, renames>>

\* The next scan, a tenth of a second later.
NextScan ==
  /\ scan = "passed"
  /\ scan' = "idle" /\ counted' = {} /\ present' = {} /\ renames' = 0
  /\ UNCHANGED <<temp, final, listed>>

ScanNext ==
  \/ \E f \in Files : CreateTemp(f) \/ Rename(f)
  \/ BeginScan \/ EndScan \/ NextScan
  \/ \E e \in listed : StatFound(e) \/ StatMissing(e)

-----------------------------------------------------------------------------
\* Properties

\* A scan that passes has counted every document that was there, or being
\* written, when it began: none hides between its two names.  One rename never
\* fails a run: only a second one during the same scan does.
ScanSeesAll ==
  /\ scan = "passed" => present \subseteq counted
  /\ scan = "failed" => renames >= 2
=============================================================================
