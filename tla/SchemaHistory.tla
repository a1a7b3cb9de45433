---------------------------- MODULE SchemaHistory ----------------------------
(***************************************************************************)
(* What is kept of one database's structure: the snapshots of its history, *)
(* when it is watched, and its tables and columns in the search catalog.   *)
(*                                                                         *)
(* Both are brought up to date by a pass that is made once a minute under  *)
(* a lock, in the background after DDL made through Fleetdock, and, for    *)
(* the history, on request: processes that read the database, look at what *)
(* is stored and write, with the others in between.                        *)
(*                                                                         *)
(* Abstracted: the structures (a hash is its structure), what changed,     *)
(* parallel databases and batches, times and what failed was noted.         *)
(***************************************************************************)
EXTENDS Integers, Sequences, SequencesExt, FiniteSets

CONSTANTS
  Structures,   \* the structures the database can have
  Torn,         \* a structure read while it was changed
  Unread,        \* nothing read or stored yet
  Kinds,        \* what is kept: "catalog", "snapshot" or both
  Refreshers,      \* processes at once
  Keep,         \* snapshots kept
  MaxChanges,   \* bound: changes of the structure
  MaxHistoryTroubles   \* bound: failures and deaths

ASSUME HistoryAssumption ==
  /\ IsFiniteSet(Refreshers) /\ Keep \in Nat \ {0} /\ MaxChanges \in Nat /\ MaxHistoryTroubles \in Nat
  /\ Torn \notin Structures /\ Unread \notin Structures \cup {Torn}

VARIABLES
  structure,   \* the database's
  snapshots,   \* kept, the oldest first, with how often each was notified
  watched,     \* schema_watches
  catalog,     \* the structure schema_catalog shows
  started,     \* goroutines a DDL has started that have not begun
  work,        \* what each process is doing
  changes, historyTroubles

historyVars == <<structure, snapshots, watched, catalog, started, work, changes, historyTroubles>>

Resting == [kind |-> "none", step |-> "none", pass |-> FALSE, read |-> Unread, prev |-> 0]

HistoryInit ==
  /\ structure \in Structures /\ snapshots = <<>>
  /\ watched = FALSE /\ catalog = Unread
  /\ started = {} /\ work = [p \in Refreshers |-> Resting]
  /\ changes = 0 /\ historyTroubles = 0

Free(p) == work[p] = Resting
Begin(p, kind, pass) ==
  work' = [work EXCEPT ![p] = [Resting EXCEPT !.kind = kind, !.step = "read", !.pass = pass]]
To(p, step) == work' = [work EXCEPT ![p].step = step]
Ends(p) == work' = [work EXCEPT ![p] = Resting]
Trouble == historyTroubles < MaxHistoryTroubles /\ historyTroubles' = historyTroubles + 1

---------------------------------------------------------------------------
(* The database *)

\* What is being read meanwhile is read in part before and in part after.
Changes ==
  /\ changes < MaxChanges /\ changes' = changes + 1
  /\ \E s \in Structures \ {structure} : structure' = s
  /\ work' = [p \in Refreshers |-> IF work[p].step = "reading" THEN [work[p] EXCEPT !.read = Torn] ELSE work[p]]

ChangeElsewhere == Changes /\ UNCHANGED <<snapshots, watched, catalog, started, historyTroubles>>

\* DDL made through Fleetdock
SchemaChanged ==
  /\ Changes /\ started' = Kinds
  /\ UNCHANGED <<snapshots, watched, catalog, historyTroubles>>

---------------------------------------------------------------------------
(* Who begins *)

PassRuns == \E p \in Refreshers : work[p].pass

\* What is due is so by the clock: at any time, and again and again.
RefreshDue(p) ==
  /\ Free(p) /\ ~PassRuns /\ "catalog" \in Kinds /\ Begin(p, "catalog", TRUE)
  /\ UNCHANGED <<structure, snapshots, watched, catalog, started, changes, historyTroubles>>
RunDue(p) ==
  /\ Free(p) /\ ~PassRuns /\ watched /\ Begin(p, "snapshot", TRUE)
  /\ UNCHANGED <<structure, snapshots, watched, catalog, started, changes, historyTroubles>>

\* The goroutines of a DDL: the history's looks at the watch first.
RefreshAfterDDL(p) ==
  /\ Free(p) /\ "catalog" \in started /\ started' = started \ {"catalog"} /\ Begin(p, "catalog", FALSE)
  /\ UNCHANGED <<structure, snapshots, watched, catalog, changes, historyTroubles>>
CheckAfterDDL(p) ==
  /\ Free(p) /\ "snapshot" \in started /\ started' = started \ {"snapshot"}
  /\ IF watched THEN Begin(p, "snapshot", FALSE) ELSE UNCHANGED work
  /\ UNCHANGED <<structure, snapshots, watched, catalog, changes, historyTroubles>>

\* SetWatch: the first snapshot is taken right away.
SetWatch(p) ==
  /\ Free(p) /\ "snapshot" \in Kinds /\ watched' = ~watched
  /\ IF ~watched /\ snapshots = <<>> THEN Begin(p, "snapshot", FALSE) ELSE UNCHANGED work
  /\ UNCHANGED <<structure, snapshots, catalog, started, changes, historyTroubles>>

\* On request
TakeSnapshot(p) ==
  /\ Free(p) /\ "snapshot" \in Kinds /\ Begin(p, "snapshot", FALSE)
  /\ UNCHANGED <<structure, snapshots, watched, catalog, started, changes, historyTroubles>>

---------------------------------------------------------------------------
(* What they do *)

\* ReadSchema: several queries, of which a change can fall between.
Read(p) ==
  /\ work[p].step = "read" /\ work' = [work EXCEPT ![p].step = "reading", ![p].read = structure]
  /\ UNCHANGED <<structure, snapshots, watched, catalog, started, changes, historyTroubles>>
ReadEnds(p) ==
  /\ work[p].step = "reading" /\ To(p, IF work[p].kind = "catalog" THEN "replace" ELSE "latest")
  /\ UNCHANGED <<structure, snapshots, watched, catalog, started, changes, historyTroubles>>

\* A failed read is noted; what is stored stays.
ReadFails(p) ==
  /\ work[p].step = "reading" /\ Trouble /\ Ends(p)
  /\ UNCHANGED <<structure, snapshots, watched, catalog, started, changes>>

Replace(p) ==
  /\ work[p].step = "replace"
  /\ catalog' = work[p].read
  /\ Ends(p)
  /\ UNCHANGED <<structure, snapshots, watched, started, changes, historyTroubles>>

\* record: nothing, if the latest snapshot is of the same structure.
ReadLatest(p) ==
  /\ work[p].step = "latest"
  /\ work' = [work EXCEPT ![p] =
       IF snapshots # <<>> /\ Last(snapshots).hash = work[p].read THEN Resting
       ELSE [@ EXCEPT !.step = "add", !.prev = IF snapshots = <<>> THEN 0 ELSE Last(snapshots).id]]
  /\ UNCHANGED <<structure, snapshots, watched, catalog, started, changes, historyTroubles>>

Kept(s) == \E i \in 1..Len(snapshots) : snapshots[i].id = s
\* The newest Keep; a reference to one that goes is set to none.
Pruned(s) ==
  LET kept == SubSeq(s, IF Len(s) > Keep THEN Len(s) - Keep + 1 ELSE 1, Len(s))
  IN  [i \in 1..Len(kept) |-> IF \E j \in 1..Len(kept) : kept[j].id = kept[i].prev THEN kept[i] ELSE [kept[i] EXCEPT !.prev = 0]]
\* One that names no snapshot, kept or looked at.
NewId == CHOOSE n \in 1..(Keep + Cardinality(Refreshers) + 1) : ~Kept(n) /\ \A p \in Refreshers : work[p].prev # n
Snapshot(p, prev) == [id |-> NewId, hash |-> work[p].read, prev |-> prev, told |-> 0]

\* Add, and with it the oldest beyond Keep go.
Add(p) ==
  /\ work[p].step = "add" /\ (work[p].prev = 0 \/ Kept(work[p].prev))
  /\ snapshots' = Pruned(Append(snapshots, Snapshot(p, work[p].prev)))
  /\ work' = [work EXCEPT ![p] = IF work[p].prev # 0 THEN [@ EXCEPT !.step = "notify", !.prev = NewId] ELSE Resting]
  /\ UNCHANGED <<structure, watched, catalog, started, changes, historyTroubles>>

\* The snapshot it follows has been pruned meanwhile.
AddRefused(p) ==
  /\ work[p].step = "add" /\ work[p].prev # 0 /\ ~Kept(work[p].prev)
  /\ Ends(p)
  /\ UNCHANGED <<structure, snapshots, watched, catalog, started, changes, historyTroubles>>

Tell(p) == [i \in 1..Len(snapshots) |-> IF snapshots[i].id = work[p].prev THEN [snapshots[i] EXCEPT !.told = @ + 1] ELSE snapshots[i]]

\* notifyChanged
Notify(p) ==
  /\ work[p].step = "notify" /\ snapshots' = Tell(p) /\ Ends(p)
  /\ UNCHANGED <<structure, watched, catalog, started, changes, historyTroubles>>

\* The process ends, and all its goroutines.
Dies ==
  /\ Trouble /\ started' = {} /\ work' = [p \in Refreshers |-> Resting]
  /\ UNCHANGED <<structure, snapshots, watched, catalog, changes>>

---------------------------------------------------------------------------

Step(p) ==
  Read(p) \/ ReadEnds(p) \/ Replace(p) \/ ReadLatest(p) \/ Add(p) \/ AddRefused(p) \/ Notify(p)

HistoryNext ==
  \/ ChangeElsewhere \/ SchemaChanged \/ Dies
  \/ \E p \in Refreshers : \/ RefreshDue(p) \/ RunDue(p) \/ RefreshAfterDDL(p) \/ CheckAfterDDL(p)
                        \/ SetWatch(p) \/ TakeSnapshot(p) \/ Step(p) \/ ReadFails(p)

\* Time passes, a pass is made every minute, with both parts, and whoever has
\* begun goes on.
HistoryFairness ==
  /\ SF_historyVars(\E p \in Refreshers : RefreshDue(p)) /\ SF_historyVars(\E p \in Refreshers : RunDue(p))
  /\ \A p \in Refreshers : WF_historyVars(Step(p))

HistorySpec == HistoryInit /\ [][HistoryNext]_historyVars /\ HistoryFairness

---------------------------------------------------------------------------
(* Properties *)

\* A snapshot is of another structure than the one it is said to follow: what
\* changed is never nothing.
ChangesAreReal ==
  \A i, j \in 1..Len(snapshots) : snapshots[j].prev = snapshots[i].id => snapshots[j].hash # snapshots[i].hash

\* A change is announced once, and every recorded one is, unless the process ended.
ChangesAreAnnounced ==
  \A i \in 1..Len(snapshots) :
    /\ snapshots[i].told <= 1
    /\ historyTroubles = 0 /\ snapshots[i].prev # 0 /\ (\A p \in Refreshers : work[p].step # "notify") => snapshots[i].told = 1

\* While a database is watched its history ends with the structure it has,
\* whatever was missed, failed or written in the wrong order before.
HistoryCatchesUp ==
  <>[]watched => <>[](snapshots # <<>> /\ Last(snapshots).hash = structure)

\* So does the search.
SearchCatchesUp == "catalog" \in Kinds => <>[](catalog = structure)

\* "a snapshot for every distinct structure": none twice in a row.
NoRepeat == \A i \in 1..(Len(snapshots) - 1) : snapshots[i].hash # snapshots[i + 1].hash

\* The structures of the history are structures the database had.
SnapshotsAreReal == \A i \in 1..Len(snapshots) : snapshots[i].hash # Torn
=============================================================================
