------------------------------ MODULE Databases ------------------------------
(***************************************************************************)
(* Database records, the databases on the servers they stand for, and      *)
(* moves between servers.                                                  *)
(*                                                                         *)
(* A record is created before its database (a job does that) and removed   *)
(* before it (another job drops it).  Every minute a probe lists what is   *)
(* on a server and brings the records in line.  A move is a backup job, a  *)
(* restore job on the target and the completion of each: the second        *)
(* records the new database and, when asked to, deletes the source.        *)
(* Its public endpoint goes along (Endpoints has that part).               *)
(*                                                                         *)
(* Abstracted: jobs run and are finalized in one step (Operations has      *)
(* their course), their side effects follow in another that a death may    *)
(* prevent; two jobs may end in any order, as workers run them at once.    *)
(* The content of a database is the set of records it was made for.  All   *)
(* servers have an admin login; names, labels and sizes are left out.      *)
(***************************************************************************)
EXTENDS Integers, FiniteSets

CONSTANTS
  Dbs,        \* record ids
  Places,     \* an instance and a name on it
  Instances,
  InstanceOf, \* the instance of a place
  InPlace,    \* whether a move may be asked for into its own source
  MaxErrands, \* bound: when a job is added, the others at once
  MaxDeletes, \* bound: deletions at once
  MaxMoves,   \* bound: moves in all
  MaxUpsets   \* bound: deaths, failed jobs, changes made outside Fleetdock

ASSUME DatabasesAssumption ==
  /\ IsFiniteSet(Dbs) /\ IsFiniteSet(Places)
  /\ InstanceOf \in [Places -> Instances] /\ InPlace \in BOOLEAN
  /\ MaxErrands \in Nat /\ MaxDeletes \in Nat /\ MaxMoves \in Nat /\ MaxUpsets \in Nat

VARIABLES
  dbRow,     \* the databases table
  there,     \* the places where there is a database
  content,   \* what each place holds
  errands,   \* jobs to run
  ended,     \* jobs that succeeded and whose completion is to come
  deleting,  \* deletions between their statements
  cutting,   \* completions of a restore between their statements
  listing,   \* the probe of an instance: what it saw, or Unlisted
  \* content somebody asked to destroy
  discarded, \* content somebody asked to destroy
  moves, upsets

dbVars == <<dbRow, there, content, errands, ended, deleting, cutting, listing,
            discarded, moves, upsets>>

Unlisted == [known |-> FALSE, names |-> {}]

Status == {"none", "creating", "active", "locked", "missing", "error", "removed", "forgotten"}

NoRow == [status |-> "none", at |-> CHOOSE p \in Places : TRUE, seen |-> FALSE]

\* load: what a backup dumped, a restore brings, and, of the drop that ends a
\* move, what the move has brought elsewhere.
Errand == [kind : {"create", "drop", "backup", "restore"}, db : Dbs, at : Places,
           target : Places, load : SUBSET Dbs, move : BOOLEAN, drop : BOOLEAN]

NewErrand(kind, d, p, t, load, move, drop) ==
  [kind |-> kind, db |-> d, at |-> p, target |-> t, load |-> load, move |-> move, drop |-> drop]

Live(d) == dbRow[d].status \notin {"none", "removed", "forgotten"}

\* uq_databases_name
Taken(p) == \E d \in Dbs : Live(d) /\ dbRow[d].at = p

Unused == {d \in Dbs : dbRow[d].status = "none"}

NewId == CHOOSE d \in Unused : TRUE

DatabasesInit ==
  /\ dbRow = [d \in Dbs |-> NoRow]
  /\ there = {} /\ content = [p \in Places |-> {}]
  /\ errands = {} /\ ended = {} /\ deleting = {} /\ cutting = {}
  /\ listing = [i \in Instances |-> Unlisted]
  /\ discarded = {} /\ moves = 0 /\ upsets = 0

Upset == upsets < MaxUpsets /\ upsets' = upsets + 1

Insert(d, p, status) == dbRow' = [dbRow EXCEPT ![d] = [status |-> status, at |-> p, seen |-> TRUE]]

SetStatus(d, status) ==
  dbRow' = IF Live(d) THEN [dbRow EXCEPT ![d].status = status] ELSE dbRow

Enqueue(j) == Cardinality(errands \cup ended) <= MaxErrands /\ errands' = errands \cup {j}

---------------------------------------------------------------------------
(* Requests *)

\* The row and its job are two statements; between them the request may die.
CreateDatabase(p) ==
  /\ Unused # {} /\ ~Taken(p)
  /\ Insert(NewId, p, "creating")
  /\ \/ /\ Enqueue(NewErrand("create", NewId, p, p, {}, FALSE, FALSE)) /\ UNCHANGED upsets
     \/ Upset /\ UNCHANGED errands
  /\ UNCHANGED <<there, content, ended, deleting, cutting, listing, discarded, moves>>

LockDatabase(d) ==
  /\ Live(d)
  /\ SetStatus(d, "locked")
  /\ UNCHANGED <<there, content, errands, ended, deleting, cutting, listing,
                 discarded, moves, upsets>>

UnlockDatabase(d) ==
  /\ Live(d)
  /\ SetStatus(d, "active")
  /\ UNCHANGED <<there, content, errands, ended, deleting, cutting, listing,
                 discarded, moves, upsets>>

\* The job that drops is there before the record is gone.
BeginDelete(d, drop, load, move) ==
  /\ Live(d) /\ Cardinality(deleting) < MaxDeletes
  /\ IF drop THEN Enqueue(NewErrand("drop", d, dbRow[d].at, dbRow[d].at, load, move, FALSE))
     ELSE UNCHANGED errands
  /\ deleting' = deleting \cup {d}

DeleteDatabase(d, drop) ==
  /\ BeginDelete(d, drop, {}, FALSE)
  /\ UNCHANGED <<dbRow, there, content, ended, cutting, listing, discarded, moves, upsets>>

SoftDelete(d) ==
  /\ d \in deleting
  /\ dbRow' = IF Live(d) THEN [dbRow EXCEPT ![d].status = "removed", ![d].seen = FALSE] ELSE dbRow
  /\ deleting' = deleting \ {d}
  /\ UNCHANGED <<there, content, errands, ended, cutting, listing, discarded, moves, upsets>>

StartMove(d, p, drop) ==
  /\ Live(d) /\ moves < MaxMoves
  /\ p = dbRow[d].at => InPlace
  /\ Enqueue(NewErrand("backup", d, dbRow[d].at, p, {}, TRUE, drop))
  /\ moves' = moves + 1
  /\ UNCHANGED <<dbRow, there, content, ended, deleting, cutting, listing, discarded, upsets>>

---------------------------------------------------------------------------
(* Jobs *)

MakeDatabase(j) ==
  /\ there' = there \cup {j.at}
  /\ content' = IF j.at \in there THEN content ELSE [content EXCEPT ![j.at] = {j.db}]
  /\ ended' = ended \cup {j} /\ UNCHANGED discarded

DropDatabase(j) ==
  /\ there' = there \ {j.at}
  /\ content' = [content EXCEPT ![j.at] = {}]
  /\ discarded' = IF j.move THEN discarded ELSE discarded \cup content[j.at]
  /\ UNCHANGED ended

DumpDatabase(j) ==
  /\ j.at \in there
  /\ ended' = ended \cup {[j EXCEPT !.load = content[j.at]]}
  /\ UNCHANGED <<there, content, discarded>>

LoadDatabase(j) ==
  /\ there' = there \cup {j.at}
  /\ content' = [content EXCEPT ![j.at] = @ \cup j.load]
  /\ ended' = ended \cup {j} /\ UNCHANGED discarded

RunErrand(j) ==
  /\ j \in errands /\ errands' = errands \ {j}
  /\ CASE j.kind = "create" -> MakeDatabase(j)
       [] j.kind = "drop" -> DropDatabase(j)
       [] j.kind = "backup" -> DumpDatabase(j)
       [] j.kind = "restore" -> LoadDatabase(j)
  /\ UNCHANGED <<dbRow, deleting, cutting, listing, moves, upsets>>

\* Mutant: a restore that failed is completed like one that did not.
FailErrandUnheeded(j) ==
  /\ j \in errands /\ errands' = errands \ {j}
  /\ IF j.kind = "backup" /\ j.at \notin there THEN UNCHANGED upsets ELSE Upset
  /\ IF j.kind = "create" THEN SetStatus(j.db, "error") ELSE UNCHANGED dbRow
  /\ ended' = IF j.kind = "restore" THEN ended \cup {j} ELSE ended
  /\ UNCHANGED <<there, content, deleting, cutting, listing, discarded, moves>>

\* A job that fails; a dump of a database that is gone always does.
FailErrand(j) ==
  /\ j \in errands /\ errands' = errands \ {j}
  /\ IF j.kind = "backup" /\ j.at \notin there THEN UNCHANGED upsets ELSE Upset
  /\ IF j.kind = "create" THEN SetStatus(j.db, "error") ELSE UNCHANGED dbRow
  /\ UNCHANGED <<there, content, ended, deleting, cutting, listing, discarded, moves>>

CompleteCreate(j) ==
  /\ j \in ended /\ j.kind = "create"
  /\ SetStatus(j.db, "active")
  /\ ended' = ended \ {j}
  /\ UNCHANGED <<there, content, errands, deleting, cutting, listing, discarded, moves, upsets>>

OnBackupComplete(j) ==
  /\ j \in ended /\ j.kind = "backup"
  /\ errands' = errands \cup {NewErrand("restore", j.db, j.target, j.target, j.load, TRUE, j.drop)}
  /\ ended' = ended \ {j}
  /\ UNCHANGED <<dbRow, there, content, deleting, cutting, listing, discarded, moves, upsets>>

\* The new record; a conflict is ignored.
RecordMoved(j) ==
  /\ j \in ended /\ j.kind = "restore" /\ Unused # {}
  /\ IF Taken(j.at) THEN UNCHANGED dbRow ELSE Insert(NewId, j.at, "active")
  /\ cutting' = cutting \cup {j}
  /\ ended' = ended \ {j}
  /\ UNCHANGED <<there, content, errands, deleting, listing, discarded, moves, upsets>>

CutOver(c) ==
  /\ c \in cutting
  /\ IF c.drop /\ Live(c.db) THEN BeginDelete(c.db, TRUE, c.load, TRUE)
     ELSE UNCHANGED <<errands, deleting>>
  /\ cutting' = cutting \ {c}
  /\ UNCHANGED <<dbRow, there, content, ended, listing, discarded, moves, upsets>>

---------------------------------------------------------------------------
(* Probes *)

ListDatabases(i) ==
  /\ ~listing[i].known
  /\ listing' = [listing EXCEPT ![i] = [known |-> TRUE, names |-> {p \in there : InstanceOf[p] = i}]]
  /\ UNCHANGED <<dbRow, there, content, errands, ended, deleting, cutting, discarded, moves, upsets>>

RecentlyRemoved(p) == \E d \in Dbs : dbRow[d].status = "removed" /\ dbRow[d].at = p

\* Mutant: what the user removed is not asked for.
UndiscoveredAll(i) == {p \in listing[i].names : ~Taken(p)}

\* The places to be discovered; the model has an id for one at a time.
Undiscovered(i) == {p \in listing[i].names : ~Taken(p) /\ ~RecentlyRemoved(p)}

Observed(d, seen) ==
  IF dbRow[d].at \in seen
    THEN [dbRow[d] EXCEPT !.seen = TRUE, !.status = IF @ = "missing" THEN "active" ELSE @]
    ELSE [dbRow[d] EXCEPT !.status = IF @ = "active" /\ ~dbRow[d].seen THEN "missing" ELSE @]

\* One transaction.
ReconcileDatabases(i) ==
  /\ listing[i].known
  /\ LET known == [d \in Dbs |-> IF Live(d) /\ InstanceOf[dbRow[d].at] = i
                                  THEN Observed(d, listing[i].names) ELSE dbRow[d]]
     IN IF Undiscovered(i) # {} /\ Unused # {}
          THEN \E p \in Undiscovered(i) :
                 dbRow' = [known EXCEPT ![NewId] = [status |-> "active", at |-> p, seen |-> TRUE]]
          ELSE dbRow' = known
  /\ listing' = [listing EXCEPT ![i] = Unlisted]
  /\ UNCHANGED <<there, content, errands, ended, deleting, cutting, discarded, moves, upsets>>

\* Three minutes in which the database was not seen.
Unseen(d) ==
  /\ Live(d) /\ dbRow[d].seen
  /\ dbRow[d].at \notin there
  /\ dbRow' = [dbRow EXCEPT ![d].seen = FALSE]
  /\ UNCHANGED <<there, content, errands, ended, deleting, cutting, listing, discarded, moves, upsets>>

\* The recovery window of seven days; of an old row nothing matters.
Forget(d) ==
  /\ dbRow[d].status = "removed"
  /\ dbRow' = [dbRow EXCEPT ![d] = [NoRow EXCEPT !.status = "forgotten"]]
  /\ UNCHANGED <<there, content, errands, ended, deleting, cutting, listing, discarded, moves, upsets>>

---------------------------------------------------------------------------
(* Faults *)

AppearsOutside(p) ==
  /\ p \notin there /\ Upset
  /\ there' = there \cup {p}
  /\ UNCHANGED <<dbRow, content, errands, ended, deleting, cutting, listing, discarded, moves>>

VanishesOutside(p) ==
  /\ p \in there /\ Upset
  /\ there' = there \ {p} /\ content' = [content EXCEPT ![p] = {}]
  /\ discarded' = discarded \cup content[p]
  /\ UNCHANGED <<dbRow, errands, ended, deleting, cutting, listing, moves>>

CompletionLost(j) ==
  /\ j \in ended /\ Upset
  /\ ended' = ended \ {j}
  /\ UNCHANGED <<dbRow, there, content, errands, deleting, cutting, listing, discarded, moves>>

RequestDies ==
  /\ \/ \E d \in deleting : deleting' = deleting \ {d} /\ UNCHANGED cutting
     \/ \E c \in cutting : cutting' = cutting \ {c} /\ UNCHANGED deleting
  /\ Upset
  /\ UNCHANGED <<dbRow, there, content, errands, ended, listing, discarded, moves>>

DatabasesNext ==
  \/ \E p \in Places : CreateDatabase(p) \/ AppearsOutside(p) \/ VanishesOutside(p)
  \/ \E d \in Dbs : \/ LockDatabase(d) \/ UnlockDatabase(d) \/ Unseen(d) \/ Forget(d)
                    \/ \E drop \in BOOLEAN : \/ DeleteDatabase(d, drop)
                                             \/ \E p \in Places : StartMove(d, p, drop)
  \/ \E d \in deleting : SoftDelete(d)
  \/ \E j \in errands : RunErrand(j) \/ FailErrand(j)
  \/ \E j \in ended : \/ CompleteCreate(j) \/ OnBackupComplete(j) \/ RecordMoved(j)
                      \/ CompletionLost(j)
  \/ \E c \in cutting : CutOver(c)
  \/ \E i \in Instances : ListDatabases(i) \/ ReconcileDatabases(i)
  \/ RequestDies

DatabasesSpec == DatabasesInit /\ [][DatabasesNext]_dbVars

\* One replica at a time probes every server each minute; time passes.
DatabasesFairness ==
  /\ \A i \in Instances : WF_dbVars(ListDatabases(i)) /\ WF_dbVars(ReconcileDatabases(i))
  /\ \A d \in Dbs : WF_dbVars(Unseen(d))

---------------------------------------------------------------------------
(* Properties *)

Stored == UNION {content[p] : p \in Places}

\* The comment on the cutover: it drops the source "now that the copy is
\* verified".  Nothing the move dumped is lost, unless users or others outside
\* destroyed it; it is the order of restore, record and drop, and what becomes
\* of the copy in between, that can break it.
LivesOn == [][\A j \in errands : j.kind = "drop" /\ j.move /\ RunErrand(j) =>
                 (Stored \ Stored') \cap j.load \subseteq discarded]_dbVars

\* The stronger form: the drop destroys nothing but what the move dumped.
OnlyDumped == [][\A j \in errands : j.kind = "drop" /\ j.move /\ RunErrand(j) =>
                    Stored \ Stored' \subseteq j.load \cup discarded]_dbVars

\* A database the user removed from Fleetdock but not from its server is not
\* discovered again while the recovery window lasts, whatever a probe saw
\* before the removal.
RemovedStaysRemoved ==
  [][\A i \in Instances : ReconcileDatabases(i) =>
       \A d \in Dbs : dbRow[d].status = "none" /\ dbRow'[d].status = "active" =>
         ~RecentlyRemoved(dbRow'[d].at)]_dbVars

\* Probes bring the records in line: one whose database is gone for good does
\* not stay active, one whose database is back does not stay missing.
RecordsFollow ==
  \A d \in Dbs : /\ []<>~(dbRow[d].status = "active" /\ dbRow[d].at \notin there)
                 /\ []<>~(dbRow[d].status = "missing" /\ dbRow[d].at \in there)
=============================================================================
