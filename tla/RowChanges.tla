------------------------------ MODULE RowChanges ------------------------------
(***************************************************************************)
(* The data browser: edits of single rows, the journal that makes them     *)
(* undoable, and the comparison of a table with a restored backup copy.    *)
(*                                                                         *)
(* An edit is one transaction in the user's database; its journal entry is *)
(* written to Fleetdock's own database afterwards.  An undo claims the     *)
(* entry first, then writes the inverse in a transaction that looks at the *)
(* row, then records that change too; a failed one releases its claim.     *)
(*                                                                         *)
(* One table is followed, without triggers.  A row is a function of its    *)
(* columns, "k" the key; an absent row and an absent image are {}.         *)
(* Abstracted: session settings, texts, entries too large to keep.         *)
(***************************************************************************)
EXTENDS Integers, Sequences, FiniteSets, SequencesExt

CONSTANTS
  RowKeys, RowValues,  \* numbers
  Cols,          \* the columns besides the key
  Shared,        \* those of them the backup has too
  Stored,        \* the table at first
  Backup,        \* the table in the backup copy
  Undoers,       \* requests that undo
  PageRows,      \* rows compared per request
  MaxBatchUndo,  \* entries one request undoes
  MaxEntries,    \* bound: journal entries
  MaxEdits,      \* bound: edits, restores and writes from elsewhere
  MaxUndos,      \* bound: requests to undo
  MaxFaults      \* bound: requests that die, answers and journal writes that are lost

ASSUME RowChangesAssumption ==
  /\ RowKeys \subseteq Nat /\ IsFiniteSet(RowKeys) /\ RowValues # {} /\ Shared \subseteq Cols
  /\ PageRows \in Nat \ {0} /\ MaxBatchUndo \in Nat \ {0}
  /\ MaxEntries \in Nat /\ MaxEdits \in Nat /\ MaxUndos \in Nat /\ MaxFaults \in Nat

Row(k, v) == ("k" :> k) @@ v
AllRows == {Row(k, v) : k \in RowKeys, v \in [Cols -> RowValues]}

VARIABLES
  rows,      \* the table
  journal,   \* row_changes, oldest first
  unwritten, \* changes that were committed and are not in the journal yet
  undo,      \* what each undoing request is at
  compare,   \* the comparison with the backup copy
  save,      \* the edits of one save: the table before them, whether it is still as they left it
  reverted,  \* entries whose inverse was written, with how often
  count,     \* edits and undos so far
  faults     \* how many there were

rowVars == <<rows, journal, unwritten, undo, compare, save, reverted, count, faults>>

NoUndo == [at |-> "idle"]
NotCompared == [at |-> "off", after |-> {}, items |-> {}, still |-> FALSE]

RowChangesInit ==
  /\ rows = Stored /\ journal = <<>> /\ unwritten = {}
  /\ undo = [u \in Undoers |-> NoUndo]
  /\ compare = NotCompared
  /\ save = [begun |-> FALSE, before |-> {}, quiet |-> FALSE]
  /\ reverted = [e \in 1..MaxEntries |-> 0]
  /\ count = [edits |-> 0, undos |-> 0]
  /\ faults = 0

---------------------------------------------------------------------------
(* Row images *)

Read(key) == {r \in rows : r["k"] = key}

SameValues(want, got) == \A c \in DOMAIN want : got[c] = want[c]

Overlay(base, top) == top @@ base

Pick(img, cols) == Restrict(img, cols \cup {"k"})

\* ExpectImage: want is what the row should look like, {} that there is none.
Expected(want, current) ==
  IF want = {} THEN current = {}
  ELSE \E w \in want, r \in current : SameValues(w, r)

Default == [c \in Cols |-> CHOOSE v \in RowValues : TRUE]

Change(op, key, before, after) == [op |-> op, key |-> key, before |-> before, after |-> after]
NoChange == Change("", 0, {}, {})

\* The row r becomes new, if no other row has its key.
Replaced(r, new, cols) ==
  IF new["k"] # r["k"] /\ Read(new["k"]) # {} THEN {}
  ELSE {[rows |-> (rows \ {r}) \cup {new},
         change |-> Change("update", new["k"], {Pick(r, cols)}, {Pick(new, cols)})]}

Inserted(new) ==
  IF Read(new["k"]) # {} THEN {}
  ELSE {[rows |-> rows \cup {new}, change |-> Change("insert", new["k"], {}, {new})]}

Deleted(r) == {[rows |-> rows \ {r}, change |-> Change("delete", r["k"], {r}, {})]}

\* What an edit may do: each outcome is the table after and the change.
Inserts == UNION {Inserted(r) : r \in AllRows}
Deletes == UNION {Deleted(r) : r \in rows}
Updates ==
  UNION {Replaced(r, Overlay(r, v), DOMAIN v) :
           r \in rows, v \in UNION {[{c} -> RowValues] : c \in Cols} \cup [{"k"} -> RowKeys]}

\* planApply: make the row at key look like want.
Apply(key, want) ==
  LET current == Read(key)
  IN  IF want = {} THEN IF current = {} THEN {[rows |-> rows, change |-> NoChange]}
                        ELSE UNION {Deleted(r) : r \in current}
      ELSE IF current = {} THEN UNION {Inserted(Overlay(Default, w)) : w \in want}
      ELSE UNION {LET set == {c \in DOMAIN w : w[c] # r[c]}
                  IN  IF set = {} THEN {[rows |-> rows, change |-> NoChange]}
                      ELSE Replaced(r, Overlay(r, w), set) : r \in current, w \in want}

---------------------------------------------------------------------------
(* Edits *)

Fault == faults < MaxFaults /\ faults' = faults + 1

\* The journal entry of a change; batch is the save it belongs to.
Entry(ch, batch) == ch @@ [batch |-> batch, status |-> "open"]

Disturbed == [save EXCEPT !.quiet = FALSE]
TableMoved == [compare EXCEPT !.still = FALSE]
Edited == count.edits < MaxEdits /\ count' = [count EXCEPT !.edits = @ + 1]

\* Whether an edit of the save may follow: the one before is in the journal.
Saving == \A w \in unwritten : w.batch = "other"

\* An edit of the save, or of somebody else in a save of their own.
EditRow(batch, outcomes) ==
  /\ Edited
  /\ batch = "save" => Saving
  /\ \E o \in outcomes :
       /\ rows' = o.rows
       /\ unwritten' = unwritten \cup {Entry(o.change, batch)}
  /\ save' = IF batch = "other" THEN Disturbed
             ELSE IF ~save.begun THEN [begun |-> TRUE, before |-> rows, quiet |-> TRUE]
             ELSE IF count.undos > 0 THEN Disturbed ELSE save
  /\ compare' = TableMoved
  /\ UNCHANGED <<journal, undo, reverted, faults>>

InsertRow(batch) == EditRow(batch, Inserts)
UpdateRow(batch) == EditRow(batch, Updates)
DeleteRow(batch) == EditRow(batch, Deletes)

\* A statement from elsewhere: not in the journal, like a CSV import, which is all or nothing.
WriteElsewhere ==
  /\ Edited
  /\ \E o \in Inserts \cup Updates \cup Deletes : rows' = o.rows
  /\ save' = Disturbed /\ compare' = TableMoved
  /\ UNCHANGED <<journal, unwritten, undo, reverted, faults>>

ImportCSV ==
  /\ Edited
  /\ \E new \in SUBSET AllRows :
       /\ Cardinality(new) > 1
       /\ \A r \in new : Read(r["k"]) = {} /\ \A q \in new : q["k"] = r["k"] => q = r
       /\ rows' = rows \cup new
  /\ save' = Disturbed /\ compare' = TableMoved
  /\ UNCHANGED <<journal, unwritten, undo, reverted, faults>>

Add(entry) == Len(journal) < MaxEntries /\ journal' = Append(journal, entry)

\* record: after the commit, in a statement of its own.
Record(w) ==
  /\ w \in unwritten /\ unwritten' = unwritten \ {w}
  /\ Add(w)
  /\ UNCHANGED <<rows, undo, compare, save, reverted, count, faults>>

\* The journal failed, or the process died: the edit stays.
RecordFails(w) ==
  /\ Fault /\ w \in unwritten /\ unwritten' = unwritten \ {w}
  /\ save' = Disturbed
  /\ UNCHANGED <<rows, journal, undo, compare, reverted, count>>

\* PruneBefore, by the housekeeping.
PruneBefore ==
  /\ Fault
  /\ \E e \in DOMAIN journal :
       /\ journal[e].status # "pruned" /\ \A d \in 1..(e - 1) : journal[d].status = "pruned"
       /\ journal' = [journal EXCEPT ![e].status = "pruned"]
  /\ save' = Disturbed
  /\ UNCHANGED <<rows, unwritten, undo, compare, reverted, count>>

---------------------------------------------------------------------------
(* Undoing *)

BeginUndo(u, batch, todo, force) ==
  /\ undo[u] = NoUndo /\ count.undos < MaxUndos
  /\ count' = [count EXCEPT !.undos = @ + 1]
  /\ undo' = [undo EXCEPT ![u] = [at |-> IF todo = <<>> THEN "done" ELSE "claim", batch |-> batch,
                                 todo |-> todo, force |-> force, clean |-> TRUE, empty |-> todo = <<>>]]
  /\ save' = IF batch /\ count.undos = 0 /\ Saving THEN save ELSE Disturbed
  /\ UNCHANGED <<rows, journal, unwritten, compare, reverted, faults>>

UndoChange(u, e, force) == e \in DOMAIN journal /\ journal[e].status # "pruned" /\ BeginUndo(u, FALSE, <<e>>, force)

\* List: the newest entries of the save.
Listed ==
  LET all == SelectSeq(Reverse([i \in 1..Len(journal) |-> i]),
                       LAMBDA e : journal[e].batch = "save" /\ journal[e].status # "pruned")
  IN  SubSeq(all, 1, IF Len(all) < MaxBatchUndo THEN Len(all) ELSE MaxBatchUndo)

\* Those undone already are left out.
BatchNewestFirst == SelectSeq(Listed, LAMBDA e : journal[e].status = "open")

UndoBatch(u, force) == save.begun /\ BeginUndo(u, TRUE, BatchNewestFirst, force)

\* On to the next entry, if there is one.
Proceed(u, clean) ==
  LET rest == Tail(undo[u].todo)
  IN  undo' = [undo EXCEPT ![u] = [at |-> IF rest = <<>> THEN "done" ELSE "claim", batch |-> @.batch, todo |-> rest,
                                  force |-> @.force, clean |-> @.clean /\ clean, empty |-> FALSE]]

\* Mutant: the entry as it was read decides.
ClaimUndoUnheeded(u) ==
  /\ undo[u].at = "claim"
  /\ undo' = [undo EXCEPT ![u].at = "apply"]
  /\ journal' = [journal EXCEPT ![Head(undo[u].todo)].status = "undone"]
  /\ UNCHANGED <<rows, unwritten, compare, save, reverted, count, faults>>

ClaimUndo(u) ==
  /\ undo[u].at = "claim"
  /\ LET e == Head(undo[u].todo)
     IN  IF journal[e].status = "open"
         THEN /\ journal' = [journal EXCEPT ![e].status = "undone"]
              /\ undo' = [undo EXCEPT ![u].at = "apply"]
         ELSE UNCHANGED journal /\ Proceed(u, FALSE)
  /\ UNCHANGED <<rows, unwritten, compare, save, reverted, count, faults>>

\* What the row should look like for entry e to be undone, and after.
CheckRow(e) == IF journal[e].op = "delete" THEN {} ELSE journal[e].after
Want(e) == journal[e].before

UndoFails(u, how) == undo' = [undo EXCEPT ![u].at = how]

\* The transaction that writes the inverse.
ApplyUndo(u) ==
  /\ undo[u].at = "apply"
  /\ LET e == Head(undo[u].todo)
         key == journal[e].key
     IN  \/ Fault /\ UndoFails(u, "failed") /\ UNCHANGED <<rows, reverted, compare>>
         \/ /\ ~undo[u].force /\ ~Expected(CheckRow(e), Read(key))
            /\ UndoFails(u, "conflict")
            /\ UNCHANGED <<rows, reverted, compare, faults>>
         \/ /\ undo[u].force \/ Expected(CheckRow(e), Read(key))
            /\ IF Apply(key, Want(e)) = {} THEN UndoFails(u, "failed") /\ UNCHANGED <<rows, reverted, compare, faults>>
               ELSE \E o \in Apply(key, Want(e)) :
                      /\ rows' = o.rows
                      /\ reverted' = [reverted EXCEPT ![e] = @ + 1]
                      /\ compare' = TableMoved
                      /\ \/ undo' = [undo EXCEPT ![u] = @ @@ [change |-> o.change], ![u].at = "record"] /\ UNCHANGED faults
                         \/ Fault /\ UndoFails(u, "failed")   \* the answer is lost
  /\ UNCHANGED <<journal, unwritten, save, count>>

\* A conflict is a result and the next entry follows; another error ends the request.
ReleaseUndo(u) ==
  /\ undo[u].at \in {"conflict", "failed"}
  /\ journal' = [journal EXCEPT ![Head(undo[u].todo)].status = IF @ = "pruned" THEN @ ELSE "open"]
  /\ IF undo[u].at = "conflict" THEN Proceed(u, FALSE) ELSE undo' = [undo EXCEPT ![u] = NoUndo]
  /\ UNCHANGED <<rows, unwritten, compare, save, reverted, count, faults>>

\* The undo is an entry of its own, which can be undone.
RecordUndo(u) ==
  /\ undo[u].at = "record"
  /\ IF undo[u].change = NoChange THEN UNCHANGED journal
     ELSE Add(Entry(undo[u].change, "other"))
  /\ Proceed(u, TRUE)
  /\ UNCHANGED <<rows, unwritten, compare, save, reverted, count, faults>>

AnswerUndo(u) ==
  /\ undo[u].at = "done" /\ undo' = [undo EXCEPT ![u] = NoUndo]
  /\ UNCHANGED <<rows, journal, unwritten, compare, save, reverted, count, faults>>

\* The process dies, or the journal fails when a claim is released.
UndoDies(u) ==
  /\ Fault /\ undo[u] # NoUndo
  /\ undo' = [undo EXCEPT ![u] = NoUndo]
  /\ save' = Disturbed
  /\ UNCHANGED <<rows, journal, unwritten, compare, reverted, count>>

---------------------------------------------------------------------------
(* Comparing with a backup copy *)

Common(r) == Restrict(r, Shared \cup {"k"})

\* ScanRows: the next page in key order.
Page(table, after) ==
  LET rest == {r \in table : \A k \in after : r["k"] > k}
  IN  {r \in rest : Cardinality({q \in rest : q["k"] < r["k"]}) < PageRows}

LastKey(page) == {r["k"] : r \in {q \in page : \A p \in page : p["k"] <= q["k"]}}

RowHash(r) == Common(r)
Item(kind, r) == [kind |-> kind, key |-> r["k"], hash |-> RowHash(r), live |-> r]

GetRows(table, key) == {r \in table : r["k"] = key}

\* diffPages, of a page of the table with the copy and the other way round.
DiffLive(page) ==
  {Item("added", r) : r \in {q \in page : GetRows(Backup, q["k"]) = {}}}
    \cup {Item("changed", r) : r \in {q \in page : \E b \in GetRows(Backup, q["k"]) : Common(b) # Common(q)}}
DiffBackup(page) == {Item("removed", Common(b)) : b \in {q \in page : GetRows(rows, q["k"]) = {}}}

BeginCompare ==
  /\ compare.at = "off" /\ count.edits < MaxEdits
  /\ compare' = [at |-> "live", after |-> {}, items |-> {}, still |-> TRUE]
  /\ UNCHANGED <<rows, journal, unwritten, undo, save, reverted, count, faults>>

DiffCopy ==
  /\ compare.at \in {"live", "backup"}
  /\ LET table == IF compare.at = "live" THEN rows ELSE Backup
         page == Page(table, compare.after)
         full == Cardinality(page) = PageRows
     IN  compare' = [compare EXCEPT !.items = @ \cup IF compare.at = "live" THEN DiffLive(page) ELSE DiffBackup(page),
                                   !.after = IF full THEN LastKey(page) ELSE {},
                                   !.at = IF full THEN @ ELSE IF @ = "live" THEN "backup" ELSE "done"]
  /\ UNCHANGED <<rows, journal, unwritten, undo, save, reverted, count, faults>>

\* Whether the row is still as it was compared: the columns both sides have.
AsCompared(item) ==
  IF item.kind = "removed" THEN Read(item.key) = {}
  ELSE \E r \in Read(item.key) : RowHash(r) = item.hash

\* RestoreRows, one row of it, in the save that can be undone as a whole.
RestoreRow(item) ==
  /\ item \in compare.items /\ compare.at = "done" /\ Saving
  /\ Edited
  /\ LET want == IF item.kind = "added" THEN {} ELSE {Common(b) : b \in GetRows(Backup, item.key)}
     IN  \/ /\ ~AsCompared(item)
            /\ UNCHANGED <<rows, unwritten, save>>
            /\ compare' = [compare EXCEPT !.items = @ \ {item}, !.still = FALSE]
         \/ /\ AsCompared(item)
            /\ \E o \in Apply(item.key, want) :
                 /\ rows' = o.rows
                 /\ unwritten' = unwritten \cup {Entry(o.change, "save")}
            /\ compare' = [compare EXCEPT !.items = @ \ {item}]
            /\ save' = IF ~save.begun THEN [begun |-> TRUE, before |-> rows, quiet |-> TRUE]
                       ELSE IF count.undos > 0 THEN Disturbed ELSE save
  /\ UNCHANGED <<journal, undo, reverted, faults>>

---------------------------------------------------------------------------

UndoStep(u) ==
  \/ \E force \in BOOLEAN : UndoBatch(u, force) \/ \E e \in DOMAIN journal : UndoChange(u, e, force)
  \/ ClaimUndo(u) \/ ApplyUndo(u) \/ ReleaseUndo(u) \/ RecordUndo(u) \/ AnswerUndo(u) \/ UndoDies(u)

RowChangesNext ==
  \/ \E batch \in {"save", "other"} : InsertRow(batch) \/ UpdateRow(batch) \/ DeleteRow(batch)
  \/ WriteElsewhere \/ ImportCSV \/ PruneBefore
  \/ \E w \in unwritten : Record(w) \/ RecordFails(w)
  \/ \E u \in Undoers : UndoStep(u)
  \/ BeginCompare \/ DiffCopy \/ \E item \in compare.items : RestoreRow(item)

RowChangesSpec == RowChangesInit /\ [][RowChangesNext]_rowVars

---------------------------------------------------------------------------
(* Properties *)

\* A save nobody interfered with is undone as a whole: every entry, without a
\* conflict, and the table is what it was, also where the save changed a row
\* several times, moved it to another key, or put rows back from a backup.
BatchRestores ==
  \A u \in Undoers :
    undo[u].at = "done" /\ undo[u].batch /\ save.quiet => undo[u].clean /\ rows = save.before

\* Two requests that undo the same entry: one of them writes its inverse.
RevertedOnce == faults = 0 => \A e \in 1..MaxEntries : reverted[e] <= 1

Undoing(e) == \E u \in Undoers : undo[u].at \in {"apply", "record", "conflict", "failed"} /\ Head(undo[u].todo) = e

\* An entry is marked undone if its inverse was written, and only then, except
\* while the request that claimed it is under way.  A process that dies between
\* the two leaves it marked; an answer that is lost leaves it unmarked.
ClaimsAreHonest ==
  faults = 0 => \A e \in DOMAIN journal : journal[e].status # "pruned" /\ ~Undoing(e) => (journal[e].status = "undone" <=> reverted[e] > 0)

\* A comparison all of whose differences were put back, with nothing else
\* written since it began, has made the table what the backup is in the columns
\* they share: no page was skipped, no row compared with another.
RestoresBackup ==
  compare.at = "done" /\ compare.items = {} /\ compare.still => {Common(r) : r \in rows} = {Common(b) : b \in Backup}

\* A request to undo a save that finds nothing to undo leaves nothing undone.
BatchMakesProgress ==
  [][\A u \in Undoers : undo[u] = NoUndo /\ undo'[u] # NoUndo /\ undo'[u].batch /\ undo'[u].empty
       => \A e \in DOMAIN journal : journal[e].batch = "save" => journal[e].status # "open"]_rowVars

\* A row put back was not changed since it was compared.
RestoreKeepsChanges ==
  [][\A item \in compare.items : RestoreRow(item) /\ rows' # rows => Read(item.key) \subseteq {item.live}]_rowVars
=============================================================================
