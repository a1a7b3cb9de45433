---------------------------- MODULE SchemaScripts ----------------------------
(***************************************************************************)
(* The script that makes one database's structure look like another's      *)
(* (schemadiff.Migrate), and the server it is run on, statement after      *)
(* statement.  Four questions, one subject each:                           *)
(*                                                                         *)
(*   "structure"  the objects of a database, which use each other;         *)
(*   "order"      the columns added to a MySQL table;                      *)
(*   "labels"     the labels added to a PostgreSQL enum type;              *)
(*   "column"     the parts of a PostgreSQL column that change.            *)
(*                                                                         *)
(* Objects are numbered in the order of their names.  Each has a kind, the *)
(* table it is part of or on (0: none) and, by version of its definition,  *)
(* the objects it uses; a structure gives each object its version, 0 when  *)
(* it is not there.  What a server refuses is modelled as far as these     *)
(* uses say.  Abstracted: the definitions, PostgreSQL schemas, engines of  *)
(* one dialect, quoting and delimiters.                                    *)
(***************************************************************************)
EXTENDS Integers, Sequences, SequencesExt, FiniteSets

CONSTANTS
  Universes,   \* sets of objects: records [dialect, objects]
  Columns,     \* column names
  Labels,      \* enum labels
  Subjects     \* the subjects asked about

VARIABLES
  subject, u,  \* what is migrated, among which objects
  from, to,    \* the structure the database has, the one it is to have
  db,          \* the structure as it is
  todo,        \* statements still to run
  failed       \* the statement the server refused

scriptVars == <<subject, u, from, to, db, todo, failed>>

NoStatement == [does |-> "none"]
None == ""

Parts == {"column", "index", "primary", "unique", "check", "foreign"}
Constraints == {"primary", "unique", "check", "foreign"}

---------------------------------------------------------------------------
(* Structures *)

Ids(v) == 1..Len(v.objects)
Kind(v, o) == v.objects[o].kind
TableOf(v, o) == v.objects[o].table
Needs(v, o, d) == v.objects[o].uses[d] \cup ({TableOf(v, o)} \ {0})

Versions(v) == [Ids(v) -> 0..2]
Legal(v, s) == \A o \in Ids(v) : s[o] > 0 =>
                 s[o] <= Len(v.objects[o].uses) /\ \A x \in Needs(v, o, s[o]) : s[x] > 0

---------------------------------------------------------------------------
(* Diff and Migrate *)

\* A part of a table that is new or gone is no change of its own.
Op(v, a, b, o) ==
  CASE Kind(v, o) \in Parts /\ (a[TableOf(v, o)] = 0 \/ b[TableOf(v, o)] = 0) -> "none"
    [] a[o] = 0 /\ b[o] > 0 -> "added"
    [] a[o] > 0 /\ b[o] = 0 -> "removed"
    [] a[o] # b[o] -> "changed"
    [] OTHER -> "none"

Gone == {"removed", "changed"}
New == {"added", "changed"}

\* changesOf, in the order of their names
ChangesOf(v, a, b, kinds, ops) ==
  SelectSeq([o \in Ids(v) |-> o], LAMBDA o : Kind(v, o) \in kinds /\ Op(v, a, b, o) \in ops)

\* A statement that makes objects, or removes one.
Make(b, objects) == [does |-> "make", sets |-> [o \in objects |-> b[o]]]
Drop(o) == [does |-> "drop", sets |-> [x \in {o} |-> 0]]
Makes(b, s) == [i \in 1..Len(s) |-> Make(b, {s[i]})]
Drops(s) == [i \in 1..Len(s) |-> Drop(s[i])]

PartsOf(v, b, t, kinds) == {o \in Ids(v) : TableOf(v, o) = t /\ Kind(v, o) \in kinds /\ b[o] > 0}

\* Changed by hand: an extension, the options of a PostgreSQL table and the
\* generation of a column, as well as all that is dropped for review.
Manual(v, o) ==
  v.dialect = "postgres" /\ (Kind(v, o) \in {"extension", "table"} \/ v.objects[o].alters = "generated")
Review(v, a, b, o) ==
  \/ Op(v, a, b, o) = "removed" /\ Kind(v, o) \in {"table", "column", "type", "extension"}
  \/ Op(v, a, b, o) = "changed" /\ Manual(v, o)
  \/ Kind(v, o) \in Parts /\ a[TableOf(v, o)] > 0 /\ b[TableOf(v, o)] = 0

\* mysqlScript
MysqlTable(v, a, b, t) ==
  LET own(s) == SelectSeq(s, LAMBDA o : TableOf(v, o) = t)
  IN  Drops(own(ChangesOf(v, a, b, {"index", "primary", "unique"}, Gone)))
      \o Makes(b, own(ChangesOf(v, a, b, {"column"}, New)))
      \o Makes(b, own(ChangesOf(v, a, b, {"index", "primary", "unique"}, New)))

MysqlScript(v, a, b) ==
  LET of(kinds, ops) == ChangesOf(v, a, b, kinds, ops)
      added == of({"table"}, {"added"})
      tables == SelectSeq([o \in Ids(v) |-> o], LAMBDA t : Kind(v, t) = "table")
  IN  Drops(of({"trigger"}, Gone)) \o Drops(of({"view"}, {"removed"})) \o Drops(of({"routine"}, Gone))
      \o Drops(of({"check", "foreign"}, Gone))
      \o [i \in 1..Len(added) |-> Make(b, {added[i]} \cup PartsOf(v, b, added[i], Parts))]
      \o Makes(b, of({"table"}, {"changed"}))
      \o FlattenSeq([i \in 1..Len(tables) |-> MysqlTable(v, a, b, tables[i])])
      \o Makes(b, of({"check", "foreign"}, New))
      \o Makes(b, of({"view"}, New)) \o Makes(b, of({"routine"}, New)) \o Makes(b, of({"trigger"}, New))

\* Mutant: constraints are dropped in the order of their names.
PgConstraintDropsByName(v, a, b) == Drops(ChangesOf(v, a, b, Constraints, Gone))

\* Foreign keys first.
PgConstraintDrops(v, a, b) ==
  Drops(ChangesOf(v, a, b, {"foreign"}, Gone)) \o Drops(ChangesOf(v, a, b, {"check"}, Gone))
  \o Drops(ChangesOf(v, a, b, {"unique"}, Gone)) \o Drops(ChangesOf(v, a, b, {"primary"}, Gone))

\* Keys first, also those of new tables.
PgConstraintAdds(v, a, b) ==
  LET new == SelectSeq([o \in Ids(v) |-> o], LAMBDA o : Kind(v, o) \in Parts \ {"column"} /\ b[o] > 0 /\ a[TableOf(v, o)] = 0)
      adds(kind) == Makes(b, ChangesOf(v, a, b, {kind}, New) \o SelectSeq(new, LAMBDA o : Kind(v, o) = kind))
  IN  adds("primary") \o adds("unique") \o adds("check") \o adds("foreign") \o adds("index")

PgColumns(v, a, b) == Makes(b, SelectSeq(ChangesOf(v, a, b, {"column"}, New), LAMBDA o : ~Review(v, a, b, o)))

PgScript(v, a, b) ==
  LET of(kinds, ops) == ChangesOf(v, a, b, kinds, ops)
      added == of({"table"}, {"added"})
  IN  Makes(b, of({"extension"}, {"added"})) \o Makes(b, of({"type"}, {"added"}))
      \o Drops(of({"trigger"}, Gone))
      \o Drops(of({"view", "materialized"}, {"removed"})) \o Drops(of({"materialized"}, {"changed"}))
      \o Drops(of({"routine"}, {"removed"}))
      \o PgConstraintDrops(v, a, b) \o Drops(of({"index"}, Gone))
      \o [i \in 1..Len(added) |-> Make(b, {added[i]} \cup PartsOf(v, b, added[i], {"column"}))]
      \o PgColumns(v, a, b) \o PgConstraintAdds(v, a, b)
      \o Makes(b, of({"routine"}, New)) \o Makes(b, of({"view", "materialized"}, New))
      \o Makes(b, of({"trigger"}, New))

Script(v, a, b) == IF v.dialect = "postgres" THEN PgScript(v, a, b) ELSE MysqlScript(v, a, b)

\* A column after the one before it in the target, by position.
Adds(old, cur) ==
  LET new == SelectSeq(cur, LAMBDA c : ~\E i \in 1..Len(old) : old[i] = c)
      before(c) == LET i == CHOOSE j \in 1..Len(cur) : cur[j] = c IN IF i = 1 THEN None ELSE cur[i - 1]
  IN  [i \in 1..Len(new) |-> [does |-> "add", new |-> new[i], after |-> before(new[i]), before |-> None]]

\* pgEnumChange: labels are only added, when the old ones keep their order.
OrderedSubset(old, cur) == SelectSeq(cur, LAMBDA c : \E i \in 1..Len(old) : old[i] = c) = old

EnumChange(old, cur) ==
  IF ~OrderedSubset(old, cur) THEN <<>>
  ELSE LET adds == Adds(old, cur)
       IN  [i \in 1..Len(adds) |-> IF adds[i].after = None /\ old # <<>> THEN [adds[i] EXCEPT !.before = old[1]] ELSE adds[i]]

\* pgAlterColumn
Alter(part, value) == [does |-> "alter", part |-> part, value |-> value]
When(condition, statements) == IF condition THEN statements ELSE <<>>

AlterColumn(old, cur) ==
  LET becomes == old.identity = None /\ cur.identity # None
      kept == IF becomes THEN [old EXCEPT !.default = None, !.notnull = TRUE] ELSE old
  IN  IF old.generated # cur.generated THEN <<>>
      ELSE When(old.type # cur.type, <<Alter("type", cur.type)>>)
           \o When(becomes /\ old.default # None, <<Alter("default", None)>>)
           \o When(becomes /\ ~old.notnull, <<Alter("notnull", TRUE)>>)
           \o When(old.identity # cur.identity, <<Alter("identity", cur.identity)>>)
           \o When(kept.notnull # cur.notnull, <<Alter("notnull", cur.notnull)>>)
           \o When(kept.default # cur.default, <<Alter("default", cur.default)>>)

\* What a column can be.
ColumnForms ==
  {c \in [type : {"a", "b"}, identity : {None, "ALWAYS", "BY DEFAULT"}, notnull : BOOLEAN,
          default : {None, "x", "y"}, generated : {None, "e"}] :
     /\ c.identity # None => c.notnull /\ c.default = None /\ c.generated = None
     /\ c.generated # None => c.default = None}

---------------------------------------------------------------------------
(* The server *)

\* PostgreSQL refuses to remove what is used; MySQL only the key of an
\* AUTO_INCREMENT column.
Refers(x, o) == db[x] > 0 /\ o \in Needs(u, x, db[x])
Refused(o) ==
  \E x \in Ids(u) : Refers(x, o) /\ (u.dialect = "postgres" \/ (Kind(u, x) = "column" /\ Kind(u, o) = "primary"))

\* Only a view, a routine or an existing table or column is made again.
Replaceable(o) == Kind(u, o) \in {"view", "routine", "table", "column"}
\* PostgreSQL does not change the type of a column a view reads.
Retypes(o) == u.dialect = "postgres" /\ Kind(u, o) = "column" /\ u.objects[o].alters = "type"
Viewed(o) == \E x \in Ids(u) : Refers(x, o) /\ Kind(u, x) \in {"view", "materialized"}

Runs(s) ==
  CASE s.does = "drop" -> \A o \in DOMAIN s.sets : ~Refused(o)
    [] s.does = "make" ->
         \A o \in DOMAIN s.sets :
           /\ \A x \in Needs(u, o, s.sets[o]) : db[x] > 0 \/ x \in DOMAIN s.sets
           /\ db[o] > 0 => Replaceable(o) /\ ~(Retypes(o) /\ Viewed(o))
    [] s.does = "add" ->
         /\ ~\E i \in 1..Len(db) : db[i] = s.new
         /\ \A x \in {s.after, s.before} \ {None} : \E i \in 1..Len(db) : db[i] = x
    [] s.does = "alter" ->
         CASE s.part = "default" -> db.identity = None /\ db.generated = None
           [] s.part = "notnull" -> s.value \/ db.identity = None
           [] s.part = "identity" -> s.value = None \/ (db.notnull /\ db.default = None /\ db.generated = None)
           [] OTHER -> TRUE

Position(x) == CHOOSE i \in 1..Len(db) : db[i] = x

After(s) ==
  CASE s.does \in {"make", "drop"} -> [o \in DOMAIN db |-> IF o \in DOMAIN s.sets THEN s.sets[o] ELSE db[o]]
    [] s.does = "add" ->
         IF s.before # None THEN InsertAt(db, Position(s.before), s.new)
         ELSE IF s.after # None THEN InsertAt(db, Position(s.after) + 1, s.new)
         ELSE IF subject = "order" THEN <<s.new>> \o db ELSE Append(db, s.new)
    [] s.does = "alter" -> [db EXCEPT ![s.part] = s.value]

---------------------------------------------------------------------------

Orders(names) == UNION {SetToSeqs(s) : s \in SUBSET names}

StructureInit ==
  /\ subject = "structure" /\ u \in Universes
  /\ LET possible == {s \in Versions(u) : Legal(u, s) /\ \A o \in u.fixed : s[o] = 1}
     IN  from \in possible /\ to \in possible
  /\ todo = Script(u, from, to)

\* A column that is gone stays.
OrderInit ==
  /\ subject = "order" /\ u = <<>> /\ from \in Orders(Columns) \ {<<>>} /\ to \in Orders(Columns) \ {<<>>}
  /\ todo = Adds(from, to)

LabelsInit ==
  /\ subject = "labels" /\ u = <<>> /\ from \in Orders(Labels) /\ to \in Orders(Labels)
  /\ todo = EnumChange(from, to)

ColumnInit ==
  /\ subject = "column" /\ u = <<>> /\ from \in ColumnForms /\ to \in ColumnForms
  /\ todo = AlterColumn(from, to)

ScriptInit ==
  /\ StructureInit \/ OrderInit \/ LabelsInit \/ ColumnInit
  /\ subject \in Subjects
  /\ db = from /\ failed = NoStatement

Run ==
  /\ failed = NoStatement /\ todo # <<>> /\ Runs(Head(todo))
  /\ db' = After(Head(todo)) /\ todo' = Tail(todo)
  /\ UNCHANGED <<subject, u, from, to, failed>>

\* The batch ends at the first statement that is refused.
Refuse ==
  /\ failed = NoStatement /\ todo # <<>> /\ ~Runs(Head(todo))
  /\ failed' = Head(todo) /\ todo' = <<>>
  /\ UNCHANGED <<subject, u, from, to, db>>

ScriptNext == Run \/ Refuse

ScriptSpec == ScriptInit /\ [][ScriptNext]_scriptVars

---------------------------------------------------------------------------
(* Properties *)

\* Every statement can be run when it is its turn: whatever uses what, it is
\* dropped before and made after, and a column has all it takes along.
ScriptRuns == failed = NoStatement

\* "the DDL that makes a database whose structure is from look like to": all
\* but what is left for review then is as in the other database.
ScriptConverges ==
  todo = <<>> /\ failed = NoStatement =>
    CASE subject = "structure" -> \A o \in Ids(u) : db[o] = to[o] \/ Review(u, from, to, o)
      [] subject = "order" -> /\ ToSet(db) = ToSet(from) \cup ToSet(to)
                              /\ OrderedSubset(from, to) => db = to
      [] subject = "labels" -> OrderedSubset(from, to) => db = to
      [] subject = "column" -> from.generated = to.generated => db = to

\* Nothing that holds data is dropped, at any time.
DataIsKept ==
  subject = "structure" => \A o \in Ids(u) : Kind(u, o) \in {"table", "column", "type"} /\ from[o] > 0 => db[o] > 0
=============================================================================
