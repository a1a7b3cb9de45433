---------------------------- MODULE TableChanges ----------------------------
(***************************************************************************)
(* Changes of a table from a form: the structure editor of both engines.   *)
(*                                                                         *)
(* The operations of a request are rendered and run together: on MySQL and *)
(* MariaDB as the clauses of one statement, which all refer to the table   *)
(* as it was before; on PostgreSQL as statements in one transaction.  A    *)
(* column whose default is to be kept is defined anew on MySQL, with the   *)
(* default read beforehand.  A behaviour is of one request.                *)
(*                                                                         *)
(* Abstracted: names and types are members of small sets; the order of     *)
(* columns, comments, the referenced side and actions of a foreign key.    *)
(***************************************************************************)
EXTENDS Integers, Sequences, FiniteSets, SequencesExt, TLC

CONSTANTS
  Engines,    \* of "postgres", "mariadb" and "mysql"
  Tables,     \* tables the runs begin with
  Requests,   \* requests: sequences of operations
  MaxOthers   \* bound: changes made by another session

ASSUME TableChangesAssumption == Engines \subseteq {"postgres", "mariadb", "mysql"} /\ MaxOthers \in Nat

VARIABLES
  engine,
  table,     \* its columns by name, and its foreign keys
  request,   \* the operations under way
  kept,      \* by operation: the default read for it
  last,      \* the last request to end: its operations, the table before and
             \* after, how it ended, and whether another session interfered
  others,
  disturbed  \* another session changed the table since it was read

tableVars == <<engine, table, request, kept, last, others, disturbed>>

FailedTable == [columns |-> <<>>, keys |-> {"failed"}]
NoDefault == [def |-> "none", auto |-> FALSE, onUpdate |-> FALSE]
Idle == <<>>

TablesInit ==
  /\ engine \in Engines /\ table \in Tables /\ request = Idle /\ kept = <<>>
  /\ engine = "postgres" => \A c \in DOMAIN table.columns : ~table.columns[c].onUpdate
  /\ last = [ops |-> <<>>, was |-> table, now |-> table, how |-> "none", disturbed |-> FALSE]
  /\ others = 0 /\ disturbed = FALSE

Without(f, names) == [c \in DOMAIN f \ names |-> f[c]]
Renamed(f, a, b) == [c \in (DOMAIN f \ {a}) \cup {b} |-> IF c = b THEN f[a] ELSE f[c]]
NamesOf(keys) == {k.name : k \in keys}
Follow(keys, a, b) == {IF k.column = a THEN [k EXCEPT !.column = b] ELSE k : k \in keys}

\* A column as asked for, with a default; "null" is stored as none.
Column(s, d, key) == [type |-> s.type, nullable |-> s.nullable, def |-> d.def, auto |-> d.auto, onUpdate |-> d.onUpdate, key |-> key]
Asked(s) == [def |-> s.def, auto |-> s.auto, onUpdate |-> FALSE]
DefaultOf(c) == [def |-> c.def, auto |-> c.auto, onUpdate |-> c.onUpdate]
Stored(c) == [c EXCEPT !.def = IF @ = "null" THEN "none" ELSE @]

\* validName, checkType, renderDefault: what either engine accepts in a spec.
AcceptedSpec(s) == s.type # "exotic" /\ (s.keep \/ (s.def # "other expression" /\ (s.auto => s.type = "int")))
HasColumn(op) == op.op \in {"add_column", "modify_column"}

---------------------------------------------------------------------------
(* MySQL and MariaDB *)

\* currentDefault: the clauses that give a column the default it has.
\* MariaDB reports NULL as the default of a nullable column that has none.
KeptDefault(c) ==
  IF engine = "mariadb" /\ c.nullable /\ c.def = "none" THEN [DefaultOf(c) EXCEPT !.def = "null"] ELSE DefaultOf(c)

\* The definitions the server takes.
ServerTakes(c) ==
  /\ c.def = "null" => c.nullable
  /\ c.auto => c.key /\ c.type = "int" /\ c.def = "none"
  /\ c.key => ~c.nullable

OpsOf(ops, kinds) == {i \in DOMAIN ops : ops[i].op \in kinds}

\* mysqlColumnDefKeep
ColumnDef(t, op, keep) ==
  IF op.op = "add_column" THEN Column(op.column, Asked(op.column), FALSE)
  ELSE Column(op.column, IF op.column.keep THEN keep ELSE Asked(op.column), t.columns[op.name].key)

\* The columns an operation adds, or gives a new name.
Introduces(op) == CASE op.op \in {"add_column", "rename_column"} -> {op.new}
                    [] op.op = "modify_column" -> {op.new} \ {op.name}
                    [] OTHER -> {}
EachAnything(ops) == TRUE

\* MariaDB.AlterTable: no operation on what an earlier one introduces.
EachOnTheTable(ops) == \A i, j \in DOMAIN ops : j < i => ops[i].name \notin Introduces(ops[j])

\* ALTER TABLE: the clauses all refer to the table as it was.
OneStatement(t, ops, keep) ==
  LET defs   == OpsOf(ops, {"add_column", "modify_column"})
      news   == defs \cup OpsOf(ops, {"rename_column"})
      olds   == OpsOf(ops, {"drop_column", "modify_column", "rename_column"})
      drops  == OpsOf(ops, {"drop_foreign_key"})
      adds   == OpsOf(ops, {"add_foreign_key"})
      names(is) == {ops[i].name : i \in is}
      newNames  == {ops[i].new : i \in news}
      stay   == DOMAIN t.columns \ names(olds)
      source(c) == CHOOSE i \in news : ops[i].new = c
      column(c) == IF c \in stay THEN t.columns[c]
                   ELSE IF source(c) \in defs THEN ColumnDef(t, ops[source(c)], keep[source(c)])
                   ELSE t.columns[ops[source(c)].name]
      left   == {k \in t.keys : k.name \notin names(drops)}
      follow(c) == IF c \in stay THEN c ELSE ops[CHOOSE i \in olds : ops[i].name = c].new
      legal  ==
        /\ names(olds) \subseteq DOMAIN t.columns /\ Cardinality(names(olds)) = Cardinality(olds)
        /\ Cardinality(newNames) = Cardinality(news) /\ newNames \cap stay = {} /\ newNames \cup stay # {}
        /\ names(drops) \subseteq NamesOf(t.keys) /\ Cardinality(names(drops)) = Cardinality(drops)
        /\ names(adds) \cap NamesOf(t.keys) = {} /\ Cardinality(names(adds)) = Cardinality(adds)
        /\ \A i \in adds : ops[i].new \in newNames \cup stay
        /\ \A k \in left : k.column \notin names(OpsOf(ops, {"drop_column"}))
  IN IF legal /\ \A c \in newNames : ServerTakes(column(c))
     THEN [columns |-> [c \in newNames \cup stay |-> Stored(column(c))],
           keys    |-> {[k EXCEPT !.column = follow(@)] : k \in left} \cup {[name |-> ops[i].name, column |-> ops[i].new] : i \in adds}]
     ELSE FailedTable

---------------------------------------------------------------------------
(* PostgreSQL *)

\* pgColumnDef
AddColumn(t, op) ==
  LET s == op.column IN
  IF op.new \in DOMAIN t.columns \/ (s.auto /\ s.def # "none") THEN FailedTable
  ELSE [t EXCEPT !.columns = (op.new :> [Stored(Column(s, Asked(s), FALSE)) EXCEPT !.nullable = @ /\ ~s.auto]) @@ @]

RenameColumn(t, a, b) ==
  IF a \notin DOMAIN t.columns \/ b \in DOMAIN t.columns THEN FailedTable
  ELSE [columns |-> Renamed(t.columns, a, b), keys |-> Follow(t.keys, a, b)]

\* The type, then the nullability, then the default; an identity takes no
\* other type and no default, and the old default must be of the new type.
ModifyColumn(t, op) ==
  LET s    == op.column
      from == IF op.new = op.name THEN t ELSE RenameColumn(t, op.name, op.new)
      was  == from.columns[op.new]
  IN IF from = FailedTable \/ op.name \notin DOMAIN t.columns THEN FailedTable
     ELSE IF (was.auto /\ (s.type # "int" \/ s.nullable \/ ~s.keep)) \/ (was.key /\ s.nullable)
             \/ (was.def # "none" /\ was.type = "text" /\ s.type = "int") THEN FailedTable
     ELSE [from EXCEPT !.columns[op.new] =
             Stored([was EXCEPT !.type = s.type, !.nullable = s.nullable, !.def = IF s.keep THEN @ ELSE s.def])]

\* The constraints: added to a column, or dropped by name.
ForeignKeys(t, op) ==
  CASE op.op = "add_foreign_key" /\ op.new \in DOMAIN t.columns /\ op.name \notin NamesOf(t.keys) ->
         [t EXCEPT !.keys = @ \cup {[name |-> op.name, column |-> op.new]}]
    [] op.op = "drop_foreign_key" /\ op.name \in NamesOf(t.keys) ->
         [t EXCEPT !.keys = {k \in @ : k.name # op.name}]
    [] OTHER -> FailedTable

\* Postgres.AlterTable: the statements of an operation.
Statements(t, op) ==
  CASE t = FailedTable -> FailedTable
    [] op.op = "add_column" -> AddColumn(t, op)
    [] op.op = "modify_column" -> ModifyColumn(t, op)
    [] op.op = "rename_column" -> RenameColumn(t, op.name, op.new)
    [] op.op = "drop_column" /\ op.name \in DOMAIN t.columns ->
         [columns |-> Without(t.columns, {op.name}), keys |-> {k \in t.keys : k.column # op.name}]
    [] op.op \in {"add_foreign_key", "drop_foreign_key"} -> ForeignKeys(t, op)
    [] OTHER -> FailedTable

RunAll(t, ops) == FoldLeft(Statements, t, ops)

---------------------------------------------------------------------------
(* A request *)

End(ops, how, t) ==
  /\ last' = [ops |-> ops, was |-> table, now |-> t, how |-> how, disturbed |-> disturbed]
  /\ table' = t /\ request' = Idle /\ kept' = <<>> /\ disturbed' = FALSE

\* AlterTable, up to the statements: the checks, and the defaults to keep.
AlterTable(ops) ==
  /\ request = Idle /\ last.how = "none"
  /\ IF /\ ops # <<>> /\ \A i \in DOMAIN ops : HasColumn(ops[i]) => AcceptedSpec(ops[i].column)
        /\ engine = "postgres" \/ (/\ EachOnTheTable(ops)
                                   /\ \A i \in OpsOf(ops, {"modify_column"}) :
                                        ops[i].column.keep => ops[i].name \in DOMAIN table.columns)
     THEN /\ request' = ops
          /\ kept' = [i \in DOMAIN ops |-> IF ops[i].op = "modify_column" /\ ops[i].name \in DOMAIN table.columns
                                           THEN KeptDefault(table.columns[ops[i].name]) ELSE NoDefault]
          /\ UNCHANGED <<table, last, disturbed>>
     ELSE End(ops, "refused", table)
  /\ UNCHANGED <<engine, others>>

\* MariaDB.ddl
Ddl ==
  /\ request # Idle /\ engine # "postgres"
  /\ LET t == OneStatement(table, request, kept)
     IN IF t = FailedTable THEN End(request, "failed", table) ELSE End(request, "done", t)
  /\ UNCHANGED <<engine, others>>

\* What is left of a transaction that fails after some operations.
RolledBack(n) == table

\* ddlTx: one transaction; a statement may also fail on the rows.
DdlTx ==
  /\ request # Idle /\ engine = "postgres"
  /\ \/ RunAll(table, request) # FailedTable /\ End(request, "done", RunAll(table, request))
     \/ \E n \in 0 .. Len(request) - 1 :
          /\ RunAll(table, SubSeq(request, 1, n)) # FailedTable
          /\ LET fails == RunAll(table, SubSeq(request, 1, n + 1)) = FailedTable
             IN End(request, IF fails THEN "failed" ELSE "broken", RolledBack(n))
  /\ UNCHANGED <<engine, others>>

\* Another session gives a column a default, or takes it away.
OtherAlters(c) ==
  /\ others < MaxOthers /\ others' = others + 1
  /\ c \in DOMAIN table.columns /\ ~table.columns[c].auto
  /\ table' = [table EXCEPT !.columns[c].def = IF @ = "none" THEN "literal" ELSE "none"]
  /\ disturbed' = (request # Idle)
  /\ UNCHANGED <<engine, request, kept, last>>

TablesNext ==
  \/ last.how = "none" /\ request = Idle /\ \E ops \in Requests : AlterTable(ops)
  \/ Ddl \/ DdlTx
  \/ \E c \in DOMAIN table.columns : OtherAlters(c)

TablesSpec == TablesInit /\ [][TablesNext]_tableVars

---------------------------------------------------------------------------
(* Properties *)

\* What an operation asks of a table: each after the ones before it.
Wanted(t, op) ==
  LET known == op.name \in DOMAIN t.columns
      free  == op.new \notin DOMAIN t.columns \/ op.new = op.name
  IN
  CASE t = FailedTable -> FailedTable
    [] op.op = "add_column" /\ op.new \notin DOMAIN t.columns ->
         [t EXCEPT !.columns = (op.new :> Stored(Column(op.column, Asked(op.column), FALSE))) @@ @]
    [] op.op = "modify_column" /\ known /\ free ->
         LET was == t.columns[op.name]
             new == Stored(Column(op.column, IF op.column.keep THEN DefaultOf(was) ELSE Asked(op.column), was.key))
         IN [columns |-> [Renamed(t.columns, op.name, op.new) EXCEPT ![op.new] = new], keys |-> Follow(t.keys, op.name, op.new)]
    [] op.op = "rename_column" /\ known /\ free ->
         [columns |-> Renamed(t.columns, op.name, op.new), keys |-> Follow(t.keys, op.name, op.new)]
    [] op.op = "drop_column" /\ known ->
         [columns |-> Without(t.columns, {op.name}), keys |-> {k \in t.keys : k.column # op.name}]
    [] op.op = "add_foreign_key" -> [t EXCEPT !.keys = @ \cup {[name |-> op.name, column |-> op.new]}]
    [] op.op = "drop_foreign_key" -> [t EXCEPT !.keys = {k \in @ : k.name # op.name}]
    [] OTHER -> FailedTable
AllWanted == FoldLeft(Wanted, last.was, last.ops)

\* A request that succeeds has made the table what its operations ask for,
\* one after the other, and KeepDefault has left the default and what goes
\* with it "exactly as it is" (structure.go:29); an identity is not null.
\* Unless another session changed the table meanwhile.
AsAsked == last.how = "done" /\ ~last.disturbed =>
  LET want == AllWanted
  IN /\ want # FailedTable /\ last.now.keys = want.keys
     /\ DOMAIN last.now.columns = DOMAIN want.columns
     /\ \A c \in DOMAIN want.columns :
          last.now.columns[c] = [want.columns[c] EXCEPT !.nullable = @ /\ ~(engine = "postgres" /\ want.columns[c].auto)]

\* "so they succeed or fail together" (mariadb_structure.go:189), "applies
\* completely or not at all" (postgres_structure.go:64).
AllOrNothing == last.how # "done" => last.now = last.was

\* "editing a column's type or nullability should not force the user to"
\* re-enter its default (structure.go:32): such an edit succeeds when the
\* server takes the column with the default that it has (PostgreSQL takes no
\* default of text for a number).
EditsSucceed ==
  last.how = "failed" /\ Len(last.ops) = 1 /\ ~last.disturbed /\ last.ops[1].op = "modify_column" /\ last.ops[1].column.keep =>
    \/ AllWanted = FailedTable
    \/ LET new == AllWanted.columns[last.ops[1].new]
       IN ~ServerTakes(new) \/ (engine = "postgres" /\ new.def # "none" /\ new.type # last.was.columns[last.ops[1].name].type)

\* Not so: AsAsked when another session changed the default meanwhile.
AsAskedAlways == last.how = "done" /\ AllWanted # FailedTable => \A c \in DOMAIN AllWanted.columns \cap DOMAIN last.now.columns :
  last.now.columns[c].def = AllWanted.columns[c].def
=============================================================================
