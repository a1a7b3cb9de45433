-------------------------- MODULE MCAdministration --------------------------
(***************************************************************************)
(* What administrators do, for TLC: accounts, grants and sign-ins, the     *)
(* secrets and their keys, and the structure of databases (scripts, edits, *)
(* indexes and privileges).  Each behaviour is of one of them, and the     *)
(* others rest in a state they begin with.                                 *)
(***************************************************************************)
EXTENDS Authorization, Secrets, SchemaScripts, TableChanges, IndexInsights, Grants, TLC

CONSTANTS u1, u2, p1, p2, r1, t1, g1, g2, i1, i2, d1, d2, b1, j1, j2, j3

VARIABLES component, area

---------------------------------------------------------------------------
(* Access: two users, a managed and an external instance; the three modules  *)
(* share nothing, so that each behaviour is of one of them.                 *)

TwoUsers     == {u1, u2}
TwoPasswords == {p1, p2}
OneRole      == {r1}
OneToken     == {t1}
TheServers   == {g1, g2}
TwoInstances == {i1, i2}
TwoDatabases == {d1, d2}
OneDump      == {b1}
ThreeTasks   == {j1, j2, j3}

\* A managed and an external instance, each with a database.
HomeOf   == i1 :> g1
HolderOf == d1 :> i1 @@ d2 :> i2
DumpOf   == b1 :> d1

\* A restore of the backup, a task on the instance, and a task about nothing.
TaskAbout == j1 :> b1 @@ j2 :> i1
OnItsHome == j1 :> g1 @@ j2 :> g1
Elsewhere == j1 :> g2 @@ j2 :> g1

accessVars == <<area, accountVars, authzVars, signInVars>>

AccessInit ==
  /\ area \in {"accounts", "authorization", "sign-ins"}
  /\ AccountsInit /\ AuthorizationInit /\ SignInsInit

AccessNext ==
  /\ UNCHANGED area
  /\ \/ area = "accounts" /\ AccountsNext /\ UNCHANGED <<authzVars, signInVars>>
     \/ area = "authorization" /\ AuthorizationNext /\ UNCHANGED <<accountVars, signInVars>>
     \/ area = "sign-ins" /\ SignInsNext /\ UNCHANGED <<accountVars, authzVars>>

---------------------------------------------------------------------------
(* Scripts between two versions of small databases.                          *)

\* kind, table, how it is altered and what each version uses
O(kind, of, uses) == [kind |-> kind, table |-> of, alters |-> None, uses |-> uses]
Altered(o, how) == [o EXCEPT !.alters = how]
Universe(dialect, fixed, objects) == [dialect |-> dialect, fixed |-> fixed, objects |-> objects]

\* Two tables, a foreign key between them and its key, a check.
PgKeys == Universe("postgres", {1, 2, 3},
  << O("table", 0, <<{}>>), O("table", 0, <<{}>>), O("column", 1, <<{}>>),
     O("primary", 1, <<{3}>>), O("foreign", 2, <<{4, 3}, {4}>>), O("check", 1, <<{3}, {}>>), O("unique", 2, <<{}, {}>>),
     O("index", 1, <<{3}>>) >>)

\* A table that comes and goes, its columns and keys, of a type.
PgTables == Universe("postgres", {},
  << O("table", 0, <<{}, {}>>), Altered(O("column", 1, <<{}, {3}>>), "type"), O("type", 0, <<{}>>), O("extension", 0, <<{}>>),
     O("primary", 1, <<{2}>>), Altered(O("column", 1, <<{4}, {}>>), "generated"), O("trigger", 1, <<{2}>>) >>)

\* Views, routines and triggers on a table.
PgCode == Universe("postgres", {1, 2},
  << O("table", 0, <<{}>>), O("column", 1, <<{}>>), Altered(O("column", 1, <<{}, {}>>), "default"),
     O("materialized", 0, <<{2}, {1, 2}>>), O("routine", 0, <<{}, {}>>), O("trigger", 1, <<{5}>>), O("view", 0, <<{2}, {1}>>) >>)

MysqlTables == Universe("mysql", {1},
  << O("table", 0, <<{}, {}>>), O("column", 1, <<{}>>), O("column", 1, <<{}, {2}>>), O("index", 1, <<{2}>>),
     O("table", 0, <<{}>>), O("column", 5, <<{}>>), O("foreign", 5, <<{6}, {}>>), O("check", 1, <<{2}>>) >>)

MysqlCode == Universe("mysql", {},
  << O("table", 0, <<{}>>), O("column", 1, <<{}, {}>>), O("primary", 1, <<{2}>>),
     O("view", 0, <<{2}, {1}>>), O("routine", 0, <<{}, {}>>), O("trigger", 1, <<{2}>>) >>)

ScriptUniverses == {PgKeys, PgTables, PgCode, MysqlTables, MysqlCode}

---------------------------------------------------------------------------
(* Edits of a table: requests of one or two changes.                          *)

Plain(type, nullable, def) == [type |-> type, nullable |-> nullable, def |-> def, auto |-> FALSE, onUpdate |-> FALSE, key |-> FALSE]
TheTable ==
  [columns |-> "id" :> [Plain("int", FALSE, "none") EXCEPT !.auto = TRUE, !.key = TRUE]
            @@ "a" :> Plain("text", TRUE, "none")
            @@ "b" :> Plain("int", FALSE, "literal"),
   keys |-> {[name |-> "f", column |-> "b"]}]
Stamped == [TheTable EXCEPT !.columns["a"] = [Plain("int", FALSE, "expression") EXCEPT !.onUpdate = TRUE]]
TwoTables == {TheTable, Stamped}

ColumnSpec(type, nullable, def, keep) == [type |-> type, nullable |-> nullable, def |-> def, auto |-> FALSE, keep |-> keep]
NoSpec == ColumnSpec("int", TRUE, "none", FALSE)
Change(kind, name, new, column) == [op |-> kind, name |-> name, new |-> new, column |-> column]

AddColumns == {Change("add_column", "", n, s) : n \in {"a", "c"},
         s \in {ColumnSpec("int", FALSE, "literal", FALSE), [ColumnSpec("int", TRUE, "none", FALSE) EXCEPT !.auto = TRUE], ColumnSpec("exotic", TRUE, "none", FALSE)}}
DropColumns == {Change("drop_column", n, "", NoSpec) : n \in {"a", "b"}}
Modifies == {Change("modify_column", n, m, s) : n \in {"id", "a", "b"}, m \in {"a", "b"},
             s \in {ColumnSpec("int", FALSE, "none", TRUE), ColumnSpec("text", FALSE, "none", TRUE), ColumnSpec("int", TRUE, "null", FALSE)}}
Renames == {Change("rename_column", n, m, NoSpec) : n \in {"a", "b"}, m \in {"b", "c"}}
KeyChanges == {Change("add_foreign_key", "g", n, NoSpec) : n \in {"b", "c"}} \cup {Change("drop_foreign_key", "f", "", NoSpec)}
Ops == AddColumns \cup DropColumns \cup Modifies \cup Renames \cup KeyChanges
OneOrTwo == {SubSeq(<<p[1], p[2]>>, 1, p[3]) : p \in Ops \X Ops \X {1, 2}}

---------------------------------------------------------------------------
(* Indexes: all tables of three.                                              *)

Index(n, cols, kind, method) ==
  [name |-> n, columns |-> cols, unique |-> kind \in {"unique", "primary", "unique partial"}, primary |-> kind = "primary",
   partial |-> kind = "unique partial", expression |-> kind = "expression", method |-> method]
ColumnLists == {<<"a">>, <<"a", "b">>, <<"b">>}
IndexKinds == {"plain", "unique", "primary", "unique partial", "expression"}
OnePrimary(t) == Cardinality({a \in t : a.primary}) <= 1
IndexTable(k) == {Index(n, k[n][1], k[n][2], "btree") : n \in DOMAIN k}
\* Of the three, the last is neither primary, partial nor on an expression.
AllTables ==
  {t \in {IndexTable(<<j, k, l>>) : j \in ColumnLists \X IndexKinds, k \in ColumnLists \X IndexKinds,
                                   l \in ColumnLists \X {"plain", "unique"}} : OnePrimary(t)}

---------------------------------------------------------------------------
(* Privileges.                                                                *)

ReadCreateAll == {{"SELECT"}, {"ALL"}, {"CREATE"}}

---------------------------------------------------------------------------

vars == <<component, accessVars, secretVars, scriptVars, tableVars, indexVars, grantVars>>

AccessRests == area = "accounts" /\ AccessInit /\ users[u1].password = p1
ScriptsRest == /\ subject = "column" /\ u = <<>> /\ from = (CHOOSE f \in ColumnForms : TRUE) /\ to = from
               /\ todo = <<>> /\ db = from /\ failed = NoStatement
TablesRest  == engine = "mysql" /\ table = TheTable /\ TablesInit
IndexesRest == indexes = {} /\ before = {} /\ used = {} /\ findings = [redundant |-> {}, unused |-> {}, used |-> {}] /\ reports = 0
GrantsRest  == server = "mysql" /\ GrantsInit

Init ==
  /\ SecretsInit
  /\ \/ component = "access" /\ AccessInit /\ ScriptsRest /\ TablesRest /\ IndexesRest /\ GrantsRest
     \/ component = "secrets" /\ AccessRests /\ ScriptsRest /\ TablesRest /\ IndexesRest /\ GrantsRest
     \/ component = "scripts" /\ AccessRests /\ ScriptInit /\ TablesRest /\ IndexesRest /\ GrantsRest
     \/ component = "structure" /\ AccessRests /\ ScriptsRest /\ TablesInit /\ IndexesRest /\ GrantsRest
     \/ component = "indexes" /\ AccessRests /\ ScriptsRest /\ TablesRest /\ IndexesInit /\ GrantsRest
     \/ component = "grants" /\ AccessRests /\ ScriptsRest /\ TablesRest /\ IndexesRest /\ GrantsInit

Next ==
  /\ UNCHANGED component
  /\ \/ component = "access" /\ UNCHANGED <<secretVars, scriptVars, tableVars, indexVars, grantVars>> /\ AccessNext
     \/ component = "secrets" /\ UNCHANGED <<accessVars, scriptVars, tableVars, indexVars, grantVars>> /\ SecretsNext
     \/ component = "scripts" /\ UNCHANGED <<accessVars, secretVars, tableVars, indexVars, grantVars>> /\ ScriptNext
     \/ component = "structure" /\ UNCHANGED <<accessVars, secretVars, scriptVars, indexVars, grantVars>> /\ TablesNext
     \/ component = "indexes" /\ UNCHANGED <<accessVars, secretVars, scriptVars, tableVars, grantVars>> /\ IndexesNext
     \/ component = "grants" /\ UNCHANGED <<accessVars, secretVars, scriptVars, tableVars, indexVars>> /\ GrantsNext

Spec == Init /\ [][Next]_vars

\* Users are alike, and so are passwords; no state that begins tells them apart.
Alike == Permutations(TwoUsers) \cup Permutations(TwoPasswords)

---------------------------------------------------------------------------
(* Properties, of several components *)

\* A script takes one structure to the other and keeps the data.
ScriptsConvert == ScriptRuns /\ ScriptConverges /\ DataIsKept

\* A request of the structure editor does what was asked, or nothing; dropping
\* every index that is reported as redundant loses no lookup and no uniqueness.
TablesAreAsAsked == AsAsked /\ AllOrNothing /\ EditsSucceed /\ LookupsAnswered /\ UniquenessKept

===============================================================================
