-------------------------------- MODULE Grants --------------------------------
(***************************************************************************)
(* Privileges of a database user, granted and revoked from the dashboard.  *)
(*                                                                         *)
(* On MySQL one statement covers a database, whatever is created in it     *)
(* later.  On PostgreSQL the privileges are those of the database, of each *)
(* schema and of each table, with default privileges for the tables that   *)
(* the granting role creates later; Grant and Revoke list the schemas and  *)
(* then run their statements one by one, without a transaction, while      *)
(* schemas and tables are created.                                         *)
(*                                                                         *)
(* Abstracted: a request is for reading, for creating or for all; the      *)
(* privilege names each stands for are those of its kind of object.        *)
(***************************************************************************)
EXTENDS Integers, Sequences, FiniteSets, SequencesExt

CONSTANTS
  GrantServers,  \* of "postgres" and "mysql"
  Schemas,     \* schemas there may be, "public" among them
  GrantRequests, \* privileges asked for
  MaxCalls,    \* bound: calls of Grant and Revoke
  MaxBreaks    \* bound: statements that fail

ASSUME GrantsAssumption ==
  /\ GrantServers \subseteq {"postgres", "mysql"} /\ "public" \in Schemas
  /\ MaxCalls \in Nat /\ MaxBreaks \in Nat

VARIABLES
  server,     \* "postgres" or "mysql"
  created,    \* schemas there are
  tables,     \* tables there are: their schema and whether the admin created them
  held,       \* what the user holds: <<object, privilege>>
  defaults,   \* default privileges: <<schema, privilege>>
  queue,      \* statements of the call under way, by schema
  call,       \* that call, with the tables there were when it began and ended
  outcome,    \* how the last call ended, and what is still true of it
  calls, breaks

grantVars == <<server, created, tables, held, defaults, queue, call, outcome, calls, breaks>>

NoCall == [kind |-> "none", wants |-> {}, began |-> {}, ended |-> {}]

GrantsInit ==
  /\ server \in GrantServers /\ created = {"public"} /\ tables = {}
  /\ held = {} /\ defaults = {} /\ queue = <<>> /\ call = NoCall /\ outcome = NoCall
  /\ calls = 0 /\ breaks = 0

Database == <<"database">>
SchemaOf(s) == <<"schema", s>>
TablesIn(s) == {t \in tables : t.schema = s}
TableName(t) == <<"table", t.schema, t.byAdmin>>
SchemaList == SetToSeq(created)

---------------------------------------------------------------------------
(* The statements *)

OnTables(wants) == wants \cap {"SELECT", "INSERT"}
OnSchemas(wants) == (IF "CREATE" \in wants THEN {"CREATE"} ELSE {}) \cup (IF OnTables(wants) # {} THEN {"USAGE"} ELSE {})
OnDatabase(wants) == (IF "CREATE" \in wants THEN {"CREATE"} ELSE {}) \cup (IF "ALL" \in wants THEN {"CONNECT"} ELSE {})

\* "ALL PRIVILEGES" is the others.
Expanded(wants) == IF "ALL" \in wants THEN wants \cup {"SELECT", "INSERT", "CREATE"} ELSE wants

Do(kind, on, privs) == [do |-> kind, on |-> on, privs |-> privs]
NowOnly(s, privs) == <<Do("grant tables", s, privs)>>

\* The tables of a schema, those there are and those to come.
NowAndLater(s, privs) == <<Do("grant tables", s, privs), Do("grant later", s, privs)>>

\* postgresGrantStmts
PostgresGrantStmts(wants) ==
  LET w == Expanded(wants)
  IN << <<Do("grant", Database, OnDatabase(w))>> >> \o
     [i \in DOMAIN SchemaList |->
       <<Do("grant", SchemaOf(SchemaList[i]), OnSchemas(w))>> \o NowAndLater(SchemaList[i], OnTables(w))]

\* "Revoke has to cover every schema the grant path could have touched"
RevokedSchemas == SchemaList

\* Postgres.Revoke
PostgresRevokeStmts ==
  [i \in DOMAIN RevokedSchemas |->
    <<Do("revoke later", RevokedSchemas[i], {}), Do("revoke tables", RevokedSchemas[i], {}), Do("revoke", SchemaOf(RevokedSchemas[i]), {})>>]
  \o << <<Do("revoke", Database, {})>> >>

---------------------------------------------------------------------------
(* The calls *)

\* Grant: for the schemas there are.
Grant(wants) ==
  /\ call = NoCall /\ calls < MaxCalls /\ calls' = calls + 1
  /\ call' = [NoCall EXCEPT !.kind = "grant", !.wants = wants, !.began = tables]
  /\ queue' = IF server = "postgres" THEN PostgresGrantStmts(wants) ELSE << <<Do("grant", Database, Expanded(wants))>> >>
  /\ outcome' = NoCall
  /\ UNCHANGED <<server, created, tables, held, defaults, breaks>>

Revoke ==
  /\ call = NoCall /\ calls < MaxCalls /\ calls' = calls + 1
  /\ call' = [NoCall EXCEPT !.kind = "revoke"]
  /\ queue' = IF server = "postgres" THEN PostgresRevokeStmts ELSE << <<Do("revoke", Database, {})>> >>
  /\ outcome' = NoCall
  /\ UNCHANGED <<server, created, tables, held, defaults, breaks>>

WithoutFirst(q) == IF Len(Head(q)) = 1 THEN Tail(q) ELSE <<Tail(Head(q))>> \o Tail(q)

\* A statement, on what is there when it runs.
Exec ==
  LET s == queue[1][1]
      objects == CASE s.do \in {"grant", "revoke"} -> {s.on}
                   [] s.do \in {"grant tables", "revoke tables"} -> {TableName(t) : t \in TablesIn(s.on)}
                   [] OTHER -> {}
  IN
  /\ queue # <<>> /\ queue' = WithoutFirst(queue)
  /\ held' = IF s.do \in {"grant", "grant tables"} THEN held \cup (objects \X s.privs)
             ELSE {h \in held : h[1] \notin objects}
  /\ defaults' = CASE s.do = "grant later" -> defaults \cup ({s.on} \X s.privs)
                   [] s.do = "revoke later" -> {d \in defaults : d[1] # s.on}
                   [] OTHER -> defaults
  /\ UNCHANGED <<server, created, tables, call, outcome, calls, breaks>>

Return ==
  /\ call # NoCall /\ queue = <<>> /\ call' = NoCall
  /\ outcome' = [call EXCEPT !.ended = tables]
  /\ UNCHANGED <<server, created, tables, held, defaults, queue, calls, breaks>>

\* A statement fails: what was done stays.
ExecFails ==
  /\ queue # <<>> /\ breaks < MaxBreaks /\ breaks' = breaks + 1
  /\ queue' = <<>> /\ call' = NoCall
  /\ UNCHANGED <<server, created, tables, held, defaults, outcome, calls>>

---------------------------------------------------------------------------
(* The server *)

CreateSchema(s) ==
  /\ s \notin created /\ created' = created \cup {s}
  /\ UNCHANGED <<server, tables, held, defaults, queue, call, outcome, calls, breaks>>

\* The admin's default privileges are for the tables that the admin creates.
CreateTable(s, byAdmin) ==
  LET t == [schema |-> s, byAdmin |-> byAdmin] IN
  /\ s \in created /\ t \notin tables /\ tables' = tables \cup {t}
  /\ held' = IF server = "postgres" /\ byAdmin THEN held \cup {<<TableName(t), d[2]>> : d \in {d \in defaults : d[1] = s}} ELSE held
  /\ UNCHANGED <<server, created, defaults, queue, call, outcome, calls, breaks>>

GrantsNext ==
  \/ \E wants \in GrantRequests : Grant(wants)
  \/ Revoke \/ Exec \/ Return \/ ExecFails
  \/ \E s \in Schemas : CreateSchema(s) \/ \E byAdmin \in BOOLEAN : CreateTable(s, byAdmin)

GrantsSpec == GrantsInit /\ [][GrantsNext]_grantVars

---------------------------------------------------------------------------
(* Properties *)

May(t, priv) == IF server = "mysql" THEN <<Database, priv>> \in held
                ELSE <<TableName(t), priv>> \in held /\ <<SchemaOf(t.schema), "USAGE">> \in held

\* After a Revoke that succeeded the user holds nothing, and comes to hold
\* nothing by what is created later: "otherwise a revoked credential keeps
\* working" (postgres_admin.go:433).
RevokedHoldsNothing == outcome.kind = "revoke" /\ call = NoCall => held = {} /\ defaults = {}

\* After a Grant that succeeded the user has what was asked for on each table
\* there was when it began, and on those that the admin creates after it in
\* the schemas it was granted on.
GrantReaches == outcome.kind = "grant" /\ call = NoCall =>
  \A t \in tables, priv \in OnTables(Expanded(outcome.wants)) :
    \/ t \in outcome.began
    \/ t.byAdmin /\ t \notin outcome.ended /\ <<SchemaOf(t.schema), "USAGE">> \in held
    => May(t, priv)

\* A grant reaches what it names and a revoke takes all of it back.
GrantsAreWhole == RevokedHoldsNothing /\ GrantReaches

\* Not so: of all tables of the admin in those schemas (one created between
\* the statements of a schema is missed by both).
GrantReachesAll == outcome.kind = "grant" /\ call = NoCall =>
  \A t \in tables, priv \in OnTables(Expanded(outcome.wants)) :
    t.byAdmin /\ <<SchemaOf(t.schema), "USAGE">> \in held => May(t, priv)
=============================================================================
