----------------------------- MODULE MCDataAccess -----------------------------
(***************************************************************************)
(* What users do on a database, for TLC: edits of rows and their undo, the *)
(* console, previews, and the logins to instances.  Each behaviour is of   *)
(* one of them, and the others rest in a state they begin with.            *)
(***************************************************************************)
EXTENDS RowChanges, ConsoleLogins, Previews, InstanceLogins

CONSTANTS u1, u2, h1, h2, b1, b2

VARIABLES component, half

---------------------------------------------------------------------------
(* Rows: a table of two keys and a backup that differs from it in every     *)
(* way.  Either two requests undo and may fail, or the table is compared    *)
(* and one undoes.                                                          *)

R(k, a) == Row(k, "a" :> a)
Table == {R(1, 0)}
Copy == {R(1, 1), R(2, 0)}

rowsVars == <<half, rowVars>>

RowsInit == half \in {"undo", "compare"} /\ RowChangesInit

\* Bounds: three edits and undos together, or one undo beside the comparison.
RowsNext ==
  /\ UNCHANGED half
  /\ \/ half = "undo" /\ RowChangesNext /\ UNCHANGED compare /\ count'.edits + count'.undos <= 3
     \/ half = "compare" /\ RowChangesNext /\ UNCHANGED faults /\ count'.undos <= 1

---------------------------------------------------------------------------
(* The console: one replica or two, and scripts of old and new statements.  *)

OneOrTwo == {{"a"}, {"a", "b"}}
OldAndNew == {<<"old", "new">>}

---------------------------------------------------------------------------
(* Previews: all scripts of two statements.                                 *)

Dml(op, match, set, limited) == [kind |-> "dml", op |-> op, match |-> match, set |-> set, limited |-> limited]
UpdateStatements == {Dml("update", 1, 2, FALSE), Dml("update", 2, 1, FALSE), Dml("update", 1, 2, TRUE)}
Some == UpdateStatements \cup {Dml("delete", 2, 1, FALSE), Dml("move", 1, 1, FALSE), [Dml("update", 1, 2, FALSE) EXCEPT !.kind = "ddl"]}
ScriptsOfTwo == {<<a, b>> : a, b \in Some}

---------------------------------------------------------------------------
(* Logins: one instance; an update enters something in at most two places.  *)

\* What may be entered in each place, and one name for the admin.
HostPlace   == {[host |-> h] : h \in Hosts \cup {None}}
LoginPlace  == {[user |-> x, password |-> p] : x \in {None, "", u1}, p \in {None, "", "new"}}
TunnelPlace == {[tunnel |-> t, key |-> FALSE] : t \in Bastions \cup {None, "remove", "reset"}}
                 \cup {[tunnel |-> t, key |-> TRUE] : t \in Bastions}
DataPlace   == {[mode |-> m, dataUser |-> x, dataPassword |-> FALSE] : m \in {None, "admin", "login"}, x \in Users \cup {None}}
                 \cup {[mode |-> m, dataUser |-> x, dataPassword |-> TRUE] : m \in {None, "login"}, x \in Users \cup {None}}

\* All but the admin's login with the data's.
MCInputs ==
  {p[1] @@ p[2] @@ NoInput : p \in UNION {HostPlace \X LoginPlace, HostPlace \X TunnelPlace, HostPlace \X DataPlace,
                                         LoginPlace \X TunnelPlace, TunnelPlace \X DataPlace}}

---------------------------------------------------------------------------

vars == <<component, rowsVars, consoleVars, previewVars, loginVars>>

RowsRest     == half = "undo" /\ RowsInit
ConsoleRests == engine = "mysql" /\ replicas = {"a"} /\ ConsoleInit
PreviewRests == /\ dbms = "postgres" /\ committed = [k \in PreviewKeys |-> 1] /\ script = <<Dml("delete", 2, 1, FALSE), Dml("delete", 2, 1, FALSE)>>
                /\ PreviewInit

Init ==
  /\ LoginsInit
  /\ \/ component = "rows" /\ RowsInit /\ ConsoleRests /\ PreviewRests
     \/ component = "console" /\ RowsRest /\ ConsoleInit /\ PreviewRests
     \/ component = "previews" /\ RowsRest /\ ConsoleRests /\ PreviewInit
     \/ component = "logins" /\ RowsRest /\ ConsoleRests /\ PreviewRests

Next ==
  /\ UNCHANGED component
  /\ \/ component = "rows" /\ UNCHANGED <<consoleVars, previewVars, loginVars>> /\ RowsNext
     \/ component = "console" /\ UNCHANGED <<rowsVars, previewVars, loginVars>> /\ ConsoleNext
     \/ component = "previews" /\ UNCHANGED <<rowsVars, consoleVars, loginVars>> /\ PreviewNext
     \/ component = "logins" /\ UNCHANGED <<rowsVars, consoleVars, previewVars>> /\ LoginsNext

Spec == Init /\ [][Next]_vars

---------------------------------------------------------------------------
(* Properties, of each component *)

\* Undoing, claimed by one request, or restoring from a backup brings the rows
\* back to what they were.
UndoRestores == BatchRestores /\ RevertedOnce /\ ClaimsAreHonest /\ RestoresBackup

\* The row of an instance refers to secrets that are there and were entered
\* for its route, also after an update that failed.
LoginsAreKept == LoginIsForRoute /\ FailedChangesNothing /\ SecretsAreReferenced
===============================================================================
