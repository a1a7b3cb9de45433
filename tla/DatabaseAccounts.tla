--------------------------- MODULE DatabaseAccounts ---------------------------
(***************************************************************************)
(* Accounts on a database server, as the engines make, change and remove   *)
(* them for Fleetdock.  An account may log in or not ("off", PostgreSQL's  *)
(* NOLOGIN), has a password and, on one database, no privileges, some or   *)
(* all of a profile.                                                       *)
(***************************************************************************)
EXTENDS Integers, Sequences

Engines == {"postgres", "mysql"}

NoAccount == [login |-> "none", password |-> 0, grants |-> "none"]
Exists(a) == a.login # "none"
Accepts(a, password) == a.login = "on" /\ a.password = password

\* CreateDBUser, which refuses a name that is taken.
Created(password) == [login |-> "on", password |-> password, grants |-> "none"]

\* ApplyProfile: on PostgreSQL many statements, so that some may be applied
\* when it fails; MySQL has one.
Granted(a) == [a EXCEPT !.grants = "all"]
GrantedInPart(engine) == IF engine = "postgres" THEN {"none", "some"} ELSE {"none"}

\* RotatePassword, and ResetLogin, which also lets it log in again.
Rotated(a, password) == [a EXCEPT !.password = password]
Reset(a, password) == [a EXCEPT !.password = password, !.login = "on"]

\* DropDBUser: PostgreSQL's is three statements, of which the last does not
\* remove a role that has privileges, and that is no error.

Removal(engine) == IF engine = "postgres" THEN <<"disable", "terminate", "remove">> ELSE <<"remove">>
Disabled(a) == IF Exists(a) THEN [a EXCEPT !.login = "off"] ELSE a
Removed(engine, a) == IF engine = "postgres" /\ a.grants # "none" THEN a ELSE NoAccount
Dropped(engine, a) == Removed(engine, IF engine = "postgres" THEN Disabled(a) ELSE a)
=============================================================================
