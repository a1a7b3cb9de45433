----------------------------- MODULE ConsoleLogins -----------------------------
(***************************************************************************)
(* The account Fleetdock keeps on a database for interactive work: made on *)
(* first use, recorded with a secret, repaired when the server rejects it, *)
(* granted again when it is denied, and dropped with the database.         *)
(* Requests on the replicas of the API use it to run scripts.              *)
(*                                                                         *)
(* Abstracted: one database and one of its two modes; reads of the control *)
(* plane's database that fail; ownership and host rules on the server.     *)
(***************************************************************************)
EXTENDS DatabaseAccounts, FiniteSets

CONSTANTS
  Replica,
  Deployments,  \* the sets of replicas that may run
  Request,      \* requests ever made, numbered as they come
  ConsoleScripts,      \* the two statements of a script, by what they do
  MaxTroubles   \* bound: statements and writes that fail, requests that are cancelled,
                \* changes made on the server by others, the end of the database

ASSUME ConsoleLoginsAssumption ==
  /\ IsFiniteSet(Replica) /\ Deployments \subseteq SUBSET Replica /\ Request \subseteq Nat \ {0} /\ MaxTroubles \in Nat
  /\ ConsoleScripts \subseteq {<<a, b>> : a, b \in {"old", "new", "never", "call"}}

VARIABLES
  engine,
  replicas,      \* that run
  account,       \* on the server
  database,      \* "there" or "dropped"
  role, secret,  \* database_access_roles, and its secret (0: none)
  holder,        \* the request that holds a replica's lock
  req,
  effects,       \* how often each statement of a request took effect (history)
  dropping,      \* the removal of the roles of a dropped database
  troubles, outside

consoleVars == <<engine, replicas, account, database, role, secret, holder, req, effects, dropping, troubles, outside>>
serverUnchanged == UNCHANGED <<engine, replicas, database, dropping, outside>>

NotYet == [step |-> "not yet", replica |-> "none", script |-> <<>>, password |-> 0, at |-> 1,
           then |-> "none", repaired |-> FALSE, reapplied |-> FALSE, alone |-> FALSE, clean |-> FALSE]
Ended == {"ok", "partial", "failed", "cancelled"}
Under(r) == req[r].step \notin Ended \cup {"not yet"}
At(r, step) == req[r].step = step

ConsoleInit ==
  /\ engine \in Engines /\ replicas \in Deployments
  /\ account = NoAccount /\ database = "there" /\ role = FALSE /\ secret = 0
  /\ holder = [p \in Replica |-> 0] /\ req = [r \in Request |-> NotYet]
  /\ effects = [r \in Request |-> <<0, 0>>] /\ dropping = "no" /\ troubles = 0 /\ outside = 0

\* A request's next step, after which no other was alone; after a failure none was.
OthersMoved(r) == [q \in Request |-> IF q # r THEN [req[q] EXCEPT !.alone = FALSE] ELSE req[q]]
NowAt(r, step) == IF step \in Ended THEN [NotYet EXCEPT !.step = step, !.script = req[r].script, !.alone = req[r].alone, !.clean = req[r].clean]
                ELSE [req[r] EXCEPT !.step = step]
Go(r, step) == req' = [OthersMoved(r) EXCEPT ![r] = NowAt(r, step)]
NoLockChange == UNCHANGED holder
Release(r) == holder' = [p \in Replica |-> IF holder[p] = r THEN 0 ELSE holder[p]]
End(r, outcome) == Go(r, outcome) /\ Release(r)
Fail(r, step) == req' = [OthersMoved(0) EXCEPT ![r] = [NowAt(r, step) EXCEPT !.alone = FALSE]]
FailEnd(r, outcome) == Fail(r, outcome) /\ Release(r)
Troubles == troubles + outside + IF database = "dropped" THEN 1 ELSE 0
Trouble == Troubles < MaxTroubles /\ troubles' = troubles + 1
Smooth == UNCHANGED troubles

---------------------------------------------------------------------------
(* A request: Query, or any other use of scoped *)

\* Alone as long as no other does anything; clean when no account was left of another.
Begin(r) ==
  /\ At(r, "not yet") /\ (\A q \in Request : q < r => ~At(q, "not yet")) /\ database = "there"
  /\ \E p \in replicas, s \in ConsoleScripts :
       req' = [OthersMoved(r) EXCEPT ![r] = [NotYet EXCEPT !.step = "get", !.replica = p, !.script = s,
                 !.alone = \A q \in Request : ~Under(q), !.clean = role \/ ~Exists(account)]]
  /\ UNCHANGED <<account, role, secret, effects>> /\ NoLockChange /\ Smooth /\ serverUnchanged

\* Conn: the role is provisioned when it is not recorded.
Get(r) ==
  /\ At(r, "get")
  /\ IF role THEN Go(r, "load") ELSE req' = [OthersMoved(r) EXCEPT ![r].step = "lock", ![r].then = "load"]
  /\ UNCHANGED <<account, role, secret, effects>> /\ NoLockChange /\ Smooth /\ serverUnchanged

Load(r) ==
  /\ At(r, "load")
  /\ IF secret = 0 THEN Go(r, "failed") ELSE req' = [OthersMoved(r) EXCEPT ![r].step = "connect", ![r].password = secret]
  /\ UNCHANGED <<account, role, secret, effects>> /\ NoLockChange /\ Smooth /\ serverUnchanged

\* The login is rejected, or on MySQL denied the database.
Rejected(r) == ~Accepts(account, req[r].password)
Connect(r) ==
  /\ At(r, "connect")
  /\ CASE Rejected(r) -> Go(r, IF req[r].repaired \/ req[r].reapplied THEN "failed" ELSE "repair")
       [] ~Rejected(r) /\ database = "dropped" -> Go(r, "failed")
       [] ~Rejected(r) /\ database = "there" /\ engine = "mysql" /\ account.grants = "none" ->
            Go(r, IF req[r].reapplied THEN "failed" ELSE "reapply")
       [] OTHER -> req' = [OthersMoved(r) EXCEPT ![r].step = "run", ![r].at = 1]
  /\ UNCHANGED <<account, role, secret, effects>> /\ NoLockChange /\ Smooth /\ serverUnchanged

\* Statements on what the grants cover for sure, on new objects, on what is
\* never granted, and procedures that do something before they are denied.
Permitted(statement) ==
  \/ statement = "old" /\ account.grants # "none"
  \/ statement = "new" /\ account.grants = "all"
TakesEffect(statement) == Permitted(statement) \/ statement = "call"

\* Only a run whose first statement was denied is made again.
Denied(r) == Go(r, IF req[r].at > 1 THEN "partial" ELSE IF req[r].reapplied THEN "failed" ELSE "reapply")

RunStatement(r) ==
  /\ At(r, "run")
  /\ LET s == req[r].script[req[r].at] IN
     /\ effects' = IF TakesEffect(s) THEN [effects EXCEPT ![r][req[r].at] = @ + 1] ELSE effects
     /\ IF ~Permitted(s) THEN Denied(r)
        ELSE IF req[r].at = 2 THEN Go(r, "ok") ELSE req' = [OthersMoved(r) EXCEPT ![r].at = 2]
  /\ UNCHANGED <<account, role, secret>> /\ NoLockChange /\ Smooth /\ serverUnchanged

---------------------------------------------------------------------------
(* provision *)

Lock(r) ==
  /\ At(r, "lock") \/ At(r, "lock to repair")
  /\ holder[req[r].replica] = 0 /\ holder' = [holder EXCEPT ![req[r].replica] = r]
  /\ Go(r, IF At(r, "lock") THEN "recheck" ELSE "secret")
  /\ UNCHANGED <<account, role, secret, effects>> /\ Smooth /\ serverUnchanged

\* Mutant: not looked at again.
RecheckNot(r) ==
  /\ At(r, "recheck") /\ Go(r, "create") /\ NoLockChange
  /\ UNCHANGED <<account, role, secret, effects>> /\ Smooth /\ serverUnchanged

Recheck(r) ==
  /\ At(r, "recheck")
  /\ IF role THEN End(r, req[r].then) ELSE Go(r, "create") /\ NoLockChange
  /\ UNCHANGED <<account, role, secret, effects>> /\ Smooth /\ serverUnchanged

CreateAccount(r) ==
  /\ At(r, "create") \/ At(r, "create again")
  /\ IF ~Exists(account) THEN account' = Created(r) /\ Go(r, "grant") /\ NoLockChange
     ELSE /\ UNCHANGED account
          /\ IF At(r, "create") THEN Go(r, "replace") /\ NoLockChange ELSE End(r, "failed")
  /\ UNCHANGED <<role, secret, effects>> /\ Smooth /\ serverUnchanged
CreateFails(r) ==
  /\ Trouble
  /\ \/ At(r, "create") /\ Fail(r, "replace") /\ NoLockChange
     \/ At(r, "create again") /\ FailEnd(r, "failed")
  /\ UNCHANGED <<account, role, secret, effects>> /\ serverUnchanged

\* To replace an account that exists, and to undo.
DropAccount(r) ==
  /\ At(r, "replace") \/ At(r, "undo")
  /\ account' = Dropped(engine, account)
  /\ IF At(r, "replace") THEN Go(r, "create again") /\ NoLockChange ELSE End(r, "failed")
  /\ UNCHANGED <<role, secret, effects>> /\ Smooth /\ serverUnchanged
DropFails(r) ==
  /\ At(r, "replace") \/ At(r, "undo")
  /\ Trouble /\ FailEnd(r, "failed")
  /\ UNCHANGED <<account, role, secret, effects>> /\ serverUnchanged

\* ApplyConsoleProfile: on first use, after a repair and to grant again.
Granting(r) == At(r, "grant") \/ At(r, "grant repaired") \/ At(r, "grant again")
GrantWorks(r) ==
  /\ Granting(r) /\ Exists(account) /\ database = "there" /\ account' = Granted(account)
  /\ IF At(r, "grant") THEN Go(r, "put") /\ NoLockChange
     ELSE IF At(r, "grant again") THEN req' = [OthersMoved(r) EXCEPT ![r].step = "connect", ![r].reapplied = TRUE] /\ NoLockChange
     ELSE req' = [OthersMoved(r) EXCEPT ![r].step = "get", ![r].repaired = TRUE] /\ Release(r)
  /\ UNCHANGED <<role, secret, effects>> /\ Smooth /\ serverUnchanged
GrantFails(r) ==
  /\ Granting(r)
  /\ IF Exists(account) /\ database = "there"
     THEN Trouble /\ \E g \in GrantedInPart(engine) \cup {account.grants} :
                       account' = [account EXCEPT !.grants = IF @ = "none" THEN g ELSE @]
     ELSE Smooth /\ UNCHANGED account
  /\ IF At(r, "grant") THEN Fail(r, "undo") /\ NoLockChange ELSE FailEnd(r, "failed")
  /\ UNCHANGED <<role, secret, effects>> /\ serverUnchanged

PutSecret(r) ==
  /\ At(r, "put") /\ secret' = r /\ Go(r, "upsert")
  /\ UNCHANGED <<account, role, effects>> /\ NoLockChange /\ Smooth /\ serverUnchanged

\* The row refers to the secret, and goes with it.
Upsert(r) ==
  /\ At(r, "upsert")
  /\ IF secret # 0 THEN role' = TRUE /\ End(r, req[r].then) ELSE UNCHANGED role /\ Go(r, "undo") /\ NoLockChange
  /\ UNCHANGED <<account, secret, effects>> /\ Smooth /\ serverUnchanged
WriteFails(r) ==
  /\ At(r, "put") \/ At(r, "upsert")
  /\ Trouble /\ Fail(r, "undo")
  /\ UNCHANGED <<account, role, secret, effects>> /\ NoLockChange /\ serverUnchanged

---------------------------------------------------------------------------
(* Repair and Reapply *)

Repair(r) ==
  /\ At(r, "repair")
  /\ IF role THEN Go(r, "lock to repair")
     ELSE req' = [OthersMoved(r) EXCEPT ![r].step = "lock", ![r].then = "get", ![r].repaired = TRUE]
  /\ UNCHANGED <<account, role, secret, effects>> /\ NoLockChange /\ Smooth /\ serverUnchanged

\* The stored password, or a new one that is stored first.
RepairPassword(r) ==
  /\ At(r, "secret")
  /\ secret' = IF secret = 0 THEN r ELSE secret
  /\ req' = [OthersMoved(r) EXCEPT ![r].step = "reset", ![r].password = secret']
  /\ UNCHANGED <<account, role, effects>> /\ NoLockChange /\ Smooth /\ serverUnchanged

ResetAccount(r) ==
  /\ At(r, "reset")
  /\ account' = IF Exists(account) THEN Reset(account, req[r].password) ELSE Created(req[r].password)
  /\ Go(r, "grant repaired")
  /\ UNCHANGED <<role, secret, effects>> /\ NoLockChange /\ Smooth /\ serverUnchanged
ResetFails(r) ==
  /\ At(r, "reset") /\ Trouble /\ FailEnd(r, "failed")
  /\ UNCHANGED <<account, role, secret, effects>> /\ serverUnchanged

Reapply(r) ==
  /\ At(r, "reapply")
  /\ IF role THEN Go(r, "grant again")
     ELSE req' = [OthersMoved(r) EXCEPT ![r].step = "lock", ![r].then = "connect", ![r].reapplied = TRUE]
  /\ UNCHANGED <<account, role, secret, effects>> /\ NoLockChange /\ Smooth /\ serverUnchanged

\* Its caller went away or its time is up: nothing more is done, and nothing undone.
Cancelled(r) ==
  /\ Under(r) /\ Trouble /\ FailEnd(r, "cancelled")
  /\ UNCHANGED <<account, role, secret, effects>> /\ serverUnchanged

---------------------------------------------------------------------------
(* Others on the server, and the end of the database *)

Outside ==
  /\ Troubles < MaxTroubles /\ outside' = outside + 1 /\ Exists(account)
  /\ \/ account' = Dropped(engine, account)           \* dropped on the Users page
     \/ account' = Rotated(account, -1)               \* its password changed
     \/ /\ engine = "postgres" /\ account.grants = "all"
        /\ account' = [account EXCEPT !.grants = "some"]  \* tables of another role
  /\ req' = OthersMoved(0)
  /\ UNCHANGED <<engine, replicas, database, role, secret, holder, effects, dropping, troubles>>

\* What a role was granted on a database goes with it.
DatabaseDropped ==
  /\ Troubles < MaxTroubles /\ database = "there" /\ database' = "dropped" /\ dropping' = "list"
  /\ account' = IF engine = "postgres" /\ Exists(account) THEN [account EXCEPT !.grants = "none"] ELSE account
  /\ req' = OthersMoved(0)
  /\ UNCHANGED <<engine, replicas, role, secret, holder, effects, troubles, outside>>

DropAccessRoles ==
  /\ \/ dropping = "list" /\ dropping' = (IF role THEN "account" ELSE "row") /\ UNCHANGED <<account, role, secret>>
     \/ /\ dropping = "account" /\ dropping' = "secret" /\ UNCHANGED <<role, secret>>
        /\ account' = Dropped(engine, account)
     \/ /\ dropping = "secret" /\ dropping' = "row" /\ UNCHANGED account
        /\ secret' = 0 /\ role' = FALSE
     \/ /\ dropping = "row" /\ dropping' = "done" /\ role' = FALSE /\ UNCHANGED <<account, secret>>
  /\ req' = OthersMoved(0)
  /\ UNCHANGED <<engine, replicas, database, holder, effects, troubles, outside>>

---------------------------------------------------------------------------

Steps(r) ==
  \/ Get(r) \/ Load(r) \/ Connect(r) \/ RunStatement(r)
  \/ Lock(r) \/ Recheck(r) \/ CreateAccount(r) \/ DropAccount(r) \/ GrantWorks(r) \/ PutSecret(r) \/ Upsert(r)
  \/ Repair(r) \/ RepairPassword(r) \/ ResetAccount(r) \/ Reapply(r)
Fails(r) == CreateFails(r) \/ DropFails(r) \/ GrantFails(r) \/ WriteFails(r) \/ ResetFails(r) \/ Cancelled(r)

ConsoleNext ==
  \/ \E r \in Request : Begin(r) \/ Steps(r) \/ Fails(r)
  \/ Outside \/ DatabaseDropped \/ DropAccessRoles

ConsoleSpec == ConsoleInit /\ [][ConsoleNext]_consoleVars

---------------------------------------------------------------------------
(* Properties *)

\* Nothing a script does is repeated by the retries.
EffectsOnce == \A r \in Request : \A i \in {1, 2} : effects[r][i] <= 1

\* With one replica, the recorded role logs in with its secret whenever nobody
\* is at work on it, unless it was changed outside.
RoleWorks ==
  Cardinality(replicas) = 1 /\ outside = 0 /\ database = "there" /\ role /\ (\A p \in Replica : holder[p] = 0)
  => Accepts(account, secret)

\* A request that is alone runs what it may, whatever was done to the account
\* outside; on MySQL also when an account is left that is not recorded.
Allowed(s) == \A i \in {1, 2} : s[i] \in {"old", "new"}
UndisturbedSucceeds ==
  \A r \in Request :
    req[r].alone /\ (req[r].clean \/ engine = "mysql") /\ Allowed(req[r].script) => ~At(r, "failed")

\* A console's login opens the account, and a statement that is made again
\* after a repair has not been run before.
ConsoleWorks == EffectsOnce /\ RoleWorks /\ UndisturbedSucceeds

\* What was left is replaced, on every engine.
LeftoverReplaced ==
  \A r \in Request : req[r].alone /\ Allowed(req[r].script) => ~At(r, "failed")

\* Nothing is left of a database that is gone.
NothingLeft == dropping = "done" /\ (\A r \in Request : ~Under(r)) /\ troubles = 0 => ~Exists(account) \/ account.login = "off"
=============================================================================
