------------------------------ MODULE Credentials ------------------------------
(***************************************************************************)
(* The application credentials of a database: an account on its server, a  *)
(* secret and a row.  Requests create, rotate and revoke them, one server  *)
(* statement or write after the other; the housekeeping revokes those that *)
(* have expired, the deletion of the database all of them.                 *)
(*                                                                         *)
(* Abstracted: the endpoint a credential is shown with (chosen before      *)
(* anything is made), which password it is, profiles, account hosts (part  *)
(* of the username), and the reading of the instance and its admin login,  *)
(* which may fail first.                                                   *)
(***************************************************************************)
EXTENDS DatabaseAccounts, FiniteSets

CONSTANTS
  Credential,    \* credentials ever created
  Usernames, Names,
  Processes,     \* requests and housekeeping at once
  MaxTroubles    \* bound: statements and writes that fail, and ends of a process

ASSUME CredentialsAssumption == MaxTroubles \in Nat /\ {"none", "lost"} \cap Credential = {}

VARIABLES
  engine,
  account,   \* by username
  owner,     \* the credential whose account it is, "lost" when undoing it failed (history)
  sessions,  \* credentials whose accounts have open sessions
  rows,      \* database_credentials
  secret,    \* the secret of each credential, 0 when there is none
  proc,      \* what each process does
  failures, deaths

credentialVars == <<engine, account, owner, sessions, rows, secret, proc, failures, deaths>>

NoCredential == [state |-> "none", user |-> "none", name |-> "none", expired |-> FALSE]
Idle == [does |-> "nothing", step |-> "none", cred |-> "none", user |-> "none", name |-> "none",
         removal |-> <<>>, rest |-> {}]

CredentialsInit ==
  /\ engine \in Engines
  /\ account = [u \in Usernames |-> NoAccount] /\ owner = [u \in Usernames |-> "none"]
  /\ sessions = {} /\ rows = [c \in Credential |-> NoCredential] /\ secret = [c \in Credential |-> 0]
  /\ proc = [p \in Processes |-> Idle] /\ failures = 0 /\ deaths = 0

Active(c) == rows[c].state = "active"
Step(p, step) == proc' = [proc EXCEPT ![p].step = step]
At(p, does, step) == proc[p].does = does /\ proc[p].step = step
Failure == failures + deaths < MaxTroubles /\ failures' = failures + 1
Password == 1

\* Goes on with the next credential of a list, or ends.
Next1(p) ==
  IF proc[p].rest = {} THEN {Idle}
  ELSE {[proc[p] EXCEPT !.step = "drop", !.removal = Removal(engine), !.cred = c, !.user = rows[c].user, !.rest = @ \ {c}] : c \in proc[p].rest}
GoesOn(p) == \E next \in Next1(p) : proc' = [proc EXCEPT ![p] = next]

---------------------------------------------------------------------------
(* Time and clients *)

Expires(c) ==
  /\ Active(c) /\ ~rows[c].expired /\ rows' = [rows EXCEPT ![c].expired = TRUE]
  /\ UNCHANGED <<engine, account, owner, sessions, secret, proc, failures, deaths>>

\* An application with the credential connects.
Connects(c) ==
  /\ rows[c].state # "none" /\ account[rows[c].user].login = "on" /\ owner[rows[c].user] = c
  /\ sessions' = sessions \cup {c}
  /\ UNCHANGED <<engine, account, owner, rows, secret, proc, failures, deaths>>

---------------------------------------------------------------------------
(* Create *)

InCreation(c) == \E p \in Processes : proc[p].does = "create" /\ proc[p].cred = c

CreateCredential(p) ==
  /\ proc[p] = Idle
  /\ \E c \in Credential, u \in Usernames, n \in Names :
       /\ rows[c].state = "none" /\ ~InCreation(c) /\ \A x \in Usernames : owner[x] # c
       /\ proc' = [proc EXCEPT ![p] = [Idle EXCEPT !.does = "create", !.step = "account", !.cred = c, !.user = u, !.name = n]]
  /\ UNCHANGED <<engine, account, owner, sessions, rows, secret, failures, deaths>>

CreateAccount(p) ==
  /\ At(p, "create", "account")
  /\ IF Exists(account[proc[p].user]) THEN proc' = [proc EXCEPT ![p] = Idle] /\ UNCHANGED <<account, owner>>
     ELSE /\ account' = [account EXCEPT ![proc[p].user] = Created(Password)]
          /\ owner' = [owner EXCEPT ![proc[p].user] = proc[p].cred] /\ Step(p, "grant")
  /\ UNCHANGED <<engine, sessions, rows, secret, failures, deaths>>

\* What a failure undoes: the account, after the secret.
Undo(p) == proc' = [proc EXCEPT ![p].step = "drop", ![p].removal = Removal(engine)]

Grant(p) ==
  /\ At(p, "create", "grant")
  /\ account' = [account EXCEPT ![proc[p].user] = Granted(@)] /\ Step(p, "secret")
  /\ UNCHANGED <<engine, owner, sessions, rows, secret, failures, deaths>>
GrantFails(p) ==
  /\ At(p, "create", "grant") /\ Failure /\ Undo(p)
  /\ \E g \in GrantedInPart(engine) : account' = [account EXCEPT ![proc[p].user].grants = g]
  /\ UNCHANGED <<engine, owner, sessions, rows, secret, deaths>>

\* Also of Rotate.
PutSecret(p) ==
  /\ At(p, "create", "secret") \/ At(p, "rotate", "secret")
  /\ secret' = [secret EXCEPT ![proc[p].cred] = Password]
  /\ IF proc[p].does = "create" THEN Step(p, "row") ELSE proc' = [proc EXCEPT ![p] = Idle]
  /\ UNCHANGED <<engine, account, owner, sessions, rows, failures, deaths>>

PutSecretFails(p) ==
  /\ Failure
  /\ \/ At(p, "create", "secret") /\ Undo(p)
     \/ At(p, "rotate", "secret") /\ proc' = [proc EXCEPT ![p] = Idle]
  /\ UNCHANGED <<engine, account, owner, sessions, rows, secret, deaths>>

\* Names and usernames are unique among those that are not revoked.
Conflict(p) == \E c \in Credential : Active(c) /\ (rows[c].name = proc[p].name \/ rows[c].user = proc[p].user)
InsertRow(p) ==
  /\ At(p, "create", "row") /\ ~Conflict(p)
  /\ rows' = [rows EXCEPT ![proc[p].cred] = [state |-> "active", user |-> proc[p].user, name |-> proc[p].name, expired |-> FALSE]]
  /\ proc' = [proc EXCEPT ![p] = Idle]
  /\ UNCHANGED <<engine, account, owner, sessions, secret, failures, deaths>>
InsertFails(p) ==
  /\ At(p, "create", "row") /\ (IF Conflict(p) THEN UNCHANGED failures ELSE Failure)
  /\ secret' = [secret EXCEPT ![proc[p].cred] = 0] /\ Undo(p)
  /\ UNCHANGED <<engine, account, owner, sessions, rows, deaths>>

---------------------------------------------------------------------------
(* Rotate *)

Rotate(p) ==
  /\ proc[p] = Idle
  /\ \E c \in Credential :
       /\ Active(c) /\ ~rows[c].expired
       /\ proc' = [proc EXCEPT ![p] = [Idle EXCEPT !.does = "rotate", !.step = "account", !.cred = c, !.user = rows[c].user]]
  /\ UNCHANGED <<engine, account, owner, sessions, rows, secret, failures, deaths>>

RotateAccount(p) ==
  /\ At(p, "rotate", "account")
  /\ IF Exists(account[proc[p].user])
     THEN account' = [account EXCEPT ![proc[p].user] = Rotated(@, Password)] /\ Step(p, "secret")
     ELSE proc' = [proc EXCEPT ![p] = Idle] /\ UNCHANGED account
  /\ UNCHANGED <<engine, owner, sessions, rows, secret, failures, deaths>>

---------------------------------------------------------------------------
(* Revoke *)

\* On request: any credential of the database, whatever its state.
Revoke(p) ==
  /\ proc[p] = Idle
  /\ \E c \in Credential :
       /\ rows[c].state # "none"
       /\ proc' = [proc EXCEPT ![p] = [Idle EXCEPT !.does = "revoke", !.step = "drop", !.removal = Removal(engine), !.cred = c, !.user = rows[c].user]]
  /\ UNCHANGED <<engine, account, owner, sessions, rows, secret, failures, deaths>>

\* Those listed as expired, or as not yet revoked, one after the other.
RevokeListed(p, list) ==
  /\ proc[p] = Idle /\ list # {}
  /\ \E c \in list : proc' = [proc EXCEPT ![p] = [Idle EXCEPT !.does = "revoke", !.step = "drop", !.removal = Removal(engine), !.cred = c, !.user = rows[c].user,
                                                              !.rest = list \ {c}]]
  /\ UNCHANGED <<engine, account, owner, sessions, rows, secret, failures, deaths>>
ExpireDue(p) == RevokeListed(p, {c \in Credential : Active(c) /\ rows[c].expired})
RevokeAllForDatabase(p) == RevokeListed(p, {c \in Credential : Active(c)})

\* DropDBUser, for a revocation or to undo a creation: what is not there, on PostgreSQL, ends it.
Disable(p) ==
  /\ proc[p].step = "drop" /\ Head(proc[p].removal) = "disable"
  /\ account' = [account EXCEPT ![proc[p].user] = Disabled(@)]
  /\ proc' = [proc EXCEPT ![p].removal = IF Exists(account[proc[p].user]) THEN Tail(@) ELSE <<"remove">>]
  /\ UNCHANGED <<engine, owner, sessions, rows, secret, failures, deaths>>
Terminate(p) ==
  /\ proc[p].step = "drop" /\ Head(proc[p].removal) = "terminate"
  /\ sessions' = sessions \ {owner[proc[p].user]}
  /\ proc' = [proc EXCEPT ![p].removal = Tail(@)]
  /\ UNCHANGED <<engine, account, owner, rows, secret, failures, deaths>>

\* Its caller goes on: a revocation is marked, a creation has been undone.
Dropped1(p) == IF proc[p].does = "create" THEN proc' = [proc EXCEPT ![p] = Idle] ELSE Step(p, "mark")

RemoveAccount(p) ==
  /\ proc[p].step = "drop" /\ Head(proc[p].removal) = "remove"
  /\ account' = [account EXCEPT ![proc[p].user] = Removed(engine, @)] /\ Dropped1(p)
  /\ UNCHANGED <<engine, owner, sessions, rows, secret, failures, deaths>>

\* Mutant: the error is discarded, the credential marked.
DropFailsSilently(p) ==
  /\ proc[p].step = "drop" /\ Failure /\ Dropped1(p)
  /\ UNCHANGED <<engine, account, owner, sessions, rows, secret, deaths>>

\* An error that is the revocation's; the undoing of a creation ends.
DropFails(p) ==
  /\ proc[p].step = "drop" /\ (Head(proc[p].removal) # "remove" \/ engine = "mysql") /\ Failure
  /\ IF proc[p].does = "create" THEN proc' = [proc EXCEPT ![p] = Idle] /\ owner' = [owner EXCEPT ![proc[p].user] = "lost"]
     ELSE GoesOn(p) /\ UNCHANGED owner
  /\ UNCHANGED <<engine, account, sessions, rows, secret, deaths>>

\* The row keeps its reference, and with it the secret, which is not deleted.
MarkRevoked(p) ==
  /\ proc[p].step = "mark"
  /\ rows' = IF Active(proc[p].cred) THEN [rows EXCEPT ![proc[p].cred].state = "revoked"] ELSE rows
  /\ GoesOn(p)
  /\ UNCHANGED <<engine, account, owner, sessions, secret, failures, deaths>>
MarkFails(p) ==
  /\ proc[p].step = "mark" /\ Failure /\ GoesOn(p)
  /\ UNCHANGED <<engine, account, owner, sessions, rows, secret, deaths>>

\* The process that serves them ends.
ServerDies ==
  /\ failures + deaths < MaxTroubles /\ deaths' = deaths + 1 /\ proc' = [p \in Processes |-> Idle]
  /\ UNCHANGED <<engine, account, owner, sessions, rows, secret, failures>>

---------------------------------------------------------------------------

GoOn(p) ==
  \/ CreateAccount(p) \/ Grant(p) \/ PutSecret(p) \/ InsertRow(p) \/ RotateAccount(p)
  \/ Disable(p) \/ Terminate(p) \/ RemoveAccount(p) \/ MarkRevoked(p)
Fails(p) == GrantFails(p) \/ PutSecretFails(p) \/ InsertFails(p) \/ DropFails(p) \/ MarkFails(p)

CredentialsNext ==
  \/ \E p \in Processes : CreateCredential(p) \/ Rotate(p) \/ Revoke(p) \/ ExpireDue(p) \/ RevokeAllForDatabase(p) \/ GoOn(p) \/ Fails(p)
  \/ \E c \in Credential : Expires(c) \/ Connects(c)
  \/ ServerDies

\* The housekeeping comes again, and what was begun goes on.
CredentialsFairness ==
  /\ SF_credentialVars(\E p \in Processes : ExpireDue(p))
  /\ \A p \in Processes : WF_credentialVars(GoOn(p) \/ InsertFails(p))

CredentialsSpec == CredentialsInit /\ [][CredentialsNext]_credentialVars /\ CredentialsFairness

---------------------------------------------------------------------------
(* Properties *)

\* A credential that is said to be revoked does not log in: not while it is
\* rotated at the same time, and not after a drop that failed.
RevokedStaysOut ==
  \A c \in Credential, u \in Usernames :
    rows[c].state = "revoked" /\ owner[u] = c => account[u].login # "on"

\* "closes its open sessions", on PostgreSQL: none was opened in between.
SessionsEnd == engine = "postgres" => \A c \in Credential : rows[c].state = "revoked" => c \notin sessions

\* The account of a credential in use is its own and works, as long as nothing
\* is being done with it, no process died, and none of its username was revoked.
ActiveLogsIn ==
  \A c \in Credential :
    Active(c) /\ deaths = 0 /\ failures = 0 /\ (\A p \in Processes : proc[p].cred # c /\ c \notin proc[p].rest)
      /\ (\A d \in Credential : rows[d].state = "revoked" => rows[d].user # rows[c].user)
    => account[rows[c].user].login = "on" /\ owner[rows[c].user] = c

\* A creation that fails leaves no account one can log in with, when what
\* undoes it does not fail too.
NothingLeft ==
  deaths = 0 =>
    \A u \in Usernames :
      account[u].login = "on" /\ owner[u] # "lost" => Active(owner[u]) \/ \E p \in Processes : proc[p].cred = owner[u]

\* An expired credential is revoked in the end, also when the pass that began
\* it failed or died.
ExpiredIsRevoked == \A c \in Credential : Active(c) /\ rows[c].expired ~> rows[c].state = "revoked"

\* The same as SessionsEnd, on every engine.
AccessEnds == \A c \in Credential : rows[c].state = "revoked" => c \notin sessions

\* What is in use logs in, whatever was revoked before.
InUseLogsIn ==
  \A c \in Credential :
    Active(c) /\ deaths = 0 /\ failures = 0 /\ (\A p \in Processes : proc[p].cred # c /\ c \notin proc[p].rest)
    => account[rows[c].user].login = "on"
=============================================================================
