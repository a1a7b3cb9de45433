------------------------------- MODULE Accounts -------------------------------
(***************************************************************************)
(* User accounts and the browser sessions issued to them.                  *)
(*                                                                         *)
(* A request is authenticated first, its handler then reads, checks and    *)
(* writes in statements of its own: a sign-in reads the credentials and    *)
(* signs a session after the password was checked; an update, a deletion   *)
(* or a revoked role is checked against the last owner and written after;  *)
(* a changed password is written after the old one was verified.           *)
(*                                                                         *)
(* Abstracted: names and e-mail addresses; a password is its own hash;     *)
(* only roles held globally are here.  The repository offers no other way  *)
(* to them, so that reading the roles and counting the owners is one step. *)
(***************************************************************************)
EXTENDS Integers, FiniteSets

CONSTANTS
  Users,
  Passwords,
  MaxEpoch,   \* bound: sessions ended and passwords changed, per user
  MaxSignIns, \* bound: sign-ins at once
  MaxUserEdits  \* bound: checked and unwritten requests at once

ASSUME AccountsAssumption ==
  /\ IsFiniteSet(Users) /\ IsFiniteSet(Passwords)
  /\ MaxEpoch \in Nat /\ MaxSignIns \in Nat /\ MaxUserEdits \in Nat

GlobalRoles == {"owner", "viewer"}

VARIABLES
  users,    \* the users table, with the global rows of user_roles
  signIns,  \* sign-ins whose credentials were read, the password being checked
  session,  \* the sessions signed so far; "for" is the password that opened it
  edits     \* requests that passed their checks and have statements to run

accountVars == <<users, signIns, session, edits>>

Account == [status : {"none", "active", "suspended", "deleted"}, password : Passwords,
            epoch : 0..MaxEpoch, roles : SUBSET GlobalRoles]
Session == [user : Users, epoch : 0..MaxEpoch, for : Passwords]
Edit == [user : Users, kind : {"suspend", "activate", "role", "delete", "revoke"}, then : SUBSET GlobalRoles]
          \cup [user : Users, kind : {"password"}, to : Passwords]

UserExists(u) == users[u].status \in {"active", "suspended"}
IsActive(u) == users[u].status = "active"

AccountsInit ==
  /\ \E p \in Passwords :
       users = [u \in Users |-> [status |-> "none", password |-> p, epoch |-> 0, roles |-> {}]]
  /\ signIns = {} /\ session = {} /\ edits = {}

---------------------------------------------------------------------------
(* Statements *)

CreateWithRole(u, p, role) ==
  /\ users[u].status = "none"
  /\ users' = [users EXCEPT ![u] =
       [status |-> "active", password |-> p, epoch |-> 0, roles |-> {role}]]

SetUserStatus(u, status) ==
  users' = IF UserExists(u) THEN [users EXCEPT ![u].status = status] ELSE users

SetGlobalRole(u, role) ==
  users' = IF UserExists(u) THEN [users EXCEPT ![u].roles = {role}] ELSE users

RemoveRole(u, role) == users' = [users EXCEPT ![u].roles = @ \ {role}]

DeleteUserRow(u) ==
  users' = IF UserExists(u) THEN [users EXCEPT ![u].status = "deleted", ![u].roles = {}] ELSE users

BumpTokenEpoch(u) ==
  /\ users[u].epoch < MaxEpoch
  /\ users' = [users EXCEPT ![u].epoch = @ + 1]

\* Mutant: without "token_epoch = token_epoch + 1".
SetPasswordOnly(u, p) ==
  users' = IF UserExists(u) THEN [users EXCEPT ![u].password = p] ELSE users

SetPassword(u, p) ==
  /\ users[u].epoch < MaxEpoch
  /\ users' = IF UserExists(u) THEN [users EXCEPT ![u].password = p, ![u].epoch = @ + 1] ELSE users

ActiveOwners == {u \in Users : IsActive(u) /\ "owner" \in users[u].roles}

GuardLastOwner(u) == "owner" \in users[u].roles => Cardinality(ActiveOwners) > 1

---------------------------------------------------------------------------
(* Sign-ins and requests *)

\* The bootstrap owner, made by a control plane that finds no users.
EnsureAdmin(u, p) ==
  /\ \A v \in Users : ~UserExists(v)
  /\ CreateWithRole(u, p, "owner")
  /\ UNCHANGED <<signIns, session, edits>>

\* Authenticate, up to the password check.
Authenticate(u) ==
  /\ IsActive(u) /\ Cardinality(signIns) < MaxSignIns
  /\ signIns' = signIns \cup {[user |-> u, epoch |-> users[u].epoch, for |-> users[u].password]}
  /\ UNCHANGED <<users, session, edits>>

Issue(s) ==
  /\ s \in signIns /\ signIns' = signIns \ {s}
  /\ session' = session \cup {s}
  /\ UNCHANGED <<users, edits>>

\* Principal: whether a session is accepted.
Accepted(s) == IsActive(s.user) /\ s.epoch = users[s.user].epoch

\* A user whose request passes requirePerm("user:write"), which owners hold.
Admin(u) == u \in ActiveOwners /\ \E s \in session : s.user = u /\ Accepted(s)

Caller(u) == \E s \in session : s.user = u /\ Accepted(s)

InsertUser(u, p, role) ==
  /\ CreateWithRole(u, p, role)
  /\ UNCHANGED <<signIns, session, edits>>

\* Requests checked one by one: the statements follow in the same handler.
BeginEdit(e) == Cardinality(edits) < MaxUserEdits /\ edits' = edits \cup {e}

\* Update: a new status, a new role or both; the status is written first.
BeginUpdate(a, u, kind, then) ==
  /\ UserExists(u)
  /\ kind \in {"suspend", "activate", "role"} /\ Cardinality(then) <= 1
  /\ kind = "role" => then # {}
  /\ kind = "suspend" => u # a
  /\ (kind = "suspend" \/ then \cap {"viewer"} # {}) => GuardLastOwner(u)
  /\ BeginEdit([user |-> u, kind |-> kind, then |-> then])
  /\ UNCHANGED <<users, signIns, session>>

BeginDeletion(a, u) ==
  /\ UserExists(u) /\ u # a
  /\ GuardLastOwner(u)
  /\ BeginEdit([user |-> u, kind |-> "delete", then |-> {}])
  /\ UNCHANGED <<users, signIns, session>>

BeginRemoveGrant(u, role) ==
  /\ role \in users[u].roles
  /\ role = "owner" => GuardLastOwner(u)
  /\ BeginEdit([user |-> u, kind |-> "revoke", then |-> {role}])
  /\ UNCHANGED <<users, signIns, session>>

AddGrant(u, role) ==
  /\ UserExists(u) /\ role \notin users[u].roles
  /\ users' = [users EXCEPT ![u].roles = @ \cup {role}]
  /\ UNCHANGED <<signIns, session, edits>>

ResetPassword(u, p) ==
  /\ UserExists(u)
  /\ SetPassword(u, p)
  /\ UNCHANGED <<signIns, session, edits>>

\* ChangePassword, up to the check of the current password, which the caller knows.
BeginChangePassword(u, p) ==
  /\ Caller(u)
  /\ BeginEdit([user |-> u, kind |-> "password", to |-> p])
  /\ UNCHANGED <<users, signIns, session>>

Logout(u) ==
  /\ Caller(u)
  /\ BumpTokenEpoch(u)
  /\ UNCHANGED <<signIns, session, edits>>

---------------------------------------------------------------------------
(* The statements of a checked request *)

WriteStatus(e) ==
  /\ e \in edits /\ e.kind \in {"suspend", "activate"}
  /\ SetUserStatus(e.user, IF e.kind = "suspend" THEN "suspended" ELSE "active")
  /\ edits' = (edits \ {e}) \cup {[e EXCEPT !.kind = "role"] : r \in e.then}
  /\ UNCHANGED <<signIns, session>>

WriteRole(e) ==
  /\ e \in edits /\ e.kind \in {"role", "revoke"}
  /\ \E role \in e.then : IF e.kind = "role" THEN SetGlobalRole(e.user, role) ELSE RemoveRole(e.user, role)
  /\ edits' = edits \ {e}
  /\ UNCHANGED <<signIns, session>>

WriteDelete(e) ==
  /\ e \in edits /\ e.kind = "delete"
  /\ DeleteUserRow(e.user)
  /\ edits' = edits \ {e}
  /\ UNCHANGED <<signIns, session>>

WritePassword(e) ==
  /\ e \in edits /\ e.kind = "password"
  /\ SetPassword(e.user, e.to)
  /\ edits' = edits \ {e}
  /\ UNCHANGED <<signIns, session>>

\* A process that dies, or a statement that fails, leaves the rest undone.
Abandon ==
  /\ \/ \E e \in edits : edits' = edits \ {e} /\ UNCHANGED signIns
     \/ \E s \in signIns : signIns' = signIns \ {s} /\ UNCHANGED edits
  /\ UNCHANGED <<users, session>>

---------------------------------------------------------------------------
(* The administrators' handlers *)

CreateUser(a, u) ==
  Admin(a) /\ \E p \in Passwords, role \in GlobalRoles : InsertUser(u, p, role)

UpdateUser(a, u) ==
  Admin(a) /\ \E kind \in {"suspend", "activate", "role"}, then \in SUBSET GlobalRoles : BeginUpdate(a, u, kind, then)

DeleteUser(a, u) == Admin(a) /\ BeginDeletion(a, u)

ResetUserPassword(a, u) == Admin(a) /\ \E p \in Passwords : ResetPassword(u, p)

GrantRole(a, u) == Admin(a) /\ \E role \in GlobalRoles : AddGrant(u, role)

RevokeRole(a, u) == Admin(a) /\ \E role \in GlobalRoles : BeginRemoveGrant(u, role)

AdminStep(a) ==
  \E u \in Users : \/ CreateUser(a, u) \/ UpdateUser(a, u) \/ DeleteUser(a, u)
                  \/ ResetUserPassword(a, u) \/ GrantRole(a, u) \/ RevokeRole(a, u)

UserStep(u) ==
  \/ \E p \in Passwords : EnsureAdmin(u, p) \/ BeginChangePassword(u, p)
  \/ Authenticate(u) \/ Logout(u)

Write(e) == WriteStatus(e) \/ WriteRole(e) \/ WriteDelete(e) \/ WritePassword(e)

AccountsNext ==
  \/ \E u \in Users : AdminStep(u) \/ UserStep(u)
  \/ \E s \in signIns : Issue(s)
  \/ \E e \in edits : Write(e)
  \/ Abandon

AccountsSpec == AccountsInit /\ [][AccountsNext]_accountVars

---------------------------------------------------------------------------
(* Properties *)

AccountsTypeOK ==
  /\ users \in [Users -> Account]
  /\ signIns \subseteq Session /\ session \subseteq Session /\ edits \subseteq Edit

\* A session that is accepted was opened with the password the account has now,
\* also when the password was changed or reset while the sign-in was checked:
\* the epoch is read with the hash and advanced with it.
SessionKnowsPassword ==
  \A s \in session : Accepted(s) => s.for = users[s.user].password

\* Once there are accounts, one of them is an active owner.  It holds while
\* checked requests are written before the next one is checked.
OwnerRemains == (\E u \in Users : users[u].status # "none") => ActiveOwners # {}
=============================================================================
