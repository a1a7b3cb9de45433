---------------------------- MODULE AccessProofs ----------------------------
(***************************************************************************)
(* Proofs about accounts and about the secrets that are kept for them, and *)
(* about what is shown and granted to them: previews, privileges, consoles.*)
(*                                                                         *)
(* A session opens an account only for somebody who knew the password it   *)
(* has now.  SessionKnowsPassword speaks of sessions that were issued.     *)
(* The same is true of a sign-in whose password is still being checked,    *)
(* and an epoch once left does not come back: KnowsOf says both.           *)
(*                                                                         *)
(* An owner remains because a request that was checked spares one until it *)
(* is written (EditsSpare).  A list shows what opens because both ask the  *)
(* same of a scope (AllowIsHas).  An account is locked as it says because  *)
(* the failures kept are as many as it takes to say so (CountsAgree).      *)
(*                                                                         *)
(* That every secret can be read rests on what a rotation has listed being *)
(* what the row holds unless it was written over (Listing), and on the     *)
(* old key going only when nothing is left to do (Rotating).               *)
(*                                                                         *)
(* A preview shows what its script would do because what the transaction   *)
(* sees is what its last statement left (NowIsLast, ReadsNow), and saves   *)
(* nothing because only what can be rolled back runs (ScriptIsHarmless).   *)
(*                                                                         *)
(* What a grant or a revoke has not done yet is in its queue: RevokeCovers *)
(* says it of all that is held, GrantCovers of all that was asked for.     *)
(*                                                                         *)
(* The console's account: what a request is still to run has had no effect *)
(* (NotYetRun), with one replica only the holder of its lock touches what  *)
(* a login depends on (RoleOpens), and a request that is alone meets what  *)
(* it left itself (AloneWorks).                                            *)
(***************************************************************************)
EXTENDS Authorization, Secrets, Previews, Grants, ConsoleLogins, FiniteSetTheorems, SequenceTheorems, WellFoundedInduction, TLAPS

\* What the epoch in a session says of the account's password.
KnowsOf(s, row) ==
  /\ row.status # "none"
  /\ s.epoch <= row.epoch
  /\ s.epoch = row.epoch => s.for = row.password

KnownPasswords == \A s \in signIns \cup session : KnowsOf(s, users[s.user])

AccessInv == AccountsTypeOK /\ KnownPasswords

\* What a statement may do to an account: nothing a session relies on changes
\* without a new epoch, and no account is forgotten.
Moves(old, new) ==
  /\ old.status # "none" => new.status # "none" /\ old.epoch <= new.epoch
  /\ old.status # "none" /\ old.epoch = new.epoch => old.password = new.password

USE DEF GlobalRoles

---------------------------------------------------------------------------
(* The users table *)

\* A statement on users keeps its type and moves each account as it may.
Keeps == users' \in [Users -> Account] /\ \A u \in Users : Moves(users[u], users'[u])

LEMMA UnchangedKeeps ==
  ASSUME AccountsTypeOK, UNCHANGED users
  PROVE  Keeps
BY DEF AccountsTypeOK, Keeps, Moves, Account

LEMMA CreateKeeps ==
  ASSUME AccountsAssumption, AccountsTypeOK, NEW u \in Users, NEW p \in Passwords, NEW given \in GlobalRoles,
         CreateWithRole(u, p, given)
  PROVE  Keeps
BY DEF AccountsAssumption, AccountsTypeOK, CreateWithRole, Keeps, Moves, Account

LEMMA StatusKeeps ==
  ASSUME AccountsTypeOK, NEW u \in Users, NEW status \in {"active", "suspended"}, SetUserStatus(u, status)
  PROVE  Keeps
BY DEF AccountsTypeOK, SetUserStatus, UserExists, Keeps, Moves, Account

LEMMA RolesKeep ==
  ASSUME AccountsTypeOK, NEW u \in Users, NEW given \in GlobalRoles,
         SetGlobalRole(u, given) \/ RemoveRole(u, given) \/ users' = [users EXCEPT ![u].roles = @ \cup {given}]
  PROVE  Keeps
BY DEF AccountsTypeOK, SetGlobalRole, RemoveRole, UserExists, Keeps, Moves, Account

LEMMA DeleteKeeps ==
  ASSUME AccountsTypeOK, NEW u \in Users, DeleteUserRow(u)
  PROVE  Keeps
<1>1. CASE UserExists(u)
  <2> DEFINE between == [users EXCEPT ![u].status = "deleted"]
  <2>0. users' = [between EXCEPT ![u].roles = {}]
    BY <1>1 DEF DeleteUserRow
  <2>1. /\ between \in [Users -> Account]
        /\ between[u].epoch = users[u].epoch /\ between[u].password = users[u].password
        /\ \A v \in Users \ {u} : between[v] = users[v]
    BY DEF AccountsTypeOK, Account
  <2> HIDE DEF between
  <2>2. /\ users' \in [Users -> Account]
        /\ users'[u].epoch = between[u].epoch /\ users'[u].password = between[u].password
        /\ users'[u].status = between[u].status
        /\ \A v \in Users \ {u} : users'[v] = between[v]
    BY <2>0, <2>1 DEF Account
  <2>3. between[u].status = "deleted"
    BY DEF between, AccountsTypeOK, Account
  <2> QED BY <2>1, <2>2, <2>3 DEF Keeps, Moves, AccountsTypeOK, Account
<1>2. CASE ~UserExists(u)
  BY <1>2, UnchangedKeeps DEF DeleteUserRow
<1> QED BY <1>1, <1>2

LEMMA EpochKeeps ==
  ASSUME AccountsAssumption, AccountsTypeOK, NEW u \in Users, NEW p \in Passwords, BumpTokenEpoch(u) \/ SetPassword(u, p)
  PROVE  Keeps
<1>1. users[u] \in Account /\ users[u].epoch < MaxEpoch
  BY DEF AccountsTypeOK, BumpTokenEpoch, SetPassword
<1>2. users[u].epoch + 1 \in 0 .. MaxEpoch
  BY <1>1 DEF AccountsAssumption, Account
<1>3. CASE BumpTokenEpoch(u)
  BY <1>1, <1>2, <1>3 DEF AccountsTypeOK, BumpTokenEpoch, Keeps, Moves, Account
<1>4. CASE SetPassword(u, p)
  BY <1>1, <1>2, <1>4 DEF AccountsTypeOK, SetPassword, Keeps, Moves, Account
<1> QED BY <1>3, <1>4

---------------------------------------------------------------------------
(* The steps *)

\* What any step does to the four variables.
Disciplined ==
  /\ Keeps /\ edits' \subseteq Edit
  /\ \A s \in signIns' \cup session' :
       s \in signIns \cup session \/ (s \in Session /\ KnowsOf(s, users[s.user]) /\ UNCHANGED users)

LEMMA AdminSteps ==
  ASSUME AccountsAssumption, AccessInv, NEW a \in Users, AdminStep(a)
  PROVE  Disciplined
<1> USE DEF AccessInv
<1>1. PICK u \in Users : \/ CreateUser(a, u) \/ UpdateUser(a, u) \/ DeleteUser(a, u)
                        \/ ResetUserPassword(a, u) \/ GrantRole(a, u) \/ RevokeRole(a, u)
  BY DEF AdminStep
<1>2. CASE CreateUser(a, u)
  BY <1>2, CreateKeeps DEF CreateUser, InsertUser, Disciplined, AccountsTypeOK
<1>3. CASE UpdateUser(a, u)
  <2>1. PICK kind \in {"suspend", "activate", "role"}, then \in SUBSET GlobalRoles : BeginUpdate(a, u, kind, then)
    BY <1>3 DEF UpdateUser
  <2>2. [user |-> u, kind |-> kind, then |-> then] \in Edit
    BY DEF Edit
  <2> QED BY <2>1, <2>2, UnchangedKeeps DEF BeginUpdate, BeginEdit, Disciplined, AccountsTypeOK
<1>4. CASE DeleteUser(a, u)
  <2>1. [user |-> u, kind |-> "delete", then |-> {}] \in Edit
    BY DEF Edit
  <2> QED BY <1>4, <2>1, UnchangedKeeps DEF DeleteUser, BeginDeletion, BeginEdit, Disciplined, AccountsTypeOK
<1>5. CASE ResetUserPassword(a, u)
  BY <1>5, EpochKeeps DEF ResetUserPassword, ResetPassword, Disciplined, AccountsTypeOK
<1>6. CASE GrantRole(a, u)
  BY <1>6, RolesKeep DEF GrantRole, AddGrant, Disciplined, AccountsTypeOK
<1>7. CASE RevokeRole(a, u)
  <2>1. PICK given \in GlobalRoles : BeginRemoveGrant(u, given)
    BY <1>7 DEF RevokeRole
  <2>2. [user |-> u, kind |-> "revoke", then |-> {given}] \in Edit
    BY DEF Edit
  <2> QED BY <2>1, <2>2, UnchangedKeeps DEF BeginRemoveGrant, BeginEdit, Disciplined, AccountsTypeOK
<1> QED BY <1>1, <1>2, <1>3, <1>4, <1>5, <1>6, <1>7

LEMMA UserSteps ==
  ASSUME AccountsAssumption, AccessInv, NEW u \in Users, UserStep(u)
  PROVE  Disciplined
<1> USE DEF AccessInv
<1>1. CASE \E p \in Passwords : EnsureAdmin(u, p)
  BY <1>1, CreateKeeps DEF EnsureAdmin, Disciplined, AccountsTypeOK
<1>2. CASE \E p \in Passwords : BeginChangePassword(u, p)
  <2>1. PICK p \in Passwords : BeginChangePassword(u, p)
    BY <1>2
  <2>2. [user |-> u, kind |-> "password", to |-> p] \in Edit
    BY DEF Edit
  <2> QED BY <2>1, <2>2, UnchangedKeeps DEF BeginChangePassword, BeginEdit, Disciplined, AccountsTypeOK
<1>3. CASE Authenticate(u)
  <2> DEFINE s == [user |-> u, epoch |-> users[u].epoch, for |-> users[u].password]
  <2>1. s \in Session /\ KnowsOf(s, users[s.user])
    BY <1>3 DEF Authenticate, IsActive, AccountsTypeOK, Account, Session, KnowsOf
  <2>2. signIns' = signIns \cup {s} /\ UNCHANGED <<users, session, edits>>
    BY <1>3 DEF Authenticate
  <2> HIDE DEF s
  <2> QED BY <2>1, <2>2, UnchangedKeeps DEF Disciplined, AccountsTypeOK
<1>4. CASE Logout(u)
  <2>1. \E p \in Passwords : TRUE
    BY DEF AccountsTypeOK, Account
  <2> QED BY <1>4, <2>1, EpochKeeps DEF Logout, Disciplined, AccountsTypeOK
<1> QED BY <1>1, <1>2, <1>3, <1>4 DEF UserStep

LEMMA WriteSteps ==
  ASSUME AccountsAssumption, AccessInv, NEW e \in edits, Write(e)
  PROVE  Disciplined
<1> USE DEF AccessInv
<1>1. e \in Edit /\ e.user \in Users
  BY DEF AccountsTypeOK, Edit
<1>2. CASE WriteStatus(e)
  <2>1. e \in [user : Users, kind : {"suspend", "activate", "role", "delete", "revoke"}, then : SUBSET GlobalRoles]
    BY <1>1, <1>2 DEF WriteStatus, Edit
  <2>2. [e EXCEPT !.kind = "role"] \in Edit
    BY <2>1 DEF Edit
  <2>3. edits' \subseteq Edit
    BY <1>2, <2>2 DEF WriteStatus, AccountsTypeOK
  <2> QED BY <1>1, <1>2, <2>3, StatusKeeps DEF WriteStatus, Disciplined
<1>3. CASE WriteRole(e)
  <2>1. PICK given \in GlobalRoles : SetGlobalRole(e.user, given) \/ RemoveRole(e.user, given)
    BY <1>1, <1>3 DEF WriteRole, Edit
  <2> QED BY <1>1, <1>3, <2>1, RolesKeep DEF WriteRole, Disciplined, AccountsTypeOK
<1>4. CASE WriteDelete(e)
  BY <1>1, <1>4, DeleteKeeps DEF WriteDelete, Disciplined, AccountsTypeOK
<1>5. CASE WritePassword(e)
  <2>1. e.to \in Passwords
    BY <1>1, <1>5 DEF WritePassword, Edit
  <2> QED BY <1>1, <1>5, <2>1, EpochKeeps DEF WritePassword, Disciplined, AccountsTypeOK
<1> QED BY <1>2, <1>3, <1>4, <1>5 DEF Write

LEMMA OtherSteps ==
  ASSUME AccessInv, (\E s \in signIns : Issue(s)) \/ Abandon \/ UNCHANGED accountVars
  PROVE  Disciplined
BY UnchangedKeeps DEF AccessInv, Issue, Abandon, accountVars, Disciplined, AccountsTypeOK

LEMMA NextDisciplined ==
  ASSUME AccountsAssumption, AccessInv, [AccountsNext]_accountVars
  PROVE  Disciplined
BY AdminSteps, UserSteps, WriteSteps, OtherSteps DEF AccountsNext

\* What is known stays known when an account moves as it may.
LEMMA KnowsStays ==
  ASSUME NEW s \in Session, NEW old \in Account, NEW new \in Account, KnowsOf(s, old), Moves(old, new)
  PROVE  KnowsOf(s, new)
BY DEF KnowsOf, Moves, Session, Account

LEMMA NextAccess ==
  ASSUME AccountsAssumption, AccessInv, [AccountsNext]_accountVars
  PROVE  AccessInv'
<1>1. Disciplined
  BY NextDisciplined
<1>2. AccountsTypeOK'
  BY <1>1 DEF Disciplined, Keeps, AccessInv, AccountsTypeOK
<1>3. ASSUME NEW s \in (signIns \cup session)'
      PROVE  KnowsOf(s, users'[s.user])
  <2>1. s \in Session /\ s.user \in Users
    BY <1>2 DEF AccountsTypeOK, Session
  <2>2. KnowsOf(s, users[s.user])
    BY <1>1, <1>3 DEF Disciplined, AccessInv, KnownPasswords
  <2>3. users[s.user] \in Account /\ users'[s.user] \in Account /\ Moves(users[s.user], users'[s.user])
    BY <1>1, <2>1 DEF Disciplined, Keeps, AccessInv, AccountsTypeOK
  <2> QED BY <2>1, <2>2, <2>3, KnowsStays
<1> QED BY <1>2, <1>3 DEF AccessInv, KnownPasswords

LEMMA InitAccess ==
  ASSUME AccountsAssumption, AccountsInit
  PROVE  AccessInv
BY DEF AccountsAssumption, AccountsInit, AccessInv, AccountsTypeOK, Account, KnownPasswords

LEMMA AccessInvariant ==
  AccountsSpec => []AccessInv
<1>1. AccountsInit => AccessInv
  BY InitAccess, AccountsAssumption
<1>2. AccessInv /\ [AccountsNext]_accountVars => AccessInv'
  BY NextAccess, AccountsAssumption
<1> QED BY <1>1, <1>2, PTL DEF AccountsSpec

\* Every account, session and checked request stays well formed.
THEOREM AccountTypes ==
  AccountsSpec => []AccountsTypeOK
<1>1. AccessInv => AccountsTypeOK
  BY DEF AccessInv
<1> QED BY <1>1, AccessInvariant, PTL

\* Service.Principal accepts the epoch an account has, and Authenticate reads it
\* with the hash it checks: whoever is let in knew the password of today.
THEOREM SessionsKnowPasswords ==
  AccountsSpec => []SessionKnowsPassword
<1>1. AccessInv => SessionKnowsPassword
  BY DEF AccessInv, KnownPasswords, KnowsOf, SessionKnowsPassword, Accepted, IsActive
<1> QED BY <1>1, AccessInvariant, PTL

\* An account's epoch does not go back and its password does not change without
\* it, whoever writes at once: sessions ended once stay ended.
THEOREM EpochsAdvance ==
  AccountsSpec => [][\A u \in Users : users[u].status # "none" =>
                       /\ users[u].epoch <= users'[u].epoch
                       /\ users[u].epoch = users'[u].epoch => users[u].password = users'[u].password]_accountVars
<1> DEFINE A == \A u \in Users : users[u].status # "none" =>
                  /\ users[u].epoch <= users'[u].epoch
                  /\ users[u].epoch = users'[u].epoch => users[u].password = users'[u].password
<1>1. AccessInv /\ [AccountsNext]_accountVars => A
  BY NextDisciplined, AccountsAssumption DEF Disciplined, Keeps, Moves
<1>2. AccessInv /\ [AccountsNext]_accountVars => [A]_accountVars
  BY <1>1
<1> QED BY <1>2, AccessInvariant, PTL DEF AccountsSpec

---------------------------------------------------------------------------
(* The last owner.  A request that takes an owner away was checked while   *)
(* another one was active; nothing takes that one away as long as requests *)
(* are written one by one.                                                 *)

EditsOneByOne == MaxUserEdits <= 1

IsOwner(row) == row.status = "active" /\ "owner" \in row.roles
OtherOwner(u) == \E v \in Users : v # u /\ IsOwner(users[v])

\* What takes the role or the status of an owner away.
Harms(e) ==
  \/ e.kind \in {"suspend", "delete"}
  \/ e.kind \in {"role", "activate"} /\ "viewer" \in e.then
  \/ e.kind = "revoke" /\ "owner" \in e.then

OneEdit == edits = {} \/ \E e \in edits : edits = {e}
EditsSpare == \A e \in edits : Harms(e) => OtherOwner(e.user)

OwnerInv == AccountsTypeOK /\ OneEdit /\ EditsSpare /\ OwnerRemains

\* No owner, or no account, is lost.
OwnersStay == \A u \in Users : IsOwner(users[u]) => IsOwner(users'[u])
NobodyAppears == \A u \in Users : users[u].status = "none" => users'[u].status = "none"

LEMMA OwnersAre ==
  /\ \A u \in Users : u \in ActiveOwners <=> IsOwner(users[u])
  /\ OwnerRemains <=> ((\E u \in Users : users[u].status # "none") => \E u \in Users : IsOwner(users[u]))
BY DEF ActiveOwners, IsActive, IsOwner, OwnerRemains

LEMMA OwnersAreNext ==
  OwnerRemains' <=> ((\E u \in Users : users'[u].status # "none") => \E u \in Users : IsOwner(users'[u]))
BY DEF ActiveOwners, IsActive, IsOwner, OwnerRemains

\* GuardLastOwner: there is another one, if there is one at all.
LEMMA GuardedSpares ==
  ASSUME NEW u \in Users, OwnerRemains, users[u].status # "none", GuardLastOwner(u)
  PROVE  OtherOwner(u)
<1>1. PICK v \in Users : IsOwner(users[v])
  BY OwnersAre
<1>2. CASE v = u
  <2>1. Cardinality(ActiveOwners) > 1 /\ u \in ActiveOwners
    BY <1>1, <1>2, OwnersAre DEF GuardLastOwner, IsOwner
  <2>2. ActiveOwners # {u}
    BY <2>1, FS_Singleton
  <2>3. PICK w \in ActiveOwners : w # u
    BY <2>1, <2>2
  <2> QED BY <2>3, OwnersAre DEF OtherOwner, ActiveOwners
<1> QED BY <1>1, <1>2 DEF OtherOwner

LEMMA StillAnother ==
  ASSUME NEW u \in Users, OtherOwner(u), \A v \in Users \ {u} : users'[v] = users[v]
  PROVE  OtherOwner(u)' /\ \E v \in Users : IsOwner(users'[v])
BY DEF OtherOwner

\* A step by which no owner is lost and nobody appears unless there is an owner.
LEMMA StayKeeps ==
  ASSUME OwnerInv, AccountsTypeOK', OwnersStay, OneEdit', NobodyAppears \/ \E u \in Users : IsOwner(users'[u]),
         \A e \in edits' : Harms(e) => e \in edits \/ OtherOwner(e.user)
  PROVE  OwnerInv'
<1>1. ASSUME NEW u, OtherOwner(u)
      PROVE  OtherOwner(u)'
  BY <1>1 DEF OtherOwner, OwnersStay
<1>2. EditsSpare'
  BY <1>1 DEF EditsSpare, OwnerInv
<1>3. OwnerRemains'
  BY OwnersAre, OwnersAreNext DEF OwnerInv, OwnersStay, NobodyAppears
<1> QED BY <1>2, <1>3 DEF OwnerInv

LEMMA BeginKeeps ==
  ASSUME OwnerInv, AccountsTypeOK', EditsOneByOne, AccountsAssumption, NEW e, BeginEdit(e), UNCHANGED users,
         Harms(e) => OtherOwner(e.user)
  PROVE  OwnerInv'
<1>1. edits = {}
  <2>1. ASSUME NEW f, edits = {f} PROVE FALSE
    <3>1. Cardinality(edits) = 1
      BY <2>1, FS_Singleton
    <3>2. Cardinality(edits) < MaxUserEdits
      BY DEF BeginEdit
    <3> QED BY <3>1, <3>2 DEF EditsOneByOne, AccountsAssumption
  <2> QED BY <2>1 DEF OwnerInv, OneEdit
<1>2. edits' = {e}
  BY <1>1 DEF BeginEdit
<1>3. OwnersStay /\ NobodyAppears
  BY DEF OwnersStay, NobodyAppears
<1>4. OneEdit'
  BY <1>2 DEF OneEdit
<1> QED BY <1>2, <1>3, <1>4, StayKeeps

LEMMA OwnerAdminSteps ==
  ASSUME AccountsAssumption, EditsOneByOne, OwnerInv, AccountsTypeOK', NEW a \in Users, AdminStep(a)
  PROVE  OwnerInv'
<1> USE DEF OwnerInv
<1>0. IsOwner(users[a])
  <2>1. Admin(a)
    BY DEF AdminStep, CreateUser, UpdateUser, DeleteUser, ResetUserPassword, GrantRole, RevokeRole
  <2> QED BY <2>1, OwnersAre DEF Admin
<1>1. PICK u \in Users : \/ CreateUser(a, u) \/ UpdateUser(a, u) \/ DeleteUser(a, u)
                        \/ ResetUserPassword(a, u) \/ GrantRole(a, u) \/ RevokeRole(a, u)
  BY DEF AdminStep
<1>2. ASSUME OwnersStay, UNCHANGED edits
      PROVE  OwnerInv'
  <2>1. OneEdit' /\ \E v \in Users : IsOwner(users'[v])
    BY <1>0, <1>2 DEF OneEdit, OwnersStay
  <2> QED BY <1>2, <2>1, StayKeeps
<1>3. u # a => OtherOwner(u)
  BY <1>0 DEF OtherOwner
<1>4. CASE CreateUser(a, u)
  <2>1. PICK p \in Passwords, given \in GlobalRoles : CreateWithRole(u, p, given) /\ UNCHANGED edits
    BY <1>4 DEF CreateUser, InsertUser
  <2>2. OwnersStay
    BY <2>1 DEF CreateWithRole, OwnersStay, IsOwner, AccountsTypeOK
  <2> QED BY <1>2, <2>1, <2>2
<1>5. CASE UpdateUser(a, u)
  <2>1. PICK kind \in {"suspend", "activate", "role"}, then \in SUBSET GlobalRoles : BeginUpdate(a, u, kind, then)
    BY <1>5 DEF UpdateUser
  <2> DEFINE e == [user |-> u, kind |-> kind, then |-> then]
  <2>2. BeginEdit(e) /\ UNCHANGED users /\ users[u].status # "none"
    BY <2>1 DEF BeginUpdate, UserExists
  <2>3. Harms(e) => kind = "suspend" \/ "viewer" \in then
    BY DEF Harms
  <2>4. Harms(e) => OtherOwner(e.user)
    BY <2>1, <2>2, <2>3, <1>3, GuardedSpares DEF BeginUpdate
  <2> HIDE DEF e
  <2> QED BY <2>2, <2>4, BeginKeeps
<1>6. CASE DeleteUser(a, u)
  <2> DEFINE e == [user |-> u, kind |-> "delete", then |-> {}]
  <2>1. BeginEdit(e) /\ UNCHANGED users /\ OtherOwner(e.user)
    BY <1>3, <1>6 DEF DeleteUser, BeginDeletion
  <2> HIDE DEF e
  <2> QED BY <2>1, BeginKeeps
<1>7. CASE ResetUserPassword(a, u)
  <2>1. PICK p \in Passwords : SetPassword(u, p) /\ UNCHANGED edits
    BY <1>7 DEF ResetUserPassword, ResetPassword
  <2>2. OwnersStay
    BY <2>1 DEF SetPassword, OwnersStay, IsOwner, AccountsTypeOK, Account
  <2> QED BY <1>2, <2>1, <2>2
<1>8. CASE GrantRole(a, u)
  <2>1. PICK given \in GlobalRoles : users' = [users EXCEPT ![u].roles = @ \cup {given}] /\ UNCHANGED edits
    BY <1>8 DEF GrantRole, AddGrant
  <2>2. OwnersStay
    BY <2>1 DEF OwnersStay, IsOwner, AccountsTypeOK, Account
  <2> QED BY <1>2, <2>1, <2>2
<1>9. CASE RevokeRole(a, u)
  <2>1. PICK given \in GlobalRoles : BeginRemoveGrant(u, given)
    BY <1>9 DEF RevokeRole
  <2> DEFINE e == [user |-> u, kind |-> "revoke", then |-> {given}]
  <2>2. BeginEdit(e) /\ UNCHANGED users
    BY <2>1 DEF BeginRemoveGrant
  <2>3. Harms(e) => given = "owner"
    BY DEF Harms
  <2>4. given = "owner" => OtherOwner(u)
    <3>1. CASE u = a
      BY <1>0, <2>1, <3>1, GuardedSpares DEF BeginRemoveGrant, IsOwner
    <3> QED BY <1>3, <3>1
  <2>5. Harms(e) => OtherOwner(e.user)
    BY <2>3, <2>4
  <2> HIDE DEF e
  <2> QED BY <2>2, <2>5, BeginKeeps
<1> QED BY <1>1, <1>4, <1>5, <1>6, <1>7, <1>8, <1>9

LEMMA OwnerUserSteps ==
  ASSUME AccountsAssumption, EditsOneByOne, OwnerInv, AccountsTypeOK', NEW u \in Users, UserStep(u)
  PROVE  OwnerInv'
<1> USE DEF OwnerInv
<1>1. CASE \E p \in Passwords : EnsureAdmin(u, p)
  <2>1. PICK p \in Passwords : EnsureAdmin(u, p)
    BY <1>1
  <2>2. users' = [users EXCEPT ![u] = [status |-> "active", password |-> p, epoch |-> 0, roles |-> {"owner"}]] /\ UNCHANGED edits
    BY <2>1 DEF EnsureAdmin, CreateWithRole
  <2>3. OwnersStay /\ \E v \in Users : IsOwner(users'[v])
    BY <2>1, <2>2 DEF EnsureAdmin, UserExists, OwnersStay, IsOwner, AccountsTypeOK
  <2>4. OneEdit'
    BY <2>2 DEF OneEdit
  <2> QED BY <2>2, <2>3, <2>4, StayKeeps
<1>2. CASE \E p \in Passwords : BeginChangePassword(u, p)
  <2>1. PICK p \in Passwords : BeginChangePassword(u, p)
    BY <1>2
  <2> DEFINE e == [user |-> u, kind |-> "password", to |-> p]
  <2>2. BeginEdit(e) /\ UNCHANGED users
    BY <2>1 DEF BeginChangePassword
  <2>3. ~Harms(e)
    BY DEF Harms
  <2> HIDE DEF e
  <2> QED BY <2>2, <2>3, BeginKeeps
<1>3. CASE Authenticate(u)
  <2>1. UNCHANGED <<users, edits>> /\ OwnersStay /\ NobodyAppears /\ OneEdit'
    BY <1>3 DEF Authenticate, OwnersStay, NobodyAppears, OneEdit
  <2> QED BY <2>1, StayKeeps
<1>4. CASE Logout(u)
  <2>1. users' = [users EXCEPT ![u].epoch = @ + 1] /\ UNCHANGED edits
    BY <1>4 DEF Logout, BumpTokenEpoch
  <2>2. OwnersStay /\ NobodyAppears /\ OneEdit'
    BY <2>1 DEF OwnersStay, NobodyAppears, IsOwner, OneEdit, AccountsTypeOK, Account
  <2> QED BY <2>1, <2>2, StayKeeps
<1> QED BY <1>1, <1>2, <1>3, <1>4 DEF UserStep

\* The statements of a request change the account that was checked.
LEMMA WritesOwn ==
  ASSUME AccountsTypeOK, NEW u \in Users, NEW p \in Passwords, NEW given \in GlobalRoles, NEW status \in {"active", "suspended"},
         \/ SetUserStatus(u, status) \/ SetGlobalRole(u, given) \/ RemoveRole(u, given) \/ DeleteUserRow(u) \/ SetPassword(u, p)
  PROVE  /\ \A v \in Users \ {u} : users'[v] = users[v]
         /\ NobodyAppears
<1>1. ASSUME NEW row, UserExists(u), users' = [users EXCEPT ![u] = row]
      PROVE  (\A v \in Users \ {u} : users'[v] = users[v]) /\ NobodyAppears
  BY <1>1 DEF AccountsTypeOK, UserExists, NobodyAppears
<1>2. CASE UNCHANGED users
  BY <1>2 DEF NobodyAppears
<1>3. CASE SetUserStatus(u, status)
  BY <1>1, <1>2, <1>3 DEF SetUserStatus
<1>4. CASE SetGlobalRole(u, given)
  BY <1>1, <1>2, <1>4 DEF SetGlobalRole
<1>5. CASE RemoveRole(u, given)
  BY <1>5 DEF RemoveRole, NobodyAppears, AccountsTypeOK, Account
<1>6. CASE DeleteUserRow(u)
  <2>1. UserExists(u) => \A v \in Users \ {u} : users'[v] = users[v]
    BY <1>6 DEF DeleteUserRow, AccountsTypeOK
  <2> QED BY <1>2, <1>6, <2>1 DEF DeleteUserRow, UserExists, NobodyAppears
<1>7. CASE SetPassword(u, p)
  <2>1. UserExists(u) => \A v \in Users \ {u} : users'[v] = users[v]
    BY <1>7 DEF SetPassword, AccountsTypeOK
  <2> QED BY <1>2, <1>7, <2>1 DEF SetPassword, UserExists, NobodyAppears
<1> QED BY <1>3, <1>4, <1>5, <1>6, <1>7

LEMMA OwnerWriteSteps ==
  ASSUME AccountsAssumption, OwnerInv, AccountsTypeOK', NEW e \in edits, Write(e)
  PROVE  OwnerInv'
<1> USE DEF OwnerInv
<1>1. e \in Edit /\ e.user \in Users /\ edits = {e}
  BY DEF AccountsTypeOK, Edit, OneEdit
<1>2. /\ \A v \in Users \ {e.user} : users'[v] = users[v]
      /\ NobodyAppears
  <2>1. \E p \in Passwords : TRUE
    BY <1>1 DEF AccountsTypeOK, Account
  <2>2. CASE WriteStatus(e)
    BY <1>1, <2>1, <2>2, WritesOwn DEF WriteStatus
  <2>3. CASE WriteRole(e)
    <3>1. PICK given \in GlobalRoles : SetGlobalRole(e.user, given) \/ RemoveRole(e.user, given)
      BY <1>1, <2>3 DEF WriteRole, Edit
    <3> QED BY <1>1, <2>1, <3>1, WritesOwn
  <2>4. CASE WriteDelete(e)
    BY <1>1, <2>1, <2>4, WritesOwn DEF WriteDelete
  <2>5. CASE WritePassword(e)
    <3>1. e.to \in Passwords
      BY <1>1, <2>5 DEF WritePassword, Edit
    <3> QED BY <1>1, <2>5, <3>1, WritesOwn DEF WritePassword
  <2> QED BY <2>2, <2>3, <2>4, <2>5 DEF Write
<1>3. /\ OneEdit'
      /\ \A f \in edits' : f.user = e.user /\ (Harms(f) => Harms(e))
  <2>1. CASE WriteStatus(e)
    <3> DEFINE f == [e EXCEPT !.kind = "role"]
    <3>1. edits' \subseteq {f}
      BY <1>1, <2>1 DEF WriteStatus
    <3>2. e \in [user : Users, kind : {"suspend", "activate", "role", "delete", "revoke"}, then : SUBSET GlobalRoles]
      BY <1>1, <2>1 DEF WriteStatus, Edit
    <3>3. f.user = e.user /\ f.kind = "role" /\ f.then = e.then
      BY <3>2
    <3>4. Harms(f) => Harms(e)
      BY <2>1, <3>3 DEF Harms, WriteStatus
    <3> HIDE DEF f
    <3> QED BY <3>1, <3>3, <3>4 DEF OneEdit
  <2>2. CASE ~WriteStatus(e)
    BY <1>1, <2>2 DEF Write, WriteRole, WriteDelete, WritePassword, OneEdit
  <2> QED BY <2>1, <2>2
<1>4. CASE Harms(e)
  <2>1. OtherOwner(e.user)' /\ \E v \in Users : IsOwner(users'[v])
    BY <1>1, <1>2, <1>4, StillAnother DEF EditsSpare
  <2>2. EditsSpare'
    BY <1>3, <2>1 DEF EditsSpare
  <2> QED BY <1>3, <2>1, <2>2, OwnersAreNext
<1>5. CASE ~Harms(e)
  <2>1. IsOwner(users[e.user]) => IsOwner(users'[e.user])
    <3>1. CASE WriteStatus(e)
      BY <1>1, <1>5, <3>1 DEF WriteStatus, Harms, SetUserStatus, UserExists, IsOwner, AccountsTypeOK, Account
    <3>2. CASE WriteRole(e)
      <4>1. e.kind \in {"role", "revoke"} /\ e.then \in SUBSET GlobalRoles
        BY <1>1, <3>2 DEF WriteRole, Edit
      <4>2. PICK given \in e.then : IF e.kind = "role" THEN SetGlobalRole(e.user, given) ELSE RemoveRole(e.user, given)
        BY <3>2 DEF WriteRole
      <4>3. given = IF e.kind = "role" THEN "owner" ELSE "viewer"
        BY <1>5, <4>1, <4>2 DEF Harms
      <4>4. CASE e.kind = "role"
        <5>1. SetGlobalRole(e.user, "owner")
          BY <4>2, <4>3, <4>4
        <5> QED BY <1>1, <5>1 DEF SetGlobalRole, UserExists, IsOwner, AccountsTypeOK, Account
      <4>5. CASE e.kind = "revoke"
        <5>1. RemoveRole(e.user, "viewer")
          BY <4>2, <4>3, <4>5
        <5> QED BY <1>1, <5>1 DEF RemoveRole, IsOwner, AccountsTypeOK, Account
      <4> QED BY <4>1, <4>4, <4>5
    <3>3. CASE WriteDelete(e)
      BY <1>5, <3>3 DEF WriteDelete, Harms
    <3>4. CASE WritePassword(e)
      <4>1. users'[e.user].status = users[e.user].status /\ users'[e.user].roles = users[e.user].roles
        BY <1>1, <3>4 DEF WritePassword, SetPassword, AccountsTypeOK, Account
      <4> QED BY <4>1 DEF IsOwner
    <3> QED BY <3>1, <3>2, <3>3, <3>4 DEF Write
  <2>2. OwnersStay
    BY <1>2, <2>1 DEF OwnersStay
  <2> QED BY <1>2, <1>3, <1>5, <2>2, StayKeeps
<1> QED BY <1>4, <1>5

LEMMA OwnerOtherSteps ==
  ASSUME OwnerInv, AccountsTypeOK', (\E s \in signIns : Issue(s)) \/ Abandon \/ UNCHANGED accountVars
  PROVE  OwnerInv'
<1>1. edits' \subseteq edits /\ UNCHANGED users
  BY DEF Issue, Abandon, accountVars
<1>2. OwnersStay /\ NobodyAppears
  BY <1>1 DEF OwnersStay, NobodyAppears
<1>3. OneEdit'
  BY <1>1 DEF OwnerInv, OneEdit
<1> QED BY <1>1, <1>2, <1>3, StayKeeps

LEMMA NextOwner ==
  ASSUME AccountsAssumption, EditsOneByOne, OwnerInv, AccountsTypeOK', [AccountsNext]_accountVars
  PROVE  OwnerInv'
BY OwnerAdminSteps, OwnerUserSteps, OwnerWriteSteps, OwnerOtherSteps DEF AccountsNext

LEMMA InitOwner ==
  ASSUME AccountsAssumption, AccountsInit, AccountsTypeOK
  PROVE  OwnerInv
BY DEF AccountsInit, OwnerInv, OneEdit, EditsSpare, OwnerRemains

---------------------------------------------------------------------------
(* Authorization.  Whether a scope covers a resource is asked of the       *)
(* resource (Allow) or of the caller (Has); both are the same question.    *)

LEMMA AllowIsHas ==
  ASSUME NEW c, NEW covers
  PROVE  Allow(c, covers) <=> ReadsAll(c) \/ \E s \in covers : Has(c, s)
BY DEF Allow, ReadsAll, Has

LEMMA Kinds ==
  ASSUME AuthorizationAssumption
  PROVE  /\ \A s \in Srvs : Ancestry(s) = {s}
         /\ \A i \in Insts : Ancestry(i) = ServerOf(i)
         /\ \A d \in Databs : Ancestry(d) = {d} \cup ServerOf(Holder[d])
         /\ \A b \in Dumps : Ancestry(b) = {Of[b]} \cup ServerOf(Holder[Of[b]])
<1>1. ASSUME NEW s \in Srvs PROVE Ancestry(s) = {s}
  <2>1. s \notin Insts /\ s \notin Databs /\ s \notin Dumps
    BY DEF AuthorizationAssumption
  <2> QED BY <2>1 DEF Ancestry
<1>2. ASSUME NEW i \in Insts PROVE Ancestry(i) = ServerOf(i)
  <2>1. i \notin Srvs /\ i \notin Databs /\ i \notin Dumps
    BY DEF AuthorizationAssumption
  <2> QED BY <2>1 DEF Ancestry
<1>3. ASSUME NEW d \in Databs PROVE Ancestry(d) = {d} \cup ServerOf(Holder[d])
  <2>1. d \notin Srvs /\ d \notin Insts /\ d \notin Dumps
    BY DEF AuthorizationAssumption
  <2> QED BY <2>1 DEF Ancestry, LineageOf
<1>4. ASSUME NEW b \in Dumps PROVE Ancestry(b) = {Of[b]} \cup ServerOf(Holder[Of[b]])
  <2>1. b \notin Srvs /\ b \notin Insts /\ b \notin Databs
    BY DEF AuthorizationAssumption
  <2> QED BY <2>1 DEF Ancestry, LineageOf
<1> QED BY <1>1, <1>2, <1>3, <1>4

LEMMA HomesAreServers ==
  ASSUME AuthorizationAssumption
  PROVE  /\ \A i : ServerOf(i) \subseteq Srvs
         /\ \A d \in Databs : Holder[d] \in Insts
         /\ \A b \in Dumps : Of[b] \in Databs
BY DEF AuthorizationAssumption, ServerOf

LEMMA ListsAreOpen ==
  ASSUME AuthorizationAssumption
  PROVE  ListsWhatOpens
<1> SUFFICES ASSUME NEW c \in Principals
             PROVE  /\ ListServers(c) = {s \in Srvs : GetServer(c, s)}
                    /\ ListDatabasesFor(c) = {d \in Databs : GetDatabase(c, d)}
                    /\ ListDumps(c) = {b \in Dumps : GetDump(c, b)}
  BY DEF ListsWhatOpens
<1>1. ASSUME NEW s \in Srvs
      PROVE  Allow(c, Ancestry(s)) <=> ReadsAll(c) \/ s \in ReadableServers(c)
  BY Kinds, AllowIsHas DEF ReadableServers
<1>2. ASSUME NEW d \in Databs
      PROVE  Allow(c, {d} \cup ServerOf(Holder[d])) <=>
               ReadsAll(c) \/ d \in ReadableDatabases(c) \/ ServerOf(Holder[d]) \cap ReadableServers(c) # {}
  BY HomesAreServers, AllowIsHas DEF ReadableServers, ReadableDatabases
<1>3. ListServers(c) = {s \in Srvs : GetServer(c, s)}
  BY <1>1 DEF ListServers, GetServer
<1>4. ListDatabasesFor(c) = {d \in Databs : GetDatabase(c, d)}
  BY <1>2, Kinds DEF ListDatabasesFor, GetDatabase
<1>5. ListDumps(c) = {b \in Dumps : GetDump(c, b)}
  BY <1>2, Kinds, HomesAreServers DEF ListDumps, GetDump
<1> QED BY <1>3, <1>4, <1>5

LEMMA InstancesAreListed ==
  ASSUME AuthorizationAssumption
  PROVE  InstancesListed
<1> SUFFICES ASSUME NEW c \in Principals
             PROVE  /\ {i \in Insts : GetInstance(c, i)} \subseteq ListInstances(c)
                    /\ \A d \in ListDatabasesFor(c) : Holder[d] \in ListInstances(c)
  BY DEF InstancesListed
<1>1. ASSUME NEW i \in Insts, GetInstance(c, i)
      PROVE  i \in ListInstances(c)
  BY <1>1, Kinds, HomesAreServers, AllowIsHas DEF GetInstance, ListInstances, ReadableServers
<1>2. ASSUME NEW d \in ListDatabasesFor(c)
      PROVE  Holder[d] \in ListInstances(c)
  BY HomesAreServers DEF ListDatabasesFor, ListInstances, ReadableDatabases
<1> QED BY <1>1, <1>2

LEMMA OverviewIsMirrored ==
  ASSUME AuthorizationAssumption, RunsAtHome
  PROVE  OverviewMirrors
<1> SUFFICES ASSUME NEW j \in Tasks
             PROVE  AttentionAncestry(j) = TaskAncestry(j)
  BY DEF OverviewMirrors, OverviewShows, GetTask
<1>1. CASE j \notin DOMAIN About
  <2>1. TaskAncestry(j) = {} /\ AttentionDatabase(j) = {}
    BY <1>1 DEF TaskAncestry, AttentionDatabase
  <2>2. j \notin DOMAIN RunsOn
    BY <2>1 DEF RunsAtHome
  <2> QED BY <1>1, <2>1, <2>2 DEF AttentionAncestry, AttentionServer
<1>2. CASE j \in DOMAIN About
  <2> DEFINE r == About[j]
  <2>0. r \in Srvs \cup Insts \cup Databs \cup Dumps /\ TaskAncestry(j) = Ancestry(r)
    BY <1>2 DEF AuthorizationAssumption, TaskAncestry
  <2>1. j \in DOMAIN RunsOn => Ancestry(r) \cap Srvs = {RunsOn[j]} /\ AttentionServer(j) = {RunsOn[j]}
    BY <2>0 DEF RunsAtHome, AttentionServer
  <2>2. j \notin DOMAIN RunsOn => r \notin Srvs
    BY <1>2 DEF RunsAtHome
  <2>3. CASE r \in Srvs
    <3>1. r \notin Insts /\ r \notin Databs /\ r \notin Dumps /\ Ancestry(r) = {r}
      BY <2>3, Kinds DEF AuthorizationAssumption
    <3>2. AttentionDatabase(j) = {}
      BY <1>2, <3>1 DEF AttentionDatabase
    <3> QED BY <2>0, <2>1, <2>2, <2>3, <3>1, <3>2 DEF AttentionAncestry
  <2>4. CASE r \in Insts
    <3>1. r \notin Srvs /\ r \notin Databs /\ r \notin Dumps /\ Ancestry(r) = ServerOf(r) /\ ServerOf(r) \subseteq Srvs
      BY <2>4, Kinds, HomesAreServers DEF AuthorizationAssumption
    <3>2. AttentionDatabase(j) = {}
      BY <1>2, <3>1 DEF AttentionDatabase
    <3>3. j \notin DOMAIN RunsOn => AttentionServer(j) = ServerOf(r)
      BY <1>2, <2>4, <3>1 DEF AttentionServer
    <3> QED BY <2>0, <2>1, <3>1, <3>2, <3>3 DEF AttentionAncestry
  <2>5. CASE r \in Databs
    <3>1. /\ r \notin Srvs /\ r \notin Insts /\ r \notin Dumps
          /\ Ancestry(r) = {r} \cup ServerOf(Holder[r]) /\ ServerOf(Holder[r]) \subseteq Srvs
      BY <2>5, Kinds, HomesAreServers DEF AuthorizationAssumption
    <3>2. AttentionDatabase(j) = {r}
      BY <1>2, <2>5 DEF AttentionDatabase
    <3>3. j \notin DOMAIN RunsOn => AttentionServer(j) = ServerOf(Holder[r])
      BY <1>2, <2>5, <3>1 DEF AttentionServer
    <3>4. Ancestry(r) \cap Srvs = ServerOf(Holder[r])
      BY <3>1
    <3> QED BY <2>0, <2>1, <3>1, <3>2, <3>3, <3>4 DEF AttentionAncestry
  <2>6. CASE r \in Dumps
    <3>1. /\ r \notin Srvs /\ r \notin Insts /\ r \notin Databs /\ Of[r] \notin Srvs
          /\ Ancestry(r) = {Of[r]} \cup ServerOf(Holder[Of[r]]) /\ ServerOf(Holder[Of[r]]) \subseteq Srvs
      BY <2>6, Kinds, HomesAreServers DEF AuthorizationAssumption
    <3>2. AttentionDatabase(j) = {Of[r]}
      BY <1>2, <2>6, <3>1 DEF AttentionDatabase
    <3>3. j \notin DOMAIN RunsOn => AttentionServer(j) = ServerOf(Holder[Of[r]])
      BY <1>2, <2>6, <3>1 DEF AttentionServer
    <3>4. Ancestry(r) \cap Srvs = ServerOf(Holder[Of[r]])
      BY <3>1
    <3> QED BY <2>0, <2>1, <3>1, <3>2, <3>3, <3>4 DEF AttentionAncestry
  <2> QED BY <2>0, <2>3, <2>4, <2>5, <2>6
<1> QED BY <1>1, <1>2

---------------------------------------------------------------------------
(* Secrets *)

SecretRow == [id : Nat, payload : Nat, wrapped : Nat, key : Nat]
Ring == [primary : 1..keys, old : SUBSET (1..keys)]

SecretsTypeOK ==
  /\ keys \in Nat \ {0} /\ puts \in Nat /\ passes \in Nat
  /\ secrets \in [Refs -> SecretRow]
  /\ env \in Ring /\ keyring \in [Servers -> Ring]
  /\ pass \in [state : {"none", "running", "failed", "done"}, todo : Seq(SecretRow)]
  /\ dropped \subseteq 1..keys /\ overwritten \subseteq Refs

There(r) == secrets[r] # Absent
Kept(r) == There(r) /\ r \notin overwritten
ToDo == {pass.todo[i] : i \in 1..Len(pass.todo)}

\* An id is given once.
Ids ==
  /\ \A r \in Refs : There(r) => secrets[r].id \in 1..puts
  /\ \A q, r \in Refs : There(q) /\ There(r) /\ secrets[q].id = secrets[r].id => q = r
  /\ \A e \in ToDo : e.id \in 1..puts

\* What is listed of a secret that was not written over is what its row has,
\* but for a key that was wrapped anew.
Listing ==
  \A e \in ToDo, r \in Refs : Kept(r) /\ secrets[r].id = e.id =>
    /\ secrets[r].wrapped = e.wrapped
    /\ e.key = env.primary => secrets[r].key = env.primary

\* While the rotation goes on, every server writes under the new key, and what
\* is not under it is still to do.
Rotating ==
  /\ pass.state # "none" => Promoted /\ AllRestarted
  /\ pass.state # "running" => pass.todo = <<>>
  /\ pass.state \in {"running", "done"} =>
       \A r \in Refs : Kept(r) /\ secrets[r].key # env.primary => \E e \in ToDo : e.id = secrets[r].id

\* Servers write under keys of the environment, or ones that it had.
Rings ==
  /\ env.old = {} \/ \E k \in 1..keys : env.old = {k}
  /\ \A s \in Servers :
       /\ keyring[s].primary \in Keys(env) \cup dropped
       /\ Promoted /\ env.primary \in Keys(keyring[s]) => keyring[s] = env

SecretsInv == SecretsTypeOK /\ Ids /\ Listing /\ Rotating /\ Rings /\ RotationKeeps

LEMMA InitSecrets == SecretsInit => SecretsInv
<1> SUFFICES ASSUME SecretsInit PROVE SecretsInv
  OBVIOUS
<1>1. /\ \A r \in Refs : ~There(r)
      /\ ToDo = {} /\ ~Promoted /\ env.old = {} /\ env.primary = 1 /\ pass.todo = <<>>
  BY DEF SecretsInit, There, ToDo, NoPass, Promoted
<1>2. SecretsTypeOK
  BY DEF SecretsInit, SecretsTypeOK, NoPass, SecretRow, Ring, Absent
<1>3. Ids /\ Listing /\ RotationKeeps
  BY <1>1 DEF Ids, Listing, RotationKeeps, There, Kept
<1>4. Rotating
  BY <1>1 DEF Rotating, SecretsInit, NoPass
<1>5. Rings
  BY <1>1 DEF Rings, SecretsInit, Keys
<1> QED BY <1>2, <1>3, <1>4, <1>5 DEF SecretsInv

\* There are finitely many secrets.
LEMMA ListedFinite ==
  LET All == {secrets[r] : r \in {q \in Refs : There(q)}} IN IsFiniteSet(All) /\ Cardinality(All) \in Nat
<1> DEFINE P == {q \in Refs : There(q)}
<1> DEFINE All == {secrets[r] : r \in P}
<1> DEFINE f == [r \in P |-> secrets[r]]
<1>1. f \in Surjection(P, All)
  BY DEF Surjection
<1>2. IsFiniteSet(P)
  BY SecretsAssumption, FS_Subset, P \subseteq Refs DEF SecretsAssumption
<1> HIDE DEF f, P
<1>3. IsFiniteSet(All)
  <2> HIDE DEF All
  <2> QED BY <1>1, <1>2, FS_Surjection
<1> QED BY <1>3, FS_CardinalityType DEF P

\* ListAll: the listing has every secret there is.
LEMMA ListingDone ==
  ASSUME NEW order \in SetToSeqs({secrets[r] : r \in {q \in Refs : There(q)}})
  PROVE  {order[i] : i \in 1..Len(order)} = {secrets[r] : r \in {q \in Refs : There(q)}}
<1> DEFINE P == {q \in Refs : There(q)}
<1> DEFINE All == {secrets[r] : r \in P}
<1> DEFINE D == 1..Cardinality(All)
<1>1. IsFiniteSet(All) /\ Cardinality(All) \in Nat
  BY ListedFinite
<1>2. Cardinality(All) \in Nat
  BY <1>1
<1>3. order \in [D -> All] /\ \A i, j \in D : i # j => order[i] # order[j]
  BY DEF SetToSeqs
<1> HIDE DEF All
<1>4. order \in Injection(D, All)
  BY <1>3 DEF Injection, IsInjective
<1>5. IsFiniteSet(D) /\ Cardinality(D) = Cardinality(All)
  <2>1. IsFiniteSet(D) /\ Cardinality(D) = IF 1 > Cardinality(All) THEN 0 ELSE Cardinality(All) - 1 + 1
    BY <1>2, FS_Interval
  <2> QED BY <1>2, <2>1
<1> HIDE DEF D
<1>6. order \in Surjection(D, All)
  BY <1>1, <1>4, <1>5, FS_Injection
<1>7. {order[i] : i \in D} = All
  BY <1>3, <1>6 DEF Surjection
<1>8. Len(order) = Cardinality(All)
  BY <1>2, <1>3 DEF D
<1> QED BY <1>7, <1>8 DEF All, D

\* A secret that a pass has listed and that is written over counts as overwritten; any other is fresh.
LEMMA PutKeeps ==
  ASSUME SecretsInv, NEW s \in Servers, NEW r \in Refs, Put(s, r)
  PROVE  SecretsInv'
<1> DEFINE id == IF secrets[r] = Absent THEN puts + 1 ELSE secrets[r].id
<1> DEFINE row == [id |-> id, payload |-> puts + 1, wrapped |-> puts + 1, key |-> keyring[s].primary]
<1>1. /\ puts' = puts + 1 /\ secrets' = [secrets EXCEPT ![r] = row]
      /\ UNCHANGED <<env, keyring, pass, passes, keys, dropped>>
  BY DEF Put, Encrypt
<1>2. SecretsTypeOK /\ puts \in Nat /\ keyring[s] \in Ring
  BY DEF SecretsInv, SecretsTypeOK
<1>3. row \in SecretRow
  BY <1>2 DEF SecretsTypeOK, SecretRow, Ring
<1>4. secrets'[r] = row /\ (\A q \in Refs : q # r => secrets'[q] = secrets[q]) /\ row # Absent
  BY <1>1, <1>2 DEF SecretsTypeOK, Absent
<1>5. overwritten' = IF \E e \in ToDo : e.id = secrets[r].id THEN overwritten \cup {r} ELSE overwritten \ {r}
  BY DEF Put, ToDo
<1>6. ToDo' = ToDo
  BY <1>1 DEF ToDo
<1>7. There(r)' /\ \A q \in Refs : q # r => (There(q)' <=> There(q)) /\ (Kept(q)' <=> Kept(q))
  BY <1>4, <1>5 DEF There, Kept
<1>8. id \in 1..puts' /\ \A q \in Refs : q # r /\ There(q) => secrets[q].id # id
  BY <1>1, <1>2 DEF SecretsInv, Ids, There
<1>9. Kept(r)' => \A e \in ToDo : e.id # id
  <2>1. CASE secrets[r] = Absent
    BY <1>2, <2>1 DEF SecretsInv, Ids
  <2>2. CASE secrets[r] # Absent
    BY <1>5, <2>2 DEF Kept
  <2> QED BY <2>1, <2>2
<1>10. /\ row.id = id /\ row.payload = row.wrapped /\ row.key = keyring[s].primary
  OBVIOUS
<1> HIDE DEF id, row
<1>11. SecretsTypeOK'
  BY <1>1, <1>2, <1>3, <1>5 DEF SecretsTypeOK, Ring
<1>12. Ids'
  <2>1. \A q \in Refs : There(q)' => secrets'[q].id \in 1..puts'
    BY <1>1, <1>2, <1>4, <1>7, <1>8, <1>10 DEF SecretsInv, Ids
  <2>2. \A q, t \in Refs : There(q)' /\ There(t)' /\ secrets'[q].id = secrets'[t].id => q = t
    BY <1>4, <1>7, <1>8, <1>10 DEF SecretsInv, Ids
  <2>3. \A e \in ToDo' : e.id \in 1..puts'
    BY <1>1, <1>2, <1>6 DEF SecretsInv, Ids
  <2> QED BY <2>1, <2>2, <2>3 DEF Ids
<1>13. Listing'
  BY <1>1, <1>4, <1>6, <1>7, <1>9, <1>10 DEF SecretsInv, Listing
<1>14. Rotating'
  <2>1. pass.state # "none" => Promoted' /\ AllRestarted'
    BY <1>1 DEF SecretsInv, Rotating, Promoted, AllRestarted
  <2>2. pass.state # "none" => row.key = env.primary
    BY <1>10 DEF SecretsInv, Rotating, AllRestarted
  <2>3. pass.state \in {"running", "done"} =>
          \A q \in Refs : Kept(q)' /\ secrets'[q].key # env.primary => \E e \in ToDo : e.id = secrets'[q].id
    BY <1>4, <1>7, <2>2 DEF SecretsInv, Rotating
  <2> QED BY <1>1, <1>6, <2>1, <2>3 DEF SecretsInv, Rotating
<1>15. Rings'
  BY <1>1 DEF SecretsInv, Rings, Promoted
<1>16. RotationKeeps'
  <2>1. row.key \in Keys([env EXCEPT !.old = @ \cup dropped])
    BY <1>2, <1>10 DEF SecretsInv, Rings, Keys, SecretsTypeOK, Ring
  <2>2. Opens(secrets'[r], [env EXCEPT !.old = @ \cup dropped])
    BY <1>4, <1>10, <2>1 DEF Opens
  <2>3. \A q \in Refs \ overwritten' : q # r /\ There(q)' => Opens(secrets'[q], [env EXCEPT !.old = @ \cup dropped])
    BY <1>4, <1>7 DEF SecretsInv, RotationKeeps, Kept, There
  <2> QED BY <1>1, <2>2, <2>3 DEF RotationKeeps, There
<1> QED BY <1>11, <1>12, <1>13, <1>14, <1>15, <1>16 DEF SecretsInv

LEMMA ForgetKeeps ==
  ASSUME SecretsInv, NEW r \in Refs, DeleteSecret(r)
  PROVE  SecretsInv'
<1>1. /\ secrets' = [secrets EXCEPT ![r] = Absent] /\ overwritten' = overwritten \ {r}
      /\ UNCHANGED <<env, keyring, pass, puts, passes, keys, dropped>>
  BY DEF DeleteSecret
<1>2. secrets \in [Refs -> SecretRow] /\ Absent \in SecretRow
  BY DEF SecretsInv, SecretsTypeOK, Absent, SecretRow
<1>3. secrets'[r] = Absent /\ \A q \in Refs : q # r => secrets'[q] = secrets[q]
  BY <1>1, <1>2
<1>4. ~There(r)' /\ ~Kept(r)' /\ \A q \in Refs : q # r => (There(q)' <=> There(q)) /\ (Kept(q)' <=> Kept(q))
  BY <1>1, <1>3 DEF There, Kept
<1>5. ToDo' = ToDo
  BY <1>1 DEF ToDo
<1>6. SecretsTypeOK'
  BY <1>1, <1>2 DEF SecretsInv, SecretsTypeOK, Ring
<1>7. Ids'
  BY <1>1, <1>3, <1>4, <1>5 DEF SecretsInv, Ids
<1>8. Listing'
  BY <1>1, <1>3, <1>4, <1>5 DEF SecretsInv, Listing
<1>9. Rotating' /\ Rings'
  BY <1>1, <1>3, <1>4, <1>5 DEF SecretsInv, Rotating, Rings, Promoted, AllRestarted
<1>10. RotationKeeps'
  BY <1>1, <1>3, <1>4 DEF SecretsInv, RotationKeeps, There, Kept
<1> QED BY <1>6, <1>7, <1>8, <1>9, <1>10 DEF SecretsInv

\* What the rows, the listing and the rotation are to each other stays true
\* when none of them changes.
LEMMA RestartKeeps ==
  ASSUME SecretsInv, NEW s \in Servers, Restart(s)
  PROVE  SecretsInv'
<1>1. /\ keyring[s] # env /\ keyring' = [keyring EXCEPT ![s] = env]
      /\ UNCHANGED <<secrets, env, pass, puts, passes, overwritten, keys, dropped>>
  BY DEF Restart
<1>2. SecretsTypeOK'
  BY <1>1 DEF SecretsInv, SecretsTypeOK, Ring
<1>3. \A t \in Servers : keyring'[t] = keyring[t] \/ keyring'[t] = env
  BY <1>1 DEF SecretsInv, SecretsTypeOK
<1>4. Ids' /\ Listing' /\ RotationKeeps'
  <2>1. \A q \in Refs : (There(q)' <=> There(q)) /\ (Kept(q)' <=> Kept(q))
    BY <1>1 DEF There, Kept
  <2>2. ToDo' = ToDo
    BY <1>1 DEF ToDo
  <2>3. Ids' /\ Listing'
    BY <1>1, <2>1, <2>2 DEF SecretsInv, Ids, Listing
  <2>4. RotationKeeps'
    BY <1>1 DEF SecretsInv, RotationKeeps
  <2> QED BY <2>3, <2>4
<1>5. Rotating'
  BY <1>1 DEF SecretsInv, Rotating, Promoted, AllRestarted, There, Kept, ToDo
<1>6. Rings'
  BY <1>1, <1>3 DEF SecretsInv, Rings, Promoted, Keys
<1> QED BY <1>2, <1>4, <1>5, <1>6 DEF SecretsInv

LEMMA PromoteKeeps ==
  ASSUME SecretsInv, Promote
  PROVE  SecretsInv'
<1>1. /\ ~Promoted /\ AllRestarted /\ keys' = keys + 1
      /\ env' = [primary |-> keys + 1, old |-> {env.primary}]
      /\ UNCHANGED <<secrets, keyring, pass, puts, passes, overwritten, dropped>>
  BY DEF Promote
<1>2. keys \in Nat \ {0} /\ env \in Ring
  BY DEF SecretsInv, SecretsTypeOK
<1>3. pass.state = "none" /\ pass.todo = <<>> /\ env.old = {}
  BY <1>1 DEF SecretsInv, Rotating, Promoted
<1>4. ToDo = {} /\ ToDo' = {}
  BY <1>1, <1>3 DEF ToDo
<1>5. 1..keys \subseteq 1..keys'
  BY <1>1, <1>2
<1>6. SecretsTypeOK'
  BY <1>1, <1>2, <1>5 DEF SecretsInv, SecretsTypeOK, Ring
<1>7. Ids' /\ Listing'
  BY <1>1, <1>4 DEF SecretsInv, Ids, Listing, There
<1>8. Rotating'
  BY <1>1, <1>3 DEF Rotating
<1>9. Promoted' /\ env'.primary = keys + 1 /\ env'.old = {env.primary}
  BY <1>1 DEF Promoted
<1>10. Rings'
  <2>1. \A s \in Servers : keyring'[s] = env /\ keys + 1 \notin Keys(keyring'[s])
    BY <1>1, <1>2 DEF AllRestarted, Keys, Ring
  <2>2. env.primary \in 1..keys'
    BY <1>2, <1>5 DEF Ring
  <2> QED BY <1>1, <1>9, <2>1, <2>2 DEF Rings, Keys
<1>11. RotationKeeps'
  <2>1. Keys([env EXCEPT !.old = @ \cup dropped]) \subseteq Keys([env' EXCEPT !.old = @ \cup dropped'])
    BY <1>1, <1>3, <1>2 DEF Keys, Ring
  <2> QED BY <1>1, <2>1 DEF SecretsInv, RotationKeeps, Opens
<1> QED BY <1>6, <1>7, <1>8, <1>10, <1>11 DEF SecretsInv

LEMMA RotateKeeps ==
  ASSUME SecretsInv, RotateKeys
  PROVE  SecretsInv'
<1>1. PICK order \in SetToSeqs({secrets[r] : r \in {q \in Refs : There(q)}}) :
        pass' = [state |-> "running", todo |-> order]
  BY DEF RotateKeys, There
<1>2. /\ Promoted /\ AllRestarted /\ passes' = passes + 1
      /\ UNCHANGED <<secrets, env, keyring, puts, overwritten, keys, dropped>>
  BY DEF RotateKeys
<1>3. ToDo' = {secrets[r] : r \in {q \in Refs : There(q)}}
  BY <1>1, ListingDone DEF ToDo
<1>4. order \in Seq(SecretRow)
  <2> DEFINE All == {secrets[r] : r \in {q \in Refs : There(q)}}
  <2>1. All \subseteq SecretRow
    BY DEF SecretsInv, SecretsTypeOK
  <2>2. order \in [1..Cardinality(All) -> All]
    BY DEF SetToSeqs
  <2>3. Cardinality(All) \in Nat
    BY ListedFinite
  <2> HIDE DEF All
  <2> QED BY <2>1, <2>2, <2>3
<1>5. SecretsTypeOK'
  BY <1>1, <1>2, <1>4 DEF SecretsInv, SecretsTypeOK, Ring
<1>6. Ids'
  BY <1>2, <1>3 DEF SecretsInv, Ids, There
<1>7. Listing'
  <2> SUFFICES ASSUME NEW e \in ToDo', NEW r \in Refs, Kept(r)', secrets'[r].id = e.id
               PROVE  secrets[r] = e
    BY <1>2 DEF Listing
  <2> QED BY <1>2, <1>3 DEF SecretsInv, Ids, Kept, There
<1>8. Rotating'
  BY <1>1, <1>2, <1>3 DEF Rotating, Promoted, AllRestarted, Kept, There
<1>9. Rings' /\ RotationKeeps'
  BY <1>2 DEF SecretsInv, Rings, RotationKeeps, Promoted
<1> QED BY <1>5, <1>6, <1>7, <1>8, <1>9 DEF SecretsInv

\* The first of the listing, and the others.
LEMMA FirstListed ==
  ASSUME SecretsTypeOK, pass.todo # <<>>, pass' = Rest
  PROVE  /\ Listed \in SecretRow /\ pass'.state = pass.state /\ pass'.todo \in Seq(SecretRow)
         /\ pass' \in [state : {"none", "running", "failed", "done"}, todo : Seq(SecretRow)]
         /\ ToDo = ToDo' \cup {Listed}
<1>1. pass.todo \in Seq(SecretRow)
  BY DEF SecretsTypeOK
<1>2. pass'.todo = Tail(pass.todo) /\ pass'.state = pass.state
  BY DEF Rest, SecretsTypeOK
<1>3. pass' \in [state : {"none", "running", "failed", "done"}, todo : Seq(SecretRow)]
  <2>1. Tail(pass.todo) \in Seq(SecretRow)
    BY <1>1
  <2> QED BY <1>1, <2>1 DEF Rest, SecretsTypeOK
<1>4. Len(pass.todo) \in Nat \ {0} /\ Len(Tail(pass.todo)) = Len(pass.todo) - 1
      /\ \A i \in 1..Len(Tail(pass.todo)) : Tail(pass.todo)[i] = pass.todo[i + 1]
  BY <1>1
<1>5. Listed = pass.todo[1] /\ Listed \in SecretRow
  BY <1>1 DEF Listed
<1>6. ToDo' \subseteq ToDo /\ Listed \in ToDo
  BY <1>2, <1>4, <1>5 DEF ToDo
<1>7. ASSUME NEW i \in 1..Len(pass.todo), i # 1 PROVE pass.todo[i] \in ToDo'
  <2>1. i - 1 \in 1..Len(Tail(pass.todo)) /\ Tail(pass.todo)[i - 1] = pass.todo[(i - 1) + 1]
    BY <1>4, <1>7
  <2>2. (i - 1) + 1 = i
    OBVIOUS
  <2> QED BY <1>2, <2>1, <2>2 DEF ToDo
<1>8. ToDo \subseteq ToDo' \cup {Listed}
  BY <1>5, <1>7 DEF ToDo
<1> QED BY <1>1, <1>2, <1>3, <1>4, <1>5, <1>6, <1>8

LEMMA RewrapKeeps ==
  ASSUME SecretsInv, Rewrap
  PROVE  SecretsInv'
<1>1. PICK r \in Refs :
        /\ secrets[r].id = Listed.id
        /\ secrets' = [secrets EXCEPT ![r] = [secrets[r] EXCEPT !.wrapped = Listed.wrapped, !.key = env.primary]]
  BY DEF Rewrap
<1>2. /\ pass.state = "running" /\ pass.todo # <<>> /\ pass' = Rest
      /\ UNCHANGED <<env, keyring, puts, passes, overwritten, keys, dropped>>
  BY DEF Rewrap
<1>3. /\ SecretsTypeOK /\ Listed \in SecretRow /\ pass'.state = "running"
      /\ pass' \in [state : {"none", "running", "failed", "done"}, todo : Seq(SecretRow)]
      /\ ToDo = ToDo' \cup {Listed}
  BY <1>2, FirstListed DEF SecretsInv
<1>4. There(r) /\ Listed.id \in 1..puts
  BY <1>1, <1>3 DEF SecretsInv, Ids, There, Absent, SecretsTypeOK
<1> DEFINE row == [secrets[r] EXCEPT !.wrapped = Listed.wrapped, !.key = env.primary]
<1>5. secrets' = [secrets EXCEPT ![r] = row]
  BY <1>1
<1>15. secrets[r] \in SecretRow /\ env.primary \in Nat
  BY <1>3 DEF SecretsTypeOK, Ring
<1>16. /\ row \in SecretRow
      /\ row.id = secrets[r].id /\ row.wrapped = Listed.wrapped /\ row.key = env.primary
      /\ row.payload = secrets[r].payload
  BY <1>3, <1>15 DEF SecretRow
<1> HIDE DEF row
<1>6. secrets'[r] = row /\ \A q \in Refs : q # r => secrets'[q] = secrets[q]
  BY <1>3, <1>5, <1>16 DEF SecretsTypeOK
<1>7. \A q \in Refs : (There(q)' <=> There(q)) /\ (Kept(q)' <=> Kept(q)) /\ secrets'[q].id = secrets[q].id
  <2>1. There(r)'
    BY <1>1, <1>4, <1>5, <1>16, <1>6 DEF There, Absent
  <2> QED BY <1>2, <1>4, <1>5, <1>16, <1>6, <2>1 DEF There, Kept
<1>8. Kept(r) => secrets[r].wrapped = Listed.wrapped
  BY <1>1, <1>3 DEF SecretsInv, Listing
<1>9. SecretsTypeOK'
  BY <1>2, <1>3, <1>5, <1>16 DEF SecretsTypeOK, Ring
<1>10. Ids'
  BY <1>2, <1>3, <1>7 DEF SecretsInv, Ids
<1>11. Listing'
  <2> SUFFICES ASSUME NEW e \in ToDo', NEW q \in Refs, Kept(q)', secrets'[q].id = e.id
               PROVE  secrets'[q].wrapped = e.wrapped /\ (e.key = env.primary => secrets'[q].key = env.primary)
    BY <1>2 DEF Listing
  <2>1. e \in ToDo /\ Kept(q) /\ secrets[q].id = e.id
    BY <1>3, <1>7
  <2> QED BY <1>5, <1>16, <1>6, <1>8, <2>1 DEF SecretsInv, Listing
<1>12. Rotating'
  <2>1. ASSUME NEW q \in Refs, Kept(q)', secrets'[q].key # env.primary
        PROVE  \E e \in ToDo' : e.id = secrets'[q].id
    <3>1. q # r /\ Kept(q) /\ secrets'[q] = secrets[q]
      BY <1>5, <1>16, <1>6, <1>7, <2>1
    <3>2. PICK e \in ToDo : e.id = secrets[q].id
      BY <1>2, <2>1, <3>1 DEF SecretsInv, Rotating
    <3>3. secrets[q].id # Listed.id
      BY <1>1, <1>4, <3>1 DEF SecretsInv, Ids, Kept
    <3> QED BY <1>3, <3>1, <3>2, <3>3
  <2>2. Promoted' /\ AllRestarted'
    BY <1>2 DEF SecretsInv, Rotating, Promoted, AllRestarted
  <2> QED BY <1>2, <1>3, <2>1, <2>2 DEF Rotating
<1>13. Rings'
  BY <1>2 DEF SecretsInv, Rings, Promoted
<1>14. RotationKeeps'
  <2>1. Kept(r) => Opens(row, [env EXCEPT !.old = @ \cup dropped])
    <3>1. Kept(r) => secrets[r].wrapped = secrets[r].payload
      BY DEF SecretsInv, RotationKeeps, Kept, There, Opens
    <3>2. env.primary \in Keys([env EXCEPT !.old = @ \cup dropped])
      BY <1>3 DEF Keys, SecretsTypeOK, Ring
    <3> QED BY <1>5, <1>16, <1>8, <3>1, <3>2 DEF Opens
  <2> QED BY <1>2, <1>6, <1>7, <2>1 DEF SecretsInv, RotationKeeps, Kept, There
<1> QED BY <1>9, <1>10, <1>11, <1>12, <1>13, <1>14 DEF SecretsInv

LEMMA SkipKeeps ==
  ASSUME SecretsInv, Skip
  PROVE  SecretsInv'
<1>1. /\ pass.state = "running" /\ pass.todo # <<>> /\ pass' = Rest /\ Listed.key = env.primary
      /\ UNCHANGED <<secrets, env, keyring, puts, passes, overwritten, keys, dropped>>
  BY DEF Skip
<1>2. /\ SecretsTypeOK /\ pass'.state = "running" /\ ToDo = ToDo' \cup {Listed}
      /\ pass' \in [state : {"none", "running", "failed", "done"}, todo : Seq(SecretRow)]
  BY <1>1, FirstListed DEF SecretsInv
<1>3. SecretsTypeOK'
  BY <1>1, <1>2 DEF SecretsTypeOK, Ring
<1>4. \A q \in Refs : (There(q)' <=> There(q)) /\ (Kept(q)' <=> Kept(q))
  BY <1>1 DEF There, Kept
<1>5. Ids' /\ Listing' /\ Rings' /\ RotationKeeps'
  <2>1. Ids' /\ Listing'
    BY <1>1, <1>2, <1>4 DEF SecretsInv, Ids, Listing
  <2>2. Rings' /\ RotationKeeps'
    BY <1>1 DEF SecretsInv, Rings, RotationKeeps, Promoted
  <2> QED BY <2>1, <2>2
<1>6. Rotating'
  <2>1. ASSUME NEW q \in Refs, Kept(q), secrets[q].key # env.primary
        PROVE  \E e \in ToDo' : e.id = secrets[q].id
    <3>1. PICK e \in ToDo : e.id = secrets[q].id
      BY <1>1, <2>1 DEF SecretsInv, Rotating
    <3>2. e # Listed
      BY <1>1, <2>1, <3>1 DEF SecretsInv, Listing
    <3> QED BY <1>2, <3>1, <3>2
  <2>2. Promoted' /\ AllRestarted'
    BY <1>1 DEF SecretsInv, Rotating, Promoted, AllRestarted
  <2> QED BY <1>1, <1>2, <1>4, <2>1, <2>2 DEF Rotating
<1> QED BY <1>3, <1>5, <1>6 DEF SecretsInv

LEMMA PassEmpty ==
  ASSUME NEW s \in {"none", "running", "failed", "done"}
  PROVE  [state |-> s, todo |-> <<>>] \in [state : {"none", "running", "failed", "done"}, todo : Seq(SecretRow)]
<1>1. <<>> \in Seq(SecretRow)
  OBVIOUS
<1> QED BY <1>1

\* The pass comes to an end of either kind.
LEMMA EndKeeps ==
  ASSUME SecretsInv, RotateFails \/ RotateEnds
  PROVE  SecretsInv'
<1>1. /\ pass.state = "running" /\ pass'.todo = <<>> /\ pass'.state \in {"failed", "done"}
      /\ pass'.state = "done" => pass.todo = <<>>
      /\ UNCHANGED <<secrets, env, keyring, puts, passes, overwritten, keys, dropped>>
  BY DEF RotateFails, RotateEnds
<1>7. pass' \in [state : {"none", "running", "failed", "done"}, todo : Seq(SecretRow)]
  <2>1. \E t \in {"none", "running", "failed", "done"} : pass' = [state |-> t, todo |-> <<>>]
    BY DEF RotateFails, RotateEnds
  <2> QED BY <2>1, PassEmpty
<1>2. ToDo' = {} /\ (pass'.state = "done" => ToDo = {})
  BY <1>1 DEF ToDo
<1>3. SecretsTypeOK'
  BY <1>1, <1>7 DEF SecretsInv, SecretsTypeOK, Ring
<1>4. \A q \in Refs : (There(q)' <=> There(q)) /\ (Kept(q)' <=> Kept(q))
  BY <1>1 DEF There, Kept
<1>5. Ids' /\ Listing' /\ Rings' /\ RotationKeeps'
  BY <1>1, <1>2, <1>4 DEF SecretsInv, Ids, Listing, Rings, RotationKeeps, Promoted
<1>6. Rotating'
  BY <1>1, <1>2, <1>4 DEF SecretsInv, Rotating, Promoted, AllRestarted
<1> QED BY <1>3, <1>5, <1>6 DEF SecretsInv

LEMMA DropKeeps ==
  ASSUME SecretsInv, DropOld
  PROVE  SecretsInv'
<1>1. /\ pass.state = "done" /\ pass' = NoPass /\ env' = [env EXCEPT !.old = {}]
      /\ UNCHANGED <<secrets, keyring, puts, passes, overwritten, keys, dropped>>
  BY DEF DropOld
<1>2. /\ AllRestarted /\ ToDo = {} /\ ToDo' = {} /\ ~Promoted'
      /\ env' \in Ring /\ env'.primary = env.primary /\ env'.old = {} /\ env \in Ring
  BY <1>1 DEF SecretsInv, Rotating, ToDo, NoPass, Promoted, SecretsTypeOK, Ring
<1>3. SecretsTypeOK'
  BY <1>1, <1>2 DEF SecretsInv, SecretsTypeOK, Ring, NoPass
<1>4. \A q \in Refs : (There(q)' <=> There(q)) /\ (Kept(q)' <=> Kept(q))
  BY <1>1 DEF There, Kept
<1>5. Ids' /\ Listing'
  BY <1>1, <1>2, <1>4 DEF SecretsInv, Ids, Listing
<1>6. Rotating'
  BY <1>1 DEF Rotating, NoPass
<1>7. Rings'
  BY <1>1, <1>2 DEF Rings, AllRestarted, Keys
<1>8. RotationKeeps'
  <2>1. \A q \in Refs : Kept(q) => secrets[q].key = env.primary /\ secrets[q].wrapped = secrets[q].payload
    BY <1>1, <1>2 DEF SecretsInv, Rotating, RotationKeeps, Kept, There, Opens
  <2>2. env.primary \in Keys([env' EXCEPT !.old = @ \cup dropped'])
    BY <1>2 DEF Keys, Ring
  <2> QED BY <1>1, <1>4, <2>1, <2>2 DEF RotationKeeps, Kept, There, Opens
<1> QED BY <1>3, <1>5, <1>6, <1>7, <1>8 DEF SecretsInv

LEMMA RestoreKeeps ==
  ASSUME SecretsInv, RestoreEnv
  PROVE  SecretsInv'
<1>1. /\ pass.state = "failed" /\ pass' = NoPass /\ AllRestarted
      /\ env' = [primary |-> CHOOSE k \in env.old : TRUE, old |-> {}]
      /\ dropped' = dropped \cup {env.primary}
      /\ UNCHANGED <<secrets, keyring, puts, passes, overwritten, keys>>
  BY DEF RestoreEnv
<1>2. PICK k \in 1..keys : env.old = {k}
  BY <1>1 DEF SecretsInv, Rotating, Rings, Promoted
<1>3. /\ env'.primary = k /\ env'.old = {} /\ env' \in Ring /\ env \in Ring
      /\ ToDo' = {} /\ ~Promoted'
  BY <1>1, <1>2 DEF SecretsInv, SecretsTypeOK, Ring, ToDo, NoPass, Promoted
<1>4. SecretsTypeOK'
  <2>1. pass' \in [state : {"none", "running", "failed", "done"}, todo : Seq(SecretRow)]
    BY <1>1, PassEmpty DEF NoPass
  <2>2. dropped' \subseteq 1..keys
    BY <1>1, <1>3 DEF SecretsInv, SecretsTypeOK, Ring
  <2> QED BY <1>1, <1>3, <2>1, <2>2 DEF SecretsInv, SecretsTypeOK, Ring
<1>5. Ids' /\ Listing'
  BY <1>1, <1>3 DEF SecretsInv, Ids, Listing, There
<1>6. Rotating'
  BY <1>1 DEF Rotating, NoPass
<1>7. Rings'
  BY <1>1, <1>3 DEF Rings, AllRestarted
<1>8. RotationKeeps'
  <2>1. Keys([env EXCEPT !.old = @ \cup dropped]) \subseteq Keys([env' EXCEPT !.old = @ \cup dropped'])
    BY <1>1, <1>2, <1>3 DEF Keys, Ring
  <2> QED BY <1>1, <2>1 DEF SecretsInv, RotationKeeps, Opens
<1> QED BY <1>4, <1>5, <1>6, <1>7, <1>8 DEF SecretsInv

LEMMA NextSecrets == SecretsInv /\ [SecretsNext]_secretVars => SecretsInv'
<1> SUFFICES ASSUME SecretsInv, [SecretsNext]_secretVars PROVE SecretsInv'
  OBVIOUS
<1>1. CASE UNCHANGED secretVars
  <2>1. UNCHANGED <<secrets, env, keyring, pass, keys, dropped, puts, passes, overwritten>>
    BY <1>1 DEF secretVars
  <2>2. \A q \in Refs : (There(q)' <=> There(q)) /\ (Kept(q)' <=> Kept(q))
    BY <2>1 DEF There, Kept
  <2>3. ToDo' = ToDo /\ Ring' = Ring
    BY <2>1 DEF ToDo, Ring
  <2>4. SecretsTypeOK'
    BY <2>1, <2>3 DEF SecretsInv, SecretsTypeOK
  <2>5. Ids' /\ Listing'
    BY <2>1, <2>2, <2>3 DEF SecretsInv, Ids, Listing
  <2>6. Rotating' /\ Rings' /\ RotationKeeps'
    BY <2>1, <2>2, <2>3 DEF SecretsInv, Rotating, Rings, RotationKeeps, Promoted, AllRestarted
  <2> QED BY <2>4, <2>5, <2>6 DEF SecretsInv
<1> QED BY <1>1, PutKeeps, ForgetKeeps, RestartKeeps, PromoteKeeps, RotateKeeps, RewrapKeeps, SkipKeeps,
           EndKeeps, DropKeeps, RestoreKeeps DEF SecretsNext

\* Every secret stays readable, however often a pass of the rotation is cut
\* short and whatever is written and deleted meanwhile: under the keys of the
\* environment, and by every server that knows its primary key.
THEOREM SecretsReadable == SecretsSpec => []SecretsStay
<1>1. SecretsInv => SecretsStay
  <2> SUFFICES ASSUME SecretsInv PROVE ServersRead
    BY DEF SecretsInv, SecretsStay
  <2> SUFFICES ASSUME NEW s \in Servers, NEW r \in Refs \ overwritten, There(r),
                      env.primary \in Keys(keyring[s]), dropped = {}
               PROVE  Opens(secrets[r], keyring[s])
    BY DEF ServersRead, There
  <2>1. Opens(secrets[r], env)
    BY DEF SecretsInv, SecretsTypeOK, Ring, RotationKeeps, There, Opens, Keys
  <2>2. CASE Promoted
    BY <2>1, <2>2 DEF SecretsInv, Rings
  <2>3. CASE ~Promoted
    BY <2>1, <2>3 DEF Promoted, Opens, Keys
  <2> QED BY <2>2, <2>3
<1> QED BY <1>1, InitSecrets, NextSecrets, PTL DEF SecretsSpec

---------------------------------------------------------------------------
(* Previews.  What a transaction sees is what its statements made of the   *)
(* table, and nothing of it is committed, because what would be committed  *)
(* is refused before anything runs.                                        *)

\* The least of a set of naturals.
LEMMA LowestOf ==
  ASSUME NEW T, T \subseteq Nat, T # {}
  PROVE  \E p \in T : \A q \in T : p <= q
<1> DEFINE Less == {ss \in Nat \X Nat : ss[1] < ss[2]}
<1>1. IsWellFoundedOn(Less, Nat)
  BY NatLessThanWellFounded DEF OpToRel
<1> HIDE DEF Less
<1>2. PICK p \in T : \A q \in T : <<q, p>> \notin Less
  BY <1>1, WFMin
<1>3. ASSUME NEW q \in T PROVE p <= q
  <2>1. p \in Nat /\ q \in Nat
    OBVIOUS
  <2>2. q < p => <<q, p>> \in Less
    BY <2>1 DEF Less
  <2> QED BY <1>2, <2>1, <2>2
<1> QED BY <1>3

PreviewSample == [on : BOOLEAN, rows : SUBSET PreviewKeys, table : Tables, truncated : BOOLEAN]
PreviewRow == [key : PreviewKeys, was : Values \cup {0}, is : Values \cup {0}]
PreviewResult ==
  [count : Nat, touched : SUBSET PreviewKeys, was : Tables, is : Tables, sample : PreviewSample, rows : SUBSET PreviewRow]

PreviewTypeOK ==
  /\ committed \in Tables /\ mine \in Tables /\ changed \subseteq PreviewKeys
  /\ snapshot # <<>> => snapshot[1] \in Tables
  /\ script \in Seq(Statement) /\ at \in 1..Len(script)
  /\ step \in {"check", "refused", "before", "run", "after", "rollback", "failed", "error", "done"}
  /\ before \in PreviewSample
  /\ results \in Seq(PreviewResult)
  /\ commits \in Nat

\* What runs has been checked.
ScriptIsHarmless ==
  step \notin {"check", "refused"} => storage # "myisam" /\ \A i \in 1..Len(script) : script[i].kind = "dml"

\* There is a result for each statement behind the preview.
ResultsSoFar ==
  /\ step \in {"check", "refused", "before", "run"} => Len(results) = at - 1
  /\ step = "after" => Len(results) = at

ResultsAreSteps ==
  \A i \in 1..Len(results) :
    /\ results[i].is = After(results[i].was, script[i])
    /\ results[i].touched = Touched(results[i].was, script[i])
    /\ results[i].count = Cardinality(Touched(results[i].was, script[i]))

\* A sample is of rows that the statement will find.
SampleIsOfStatement ==
  /\ step = "after" => before.on
  /\ step \in {"run", "after"} /\ before.on => Recognised(script[at]) /\ before.rows \subseteq Matching(before.table, script[at])

\* The table after n results, when nobody else changes it.
TableAfter(n) == IF n = 0 THEN committed ELSE results[n].is

\* While nobody else changes the table, the transaction sees what its last
\* statement left, and so do the samples.
ResultsFollow == commits = 0 => \A i \in 1..Len(results) : results[i].was = TableAfter(i - 1)
NowIsLast == commits = 0 /\ step \in {"check", "before", "run", "after"} => Now = TableAfter(Len(results))
ReadsNow == commits = 0 /\ snapshot # <<>> => snapshot[1] = committed
SampleIsNow ==
  commits = 0 /\ before.on =>
    /\ step = "run" => before.table = Now
    /\ step = "after" => before.table = results[Len(results)].was

PreviewsInv ==
  /\ PreviewTypeOK /\ NothingSaved /\ ScriptIsHarmless /\ ResultsSoFar /\ ResultsAreSteps /\ SampleIsOfStatement
  /\ ResultsFollow /\ NowIsLast /\ ReadsNow /\ SampleIsNow /\ SamplesAreReal

LEMMA EmptyIsTable == Empty \in Tables /\ NoSample \in PreviewSample /\ ~NoSample.on
BY DEF Empty, Tables, NoSample, PreviewSample

LEMMA InitPreviews ==
  ASSUME PreviewsAssumption, PreviewInit
  PROVE  PreviewsInv
<1>1. /\ committed \in Tables /\ real = committed /\ script \in Scripts /\ at = 1 /\ step = "check"
      /\ mine = Empty /\ changed = {} /\ snapshot = <<>> /\ before = NoSample /\ results = <<>> /\ commits = 0
  BY DEF PreviewInit
<1>2. script \in Seq(Statement) /\ script # <<>> /\ Len(script) \in Nat
  BY <1>1 DEF PreviewsAssumption
<1>3. results \in Seq(PreviewResult) /\ Len(results) = 0 /\ 1..Len(results) = {} /\ DOMAIN results = {}
  BY <1>1
<1>4. PreviewTypeOK
  BY <1>1, <1>2, <1>3, EmptyIsTable DEF PreviewTypeOK
<1>5. Now = committed
  <2>1. Now = [k \in PreviewKeys |-> committed[k]]
    BY <1>1 DEF Now, Current
  <2> QED BY <1>1, <2>1 DEF Tables
<1>6. NothingSaved /\ ScriptIsHarmless /\ ResultsSoFar /\ SampleIsOfStatement /\ ReadsNow /\ SampleIsNow
  BY <1>1, <1>3, EmptyIsTable DEF NothingSaved, ScriptIsHarmless, ResultsSoFar, SampleIsOfStatement, ReadsNow, SampleIsNow
<1>7. ResultsAreSteps /\ ResultsFollow /\ SamplesAreReal
  BY <1>3 DEF ResultsAreSteps, ResultsFollow, SamplesAreReal
<1>8. NowIsLast
  BY <1>3, <1>5 DEF NowIsLast, TableAfter
<1> QED BY <1>4, <1>6, <1>7, <1>8 DEF PreviewsInv

LEMMA TouchedRows ==
  ASSUME PreviewsAssumption, NEW table \in Tables, NEW s \in Statement
  PROVE  /\ Touched(table, s) \in SUBSET PreviewKeys
         /\ Cardinality(Touched(table, s)) \in Nat
         /\ After(table, s) \in Tables
<1>1. Touched(table, s) \in SUBSET PreviewKeys
  <2>1. Matching(table, s) \subseteq PreviewKeys
    BY DEF Matching
  <2>2. CASE s.limited /\ Matching(table, s) # {}
    <3>1. Matching(table, s) \subseteq Nat
      BY <2>1 DEF PreviewsAssumption
    <3>2. \E p \in Matching(table, s) : \A q \in Matching(table, s) : p <= q
      BY <2>2, <3>1, LowestOf
    <3>3. Min(Matching(table, s)) \in Matching(table, s)
      BY <3>2 DEF Min
    <3> QED BY <2>1, <2>2, <3>3 DEF Touched
  <2>3. CASE ~(s.limited /\ Matching(table, s) # {})
    BY <2>1, <2>3 DEF Touched
  <2> QED BY <2>2, <2>3
<1>2. Cardinality(Touched(table, s)) \in Nat
  BY <1>1, FS_Subset, FS_CardinalityType DEF PreviewsAssumption
<1>3. s.set \in Values /\ s.match \in Values /\ \A k \in PreviewKeys : table[k] \in Values \cup {0}
  BY DEF Statement, Tables
<1>4. After(table, s) \in Tables
  BY <1>3 DEF After, Tables
<1> QED BY <1>1, <1>2, <1>4

LEMMA NowIsTable ==
  ASSUME PreviewTypeOK
  PROVE  Now \in Tables /\ View \in Tables
<1>1. \A k \in PreviewKeys : Current(k) \in Values \cup {0}
  BY DEF PreviewTypeOK, Current, Tables
<1>2. \A k \in PreviewKeys : Seen(k) \in Values \cup {0}
  BY DEF PreviewTypeOK, Seen, Tables
<1> QED BY <1>1, <1>2 DEF Now, View, Tables

\* A preview that ends, with what it has shown.
LEMMA PreviewEnds ==
  ASSUME PreviewsAssumption, PreviewsInv, UNCHANGED <<committed, real, commits, results, storage, script, at>>,
         step' \in {"failed", "error", "done"}, step \notin {"check", "refused"}, before' \in {before, NoSample},
         Aborted \/ UNCHANGED <<mine, changed, snapshot>>
  PROVE  PreviewsInv'
<1> USE DEF PreviewsInv
<1>1. PreviewTypeOK'
  BY EmptyIsTable DEF PreviewTypeOK, Aborted
<1>2. NothingSaved' /\ ScriptIsHarmless' /\ ResultsSoFar' /\ ResultsAreSteps' /\ SampleIsOfStatement'
  BY DEF NothingSaved, ScriptIsHarmless, ResultsSoFar, ResultsAreSteps, SampleIsOfStatement
<1>3. ResultsFollow' /\ NowIsLast' /\ SampleIsNow' /\ SamplesAreReal'
  BY DEF ResultsFollow, TableAfter, NowIsLast, SampleIsNow, SamplesAreReal
<1>4. ReadsNow'
  BY DEF ReadsNow, Aborted
<1> QED BY <1>1, <1>2, <1>3, <1>4

LEMMA CheckKeeps ==
  ASSUME PreviewsAssumption, PreviewsInv, Check
  PROVE  PreviewsInv'
<1> USE DEF PreviewsInv
<1>1. /\ UNCHANGED <<committed, real, commits, results, storage, script, at, mine, changed, snapshot, before>>
      /\ step = "check"
      /\ step' = IF CannotRollBack \/ (\E i \in DOMAIN script : Blocked(script[i])) THEN "refused" ELSE "before"
  BY DEF Check, NoCommit, Quiet
<1>2. step' = "before" => storage # "myisam" /\ \A i \in 1..Len(script) : script[i].kind = "dml"
  <2>1. DOMAIN script = 1..Len(script) /\ \A i \in 1..Len(script) : script[i] \in Statement
    BY DEF PreviewTypeOK
  <2>2. \A i \in 1..Len(script) : script[i].kind \in {"dml", "ddl"}
    BY <2>1 DEF Statement
  <2> QED BY <1>1, <2>1, <2>2 DEF CannotRollBack, Blocked
<1>3. PreviewTypeOK' /\ NothingSaved' /\ ResultsSoFar' /\ ResultsAreSteps' /\ SampleIsOfStatement'
  BY <1>1 DEF PreviewTypeOK, NothingSaved, ResultsSoFar, ResultsAreSteps, SampleIsOfStatement
<1>4. ScriptIsHarmless'
  BY <1>1, <1>2 DEF ScriptIsHarmless
<1>5. ResultsFollow' /\ NowIsLast' /\ SampleIsNow' /\ SamplesAreReal' /\ ReadsNow'
  BY <1>1 DEF ResultsFollow, TableAfter, NowIsLast, SampleIsNow, SamplesAreReal, ReadsNow, Now, Current
<1> QED BY <1>3, <1>4, <1>5

LEMMA NoOneElseReads ==
  ASSUME PreviewsInv, commits = 0
  PROVE  View = Now
<1>1. \A k \in PreviewKeys : Seen(k) = Current(k)
  BY DEF PreviewsInv, ReadsNow, Seen, Current
<1> QED BY <1>1 DEF View, Now

LEMMA SampleKeeps ==
  ASSUME PreviewsAssumption, PreviewsInv, Sample \/ SampleFails
  PROVE  PreviewsInv'
<1> USE DEF PreviewsInv
<1>1. /\ UNCHANGED <<committed, real, commits, results, storage, script, at, mine, changed>>
      /\ step = "before" /\ step' = "run"
      /\ snapshot' \in {snapshot, <<committed>>} /\ (snapshot' # snapshot => snapshot = <<>>)
  BY DEF Sample, SampleFails, NoCommit, Quiet
<1>2. \/ before' = NoSample
      \/ /\ Recognised(script[at])
         /\ \E rows \in SUBSET Matching(View, script[at]), truncated \in BOOLEAN :
              before' = [on |-> TRUE, rows |-> rows, table |-> View, truncated |-> truncated]
  <2>1. CASE SampleFails \/ ~Recognised(script[at])
    BY <2>1 DEF Sample, SampleFails, S
  <2>2. CASE Sample /\ Recognised(script[at])
    <3>1. PICK rows \in Sampled(Matching(View, script[at])) :
            before' = [on |-> TRUE, rows |-> rows, table |-> View, truncated |-> Cardinality(Matching(View, script[at])) > SampleRows]
      BY <2>2 DEF Sample, S
    <3>2. PICK truncated \in BOOLEAN : truncated = (Cardinality(Matching(View, script[at])) > SampleRows)
      <4>1. IsFiniteSet(Matching(View, script[at]))
        BY FS_Subset DEF PreviewsAssumption, Matching
      <4> DEFINE c == Cardinality(Matching(View, script[at]))
      <4>2. c \in Nat /\ SampleRows \in Nat
        BY <4>1, FS_CardinalityType DEF PreviewsAssumption
      <4> HIDE DEF c
      <4>3. (c > SampleRows) \in BOOLEAN
        BY <4>2
      <4>4. \E truncated \in BOOLEAN : truncated = (c > SampleRows)
        BY <4>3, Zenon
      <4> QED BY <4>4 DEF c
    <3>3. before' = [on |-> TRUE, rows |-> rows, table |-> View, truncated |-> truncated]
      BY <3>1, <3>2
    <3>4. rows \in SUBSET Matching(View, script[at])
      BY DEF Sampled
    <3> QED BY <2>2, <3>3, <3>4
  <2> QED BY <2>1, <2>2
<1>3. /\ before' \in PreviewSample
      /\ before'.on => /\ Recognised(script[at]) /\ before'.rows \subseteq Matching(before'.table, script[at])
                       /\ before'.table = View
  <2>1. CASE before' = NoSample
    BY <2>1, EmptyIsTable
  <2>2. CASE before' # NoSample
    <3>1. PICK rows \in SUBSET Matching(View, script[at]), truncated \in BOOLEAN :
                 before' = [on |-> TRUE, rows |-> rows, table |-> View, truncated |-> truncated]
      BY <1>2, <2>2
    <3>2. View \in Tables /\ rows \subseteq PreviewKeys
      BY NowIsTable DEF Matching
    <3>3. before' \in PreviewSample
      BY <3>1, <3>2 DEF PreviewSample
    <3>4. before'.rows = rows /\ before'.table = View
      BY <3>1
    <3> QED BY <1>2, <2>2, <3>3, <3>4
  <2> QED BY <2>1, <2>2
<1>4. PreviewTypeOK'
  BY <1>1, <1>3 DEF PreviewTypeOK
<1>5. NothingSaved' /\ ScriptIsHarmless' /\ ResultsSoFar' /\ ResultsAreSteps'
  BY <1>1 DEF NothingSaved, ScriptIsHarmless, ResultsSoFar, ResultsAreSteps
<1>6. SampleIsOfStatement'
  BY <1>1, <1>3 DEF SampleIsOfStatement
<1>7. Now' = Now
  BY <1>1 DEF Now, Current
<1>8. ResultsFollow' /\ SamplesAreReal'
  BY <1>1 DEF ResultsFollow, TableAfter, SamplesAreReal
<1>9. NowIsLast'
  BY <1>1, <1>7 DEF NowIsLast, TableAfter
<1>10. ReadsNow'
  BY <1>1 DEF ReadsNow
<1>11. SampleIsNow'
  BY <1>1, <1>3, <1>7, NoOneElseReads DEF SampleIsNow
<1> QED BY <1>4, <1>5, <1>6, <1>8, <1>9, <1>10, <1>11

LEMMA RunKeeps ==
  ASSUME PreviewsAssumption, PreviewsInv, Run
  PROVE  PreviewsInv'
<1> USE DEF PreviewsInv
<1> DEFINE n == Len(results)
           s == script[at]
           after == After(Now, s)
           rows == {k \in PreviewKeys : after[k] # Now[k]} \cup Touched(Now, s)
           new == [count |-> Cardinality(Touched(Now, s)), touched |-> Touched(Now, s), was |-> Now, is |-> after,
                   sample |-> before, rows |-> {}]
<1>1. step = "run" /\ at \in 1..Len(script) /\ Len(script) \in Nat /\ n = at - 1 /\ n \in Nat
  BY DEF Run, PreviewTypeOK, ResultsSoFar
<1>2. s \in Statement /\ s.kind = "dml" /\ storage # "myisam"
  BY <1>1 DEF PreviewTypeOK, ScriptIsHarmless
<1>3. /\ results' = Append(results, new)
      /\ UNCHANGED <<committed, snapshot, before, real, commits, dbms, storage, script>>
      /\ mine' = [k \in PreviewKeys |-> IF k \in rows THEN after[k] ELSE mine[k]]
      /\ changed' = changed \cup rows
      /\ step' = (IF before.on THEN "after" ELSE IF at < Len(script) THEN "before" ELSE "rollback")
      /\ at' = (IF before.on \/ at = Len(script) THEN at ELSE at + 1)
  BY <1>2 DEF Run, S, Quiet
<1>4. Now \in Tables /\ after \in Tables /\ Touched(Now, s) \in SUBSET PreviewKeys /\ Cardinality(Touched(Now, s)) \in Nat
  BY <1>2, NowIsTable, TouchedRows
<1> HIDE DEF s, after
<1>5. new \in PreviewResult
  BY <1>4 DEF PreviewResult, PreviewTypeOK
<1>6. /\ new.was = Now /\ new.is = after /\ new.touched = Touched(Now, s)
      /\ new.count = Cardinality(Touched(Now, s)) /\ new.rows = {}
  OBVIOUS
<1> HIDE DEF new
<1>7. /\ results' \in Seq(PreviewResult) /\ Len(results') = n + 1
      /\ \A i \in 1..n : results'[i] = results[i]
      /\ results'[n + 1] = new
      /\ \A i \in 1..(n + 1) : i = n + 1 \/ i \in 1..n
  BY <1>1, <1>3, <1>5 DEF PreviewTypeOK
<1>8. rows \subseteq PreviewKeys
  BY <1>4
<1>9. Now' = after
  <2>1. ASSUME NEW k \in PreviewKeys PROVE Current(k)' = after[k]
    <3>1. CASE k \in rows
      BY <1>3, <3>1 DEF Current
    <3>2. CASE k \notin rows
      <4>1. after[k] = Now[k]
        BY <3>2
      <4>2. Now[k] = Current(k)
        BY DEF Now
      <4> QED BY <1>3, <3>2, <4>1, <4>2 DEF Current
    <3> QED BY <3>1, <3>2
  <2>2. Now' = [k \in PreviewKeys |-> after[k]]
    BY <2>1 DEF Now
  <2> QED BY <1>4, <2>2 DEF Tables
<1>10. mine' \in Tables
  <2>1. \A k \in PreviewKeys : after[k] \in Values \cup {0} /\ mine[k] \in Values \cup {0}
    BY <1>4 DEF PreviewTypeOK, Tables
  <2> HIDE DEF rows
  <2> QED BY <1>3, <2>1 DEF Tables
<1> HIDE DEF rows
<1>11. PreviewTypeOK'
  BY <1>1, <1>3, <1>7, <1>8, <1>10 DEF PreviewTypeOK
<1>12. NothingSaved' /\ ScriptIsHarmless'
  BY <1>1, <1>3 DEF NothingSaved, ScriptIsHarmless
<1>13. ResultsSoFar'
  BY <1>1, <1>3, <1>7 DEF ResultsSoFar
<1>14. ResultsAreSteps'
  <2>1. n + 1 = at
    BY <1>1
  <2>2. after = After(Now, script[at])
    BY DEF after, s
  <2> QED BY <1>3, <1>6, <1>7, <2>1, <2>2 DEF ResultsAreSteps, s
<1>15. SampleIsOfStatement'
  BY <1>1, <1>3 DEF SampleIsOfStatement
<1>16. ResultsFollow'
  <2> SUFFICES ASSUME commits = 0, NEW i \in 1..(n + 1)
               PROVE  results'[i].was = TableAfter(i - 1)'
    BY <1>3, <1>7 DEF ResultsFollow
  <2>1. TableAfter(i - 1)' = TableAfter(i - 1)
    BY <1>1, <1>3, <1>7 DEF TableAfter
  <2>2. CASE i \in 1..n
    BY <1>7, <2>1, <2>2 DEF ResultsFollow
  <2>3. CASE i = n + 1
    <3>1. Now = TableAfter(n)
      BY <1>1 DEF NowIsLast
    <3>2. i - 1 = n
      BY <1>1, <2>3
    <3> QED BY <1>6, <1>7, <2>1, <2>3, <3>1, <3>2
  <2> QED BY <1>7, <2>2, <2>3
<1>17. NowIsLast'
  <2>1. TableAfter(Len(results))' = after
    BY <1>1, <1>6, <1>7 DEF TableAfter
  <2> QED BY <1>9, <2>1 DEF NowIsLast
<1>18. ReadsNow'
  BY <1>3 DEF ReadsNow
<1>19. SampleIsNow'
  BY <1>1, <1>3, <1>6, <1>7 DEF SampleIsNow
<1>20. SamplesAreReal'
  <2> SUFFICES ASSUME commits = 0, NEW i \in 1..(n + 1), NEW r \in results'[i].rows, script[i].op # "move"
               PROVE  r.key \in results'[i].touched /\ r.was = results'[i].was[r.key] /\ r.is = results'[i].is[r.key]
    <3>1. DOMAIN results' = 1..(n + 1)
      BY <1>7
    <3> QED BY <1>3, <3>1 DEF SamplesAreReal
  <2>1. i \in 1..n
    BY <1>6, <1>7
  <2>2. i \in DOMAIN results
    BY <2>1 DEF PreviewTypeOK
  <2> QED BY <1>7, <2>1, <2>2 DEF SamplesAreReal
<1> QED BY <1>11, <1>12, <1>13, <1>14, <1>15, <1>16, <1>17, <1>18, <1>19, <1>20

LEMMA PreviewAfterKeeps ==
  ASSUME PreviewsAssumption, PreviewsInv, PreviewAfter
  PROVE  PreviewsInv'
<1> USE DEF PreviewsInv
<1> DEFINE n == Len(results)
           rows == {[key |-> k, was |-> before.table[k], is |-> Seen(k)] : k \in before.rows}
<1>1. /\ step = "after" /\ before.on /\ before \in PreviewSample
      /\ at \in 1..Len(script) /\ Len(script) \in Nat /\ n = at /\ n \in 1..n /\ n \in Nat
      /\ results \in Seq(PreviewResult) /\ results[n] \in PreviewResult
      /\ script[at] \in Statement
  <2>1. step = "after" /\ before.on /\ at \in 1..Len(script) /\ Len(script) \in Nat /\ n = at /\ before \in PreviewSample
    BY DEF PreviewAfter, PreviewTypeOK, ResultsSoFar, SampleIsOfStatement
  <2>2. n \in 1..n
    BY <2>1
  <2> QED BY <2>1, <2>2 DEF PreviewTypeOK
<1>2. /\ results' = [results EXCEPT ![n].rows = rows]
      /\ UNCHANGED <<mine, changed, snapshot, committed, real, commits, dbms, storage, script>>
      /\ step' = (IF at < Len(script) THEN "before" ELSE "rollback")
      /\ at' = (IF at < Len(script) THEN at + 1 ELSE at)
      /\ before' = NoSample
  BY DEF PreviewAfter, NoCommit, Quiet
<1>3. rows \in SUBSET PreviewRow
  <2>1. \A k \in PreviewKeys : before.table[k] \in Values \cup {0}
    BY <1>1 DEF PreviewSample, Tables
  <2>2. \A k \in PreviewKeys : Seen(k) \in Values \cup {0}
    <3>1. \A k \in PreviewKeys : View[k] \in Values \cup {0}
      BY NowIsTable DEF Tables
    <3> QED BY <3>1 DEF View
  <2>3. before.rows \subseteq PreviewKeys
    BY <1>1 DEF PreviewSample
  <2>4. ASSUME NEW k \in before.rows
        PROVE  [key |-> k, was |-> before.table[k], is |-> Seen(k)] \in PreviewRow
    <3>1. k \in PreviewKeys /\ before.table[k] \in Values \cup {0} /\ Seen(k) \in Values \cup {0}
      BY <2>1, <2>2, <2>3
    <3> QED BY <3>1 DEF PreviewRow
  <2> QED BY <2>4
<1> HIDE DEF rows
<1>4. PICK new : new = [results[n] EXCEPT !.rows = rows]
  OBVIOUS
<1>5. /\ new \in PreviewResult /\ new.rows = rows /\ new.was = results[n].was /\ new.is = results[n].is
      /\ new.touched = results[n].touched /\ new.count = results[n].count
  BY <1>1, <1>3, <1>4 DEF PreviewResult
<1>6. results' = [results EXCEPT ![n] = new]
  BY <1>1, <1>2, <1>4
<1>7. /\ results' \in Seq(PreviewResult) /\ Len(results') = n /\ results'[n] = new
      /\ \A i \in 1..n : i # n => results'[i] = results[i]
  BY <1>1, <1>5, <1>6
<1>8. \A i \in 1..n : /\ results'[i].was = results[i].was /\ results'[i].is = results[i].is
                      /\ results'[i].touched = results[i].touched /\ results'[i].count = results[i].count
  BY <1>5, <1>7
<1>9. PreviewTypeOK'
  BY <1>1, <1>2, <1>7, EmptyIsTable DEF PreviewTypeOK
<1>10. NothingSaved' /\ ScriptIsHarmless' /\ SampleIsOfStatement' /\ ReadsNow' /\ SampleIsNow'
  BY <1>1, <1>2, EmptyIsTable DEF NothingSaved, ScriptIsHarmless, SampleIsOfStatement, ReadsNow, SampleIsNow
<1>11. ResultsSoFar'
  BY <1>1, <1>2, <1>7 DEF ResultsSoFar
<1>12. ResultsAreSteps'
  BY <1>2, <1>7, <1>8 DEF ResultsAreSteps
<1>13. ResultsFollow'
  <2> SUFFICES ASSUME commits = 0, NEW i \in 1..n
               PROVE  results'[i].was = TableAfter(i - 1)'
    BY <1>2, <1>7 DEF ResultsFollow
  <2>1. TableAfter(i - 1)' = TableAfter(i - 1)
    BY <1>1, <1>2, <1>8 DEF TableAfter
  <2> QED BY <1>8, <2>1 DEF ResultsFollow
<1>14. NowIsLast'
  <2>1. TableAfter(Len(results))' = TableAfter(n)
    BY <1>1, <1>2, <1>7, <1>8 DEF TableAfter
  <2>2. Now' = Now
    BY <1>2 DEF Now, Current
  <2> QED BY <1>1, <1>2, <2>1, <2>2 DEF NowIsLast
<1>15. SamplesAreReal'
  <2> SUFFICES ASSUME commits = 0, NEW i \in 1..n, NEW r \in results'[i].rows, script[i].op # "move"
               PROVE  r.key \in results'[i].touched /\ r.was = results'[i].was[r.key] /\ r.is = results'[i].is[r.key]
    <3>1. DOMAIN results' = 1..n
      BY <1>7
    <3> QED BY <1>2, <3>1 DEF SamplesAreReal
  <2>1. CASE i # n
    <3>1. i \in DOMAIN results
      BY <1>1
    <3> QED BY <1>7, <2>1, <3>1 DEF SamplesAreReal
  <2>2. CASE i = n
    <3>1. PICK k \in before.rows : r = [key |-> k, was |-> before.table[k], is |-> Seen(k)]
      BY <1>5, <1>7, <2>2 DEF rows
    <3>2. r.key = k /\ r.was = before.table[k] /\ r.is = Seen(k)
      BY <3>1
    <3>3. before.table = results[n].was /\ Recognised(script[n]) /\ k \in Matching(before.table, script[n])
      BY <1>1 DEF SampleIsNow, SampleIsOfStatement
    <3>4. k \in results[n].touched
      BY <1>1, <3>3 DEF ResultsAreSteps, Touched, Recognised
    <3>5. k \in PreviewKeys
      BY <3>3 DEF Matching
    <3>6. Seen(k) = results[n].is[k]
      <4>1. Seen(k) = View[k]
        BY <3>5 DEF View
      <4>2. View = results[n].is
        BY <1>1, NoOneElseReads DEF NowIsLast, TableAfter
      <4> QED BY <4>1, <4>2
    <3> QED BY <1>5, <1>7, <2>2, <3>2, <3>3, <3>4, <3>6
  <2> QED BY <2>1, <2>2
<1> QED BY <1>9, <1>10, <1>11, <1>12, <1>13, <1>14, <1>15

LEMMA OthersKeep ==
  ASSUME PreviewsAssumption, PreviewsInv, Others
  PROVE  PreviewsInv'
<1> USE DEF PreviewsInv
<1>1. UNCHANGED <<at, step, mine, changed, snapshot, before, results, storage, script>>
  BY DEF Others, Quiet
<1>2. commits' # 0 /\ commits' \in Nat
  BY DEF Others, PreviewTypeOK
<1>3. committed' \in Tables /\ committed' = real'
  <2>1. PICK k \in PreviewKeys \ changed, v \in Values \cup {0} :
          committed' = [committed EXCEPT ![k] = v] /\ real' = [real EXCEPT ![k] = v]
    BY DEF Others
  <2> QED BY <2>1 DEF PreviewTypeOK, Tables, NothingSaved
<1>4. PreviewTypeOK' /\ NothingSaved'
  BY <1>1, <1>2, <1>3 DEF PreviewTypeOK, NothingSaved
<1>5. ScriptIsHarmless' /\ ResultsSoFar' /\ ResultsAreSteps' /\ SampleIsOfStatement'
  BY <1>1 DEF ScriptIsHarmless, ResultsSoFar, ResultsAreSteps, SampleIsOfStatement
<1>6. ResultsFollow' /\ NowIsLast' /\ ReadsNow' /\ SampleIsNow' /\ SamplesAreReal'
  BY <1>1, <1>2 DEF ResultsFollow, NowIsLast, ReadsNow, SampleIsNow, SamplesAreReal
<1> QED BY <1>4, <1>5, <1>6

LEMMA NextPreviews ==
  ASSUME PreviewsAssumption, PreviewsInv, PreviewNext \/ UNCHANGED previewVars
  PROVE  PreviewsInv'
<1>1. CASE UNCHANGED previewVars
  BY <1>1 DEF previewVars, PreviewsInv, PreviewTypeOK, NothingSaved, ScriptIsHarmless, ResultsSoFar, ResultsAreSteps,
     SampleIsOfStatement, ResultsFollow, TableAfter, NowIsLast, ReadsNow, SampleIsNow, SamplesAreReal, Now, Current
<1>2. CASE SampleDeadlocks \/ RunFails
  BY <1>2, PreviewEnds DEF SampleDeadlocks, RunFails, NoCommit, Quiet
<1>3. CASE Rollback \/ Lost
  BY <1>3, PreviewEnds DEF Rollback, Lost, NoCommit, Quiet
<1> QED BY <1>1, <1>2, <1>3, CheckKeeps, SampleKeeps, RunKeeps, PreviewAfterKeeps, OthersKeep DEF PreviewNext

\* However a preview ends, and whatever others commit meanwhile, nothing of it
\* is saved; and unless others commit, it counts and samples what the script
\* would touch, for any tables, scripts and lost connections.
THEOREM PreviewsHonest == PreviewSpec => []PreviewsAreHonest
<1>1. PreviewInit => PreviewsInv
  BY InitPreviews, PreviewsAssumption
<1>2. PreviewsInv /\ [PreviewNext]_previewVars => PreviewsInv'
  BY NextPreviews, PreviewsAssumption
<1>3. PreviewsInv => PreviewsAreHonest
  <2> SUFFICES ASSUME PreviewsInv PROVE PreviewsAreHonest
    OBVIOUS
  <2>1. CountsAreReal
    <3> SUFFICES ASSUME commits = 0, NEW i \in 1..Len(results)
                 PROVE  /\ results[i].was = IF i = 1 THEN committed ELSE After(results[i - 1].was, script[i - 1])
                        /\ results[i].count = Cardinality(Touched(results[i].was, script[i]))
      BY DEF CountsAreReal, PreviewsInv, PreviewTypeOK
    <3>1. results[i].count = Cardinality(Touched(results[i].was, script[i]))
      BY DEF PreviewsInv, ResultsAreSteps
    <3>2. results[i].was = TableAfter(i - 1)
      BY DEF PreviewsInv, ResultsFollow
    <3>3. CASE i = 1
      BY <3>1, <3>2, <3>3 DEF TableAfter
    <3>4. CASE i # 1
      <4>1. i - 1 \in 1..Len(results) /\ i - 1 # 0
        BY <3>4 DEF PreviewsInv, PreviewTypeOK
      <4>2. results[i - 1].is = After(results[i - 1].was, script[i - 1])
        BY <4>1 DEF PreviewsInv, ResultsAreSteps
      <4> QED BY <3>1, <3>2, <3>4, <4>1, <4>2 DEF TableAfter
    <3> QED BY <3>3, <3>4
  <2> QED BY <2>1 DEF PreviewsInv, PreviewsAreHonest
<1> QED BY <1>1, <1>2, <1>3, PTL DEF PreviewSpec

---------------------------------------------------------------------------
(* Grants.  What a call has still to do waits in its queue, and until then *)
(* accounts for what is not granted or not revoked yet.                    *)

Privileges == {"SELECT", "INSERT", "CREATE", "USAGE", "CONNECT"} \cup UNION GrantRequests
GrantTable == [schema : Schemas, byAdmin : BOOLEAN]
GrantCall ==
  [kind : {"none", "grant", "revoke"}, wants : GrantRequests \cup {{}}, began : SUBSET GrantTable, ended : SUBSET GrantTable]
StmtOn == {Database} \cup {SchemaOf(s) : s \in Schemas} \cup Schemas
StmtPrivs == SUBSET Privileges
Stmt ==
  [do : {"grant", "grant tables", "grant later", "revoke", "revoke tables", "revoke later"}, on : StmtOn, privs : StmtPrivs]
Batches == Seq(Seq(Stmt) \ {<<>>})

\* A statement is still in a queue.
Waits(q, st) == \E i \in 1..Len(q) : \E j \in 1..Len(q[i]) : q[i][j] = st

\* The objects there are.
Objects == {Database} \cup {SchemaOf(s) : s \in created} \cup {TableName(t) : t \in tables}

GrantsTypeOK ==
  /\ server \in {"postgres", "mysql"}
  /\ created \subseteq Schemas /\ IsFiniteSet(created)
  /\ tables \subseteq GrantTable /\ \A t \in tables : t.schema \in created
  /\ held \subseteq Objects \X Privileges /\ defaults \subseteq created \X Privileges
  /\ queue \in Batches
  /\ call \in GrantCall /\ outcome \in GrantCall
  /\ call.began \subseteq tables

\* MySQL knows the database only.
MySQLHoldsDatabase == server = "mysql" => defaults = {} /\ held \subseteq {Database} \X Privileges

\* Only what the call is about waits, and only of what there is.
StatementFits(st) ==
  \/ /\ call.kind = "grant" /\ st.do = "grant"
     /\ \/ st.on = Database
        \/ server = "postgres" /\ \E s \in created : st.on = SchemaOf(s)
  \/ /\ call.kind = "grant" /\ server = "postgres"
     /\ st.do \in {"grant tables", "grant later"} /\ st.on \in created
  \/ call.kind = "revoke" /\ st.do \in {"revoke", "revoke tables", "revoke later"}
QueueFits == \A st \in Stmt : Waits(queue, st) => StatementFits(st)

\* The objects a statement is about.
ObjectsOf(st) ==
  CASE st.do \in {"grant", "revoke"} -> {st.on}
    [] st.do \in {"grant tables", "revoke tables"} -> {TableName(t) : t \in TablesIn(st.on)}
    [] OTHER -> {}

\* A revoke will still take what is held, and the defaults before the tables
\* they may yet give rise to.
RevokeCovers ==
  call.kind = "revoke" =>
    /\ \A h \in held : \E st \in Stmt : Waits(queue, st) /\ h[1] \in ObjectsOf(st)
    /\ \A d \in defaults : Waits(queue, Do("revoke later", d[1], {}))
LaterThenTables ==
  \A i \in 1..Len(queue) : \A j \in 1..Len(queue[i]) :
    queue[i][j].do = "revoke later" => j < Len(queue[i]) /\ queue[i][j + 1] = Do("revoke tables", queue[i][j].on, {})

Asked(c) == Expanded(c.wants)
HoldsAll(object, privs) == \A p \in privs : <<object, p>> \in held
ByDefault(s, privs) == \A p \in privs : <<s, p>> \in defaults
Usable(s) == <<SchemaOf(s), "USAGE">> \in held

\* A grant will still give what is not held: on the tables there were, on
\* their schemas, and by default in each schema that it makes usable.
GrantCovers ==
  call.kind = "grant" =>
    /\ server = "mysql" => HoldsAll(Database, Asked(call)) \/ Waits(queue, Do("grant", Database, Asked(call)))
    /\ server = "postgres" =>
         /\ \A t \in call.began :
              /\ \/ HoldsAll(TableName(t), OnTables(Asked(call)))
                 \/ Waits(queue, Do("grant tables", t.schema, OnTables(Asked(call))))
              /\ \/ HoldsAll(SchemaOf(t.schema), OnSchemas(Asked(call)))
                 \/ Waits(queue, Do("grant", SchemaOf(t.schema), OnSchemas(Asked(call))))
         /\ \A s \in Schemas :
              Usable(s) \/ (\E st \in Stmt : Waits(queue, st) /\ st.do = "grant" /\ st.on = SchemaOf(s)) =>
                \/ ByDefault(s, OnTables(Asked(call)))
                \/ Waits(queue, Do("grant later", s, OnTables(Asked(call))))

\* What is true of the last call, until the next.
OutcomeHolds ==
  /\ call # NoCall => outcome = NoCall
  /\ outcome.kind = "revoke" => held = {} /\ defaults = {}
  /\ outcome.kind = "grant" =>
       /\ server = "mysql" => HoldsAll(Database, Asked(outcome))
       /\ server = "postgres" =>
            /\ \A t \in outcome.began :
                 HoldsAll(TableName(t), OnTables(Asked(outcome))) /\ HoldsAll(SchemaOf(t.schema), OnSchemas(Asked(outcome)))
            /\ \A s \in Schemas : Usable(s) => ByDefault(s, OnTables(Asked(outcome)))
            /\ \A t \in tables \ outcome.ended :
                 t.byAdmin /\ Usable(t.schema) => HoldsAll(TableName(t), OnTables(Asked(outcome)))

GrantsInv ==
  /\ GrantsTypeOK /\ MySQLHoldsDatabase /\ QueueFits /\ RevokeCovers /\ LaterThenTables /\ GrantCovers /\ OutcomeHolds

LEMMA OneTwoThree ==
  ASSUME NEW T, NEW a \in T, NEW b \in T, NEW c \in T
  PROVE  /\ <<a>> \in Seq(T) \ {<<>>} /\ Len(<<a>>) = 1 /\ <<a>>[1] = a
         /\ <<a, b>> \in Seq(T) /\ Len(<<a, b>>) = 2 /\ <<a, b>>[1] = a /\ <<a, b>>[2] = b
         /\ <<a, b, c>> \in Seq(T) \ {<<>>} /\ Len(<<a, b, c>>) = 3
         /\ <<a, b, c>>[1] = a /\ <<a, b, c>>[2] = b /\ <<a, b, c>>[3] = c
<1>1. <<a>> \in Seq(T) /\ Len(<<a>>) = 1 /\ <<a>>[1] = a /\ <<a>> # <<>>
  OBVIOUS
<1>2. /\ <<a, b, c>> \in Seq(T) /\ Len(<<a, b, c>>) = 3 /\ <<a, b, c>> # <<>>
      /\ <<a, b, c>>[1] = a /\ <<a, b, c>>[2] = b /\ <<a, b, c>>[3] = c
  OBVIOUS
<1>3. <<a, b>> \in Seq(T) /\ Len(<<a, b>>) = 2 /\ <<a, b>>[1] = a /\ <<a, b>>[2] = b
  OBVIOUS
<1> QED BY <1>1, <1>2, <1>3

LEMMA NotEmpty ==
  ASSUME NEW T, NEW x \in Seq(T), NEW n \in Nat \ {0}, Len(x) = n
  PROVE  x # <<>>
OBVIOUS

LEMMA Mapped ==
  ASSUME NEW T, NEW n \in Nat, NEW f \in [1..n -> T]
  PROVE  f \in Seq(T) /\ Len(f) = n
OBVIOUS

LEMMA Concatenated ==
  ASSUME NEW T, NEW a \in T, NEW f \in Seq(T)
  PROVE  /\ <<a>> \o f \in Seq(T) /\ Len(<<a>> \o f) = Len(f) + 1 /\ (<<a>> \o f)[1] = a
         /\ \A i \in 1..Len(f) : (<<a>> \o f)[i + 1] = f[i]
         /\ f \o <<a>> \in Seq(T) /\ Len(f \o <<a>>) = Len(f) + 1 /\ (f \o <<a>>)[Len(f) + 1] = a
         /\ \A i \in 1..Len(f) : (f \o <<a>>)[i] = f[i]
<1>1. <<a>> \in Seq(T) /\ Len(<<a>>) = 1 /\ <<a>>[1] = a /\ Len(f) \in Nat
  OBVIOUS
<1> DEFINE g == <<a>>
<1>2. g \in Seq(T) /\ Len(g) = 1 /\ g[1] = a
  BY <1>1
<1> HIDE DEF g
<1>3. /\ g \o f \in Seq(T) /\ Len(g \o f) = 1 + Len(f)
      /\ \A i \in 1..1 + Len(f) : (g \o f)[i] = IF i <= 1 THEN g[i] ELSE f[i - 1]
  <2>1. /\ g \o f \in Seq(T) /\ Len(g \o f) = Len(g) + Len(f)
        /\ \A i \in 1..Len(g) + Len(f) : (g \o f)[i] = IF i <= Len(g) THEN g[i] ELSE f[i - Len(g)]
    BY <1>2, ConcatProperties
  <2> QED BY <1>2, <2>1
<1>4. /\ f \o g \in Seq(T) /\ Len(f \o g) = Len(f) + 1
      /\ \A i \in 1..Len(f) + 1 : (f \o g)[i] = IF i <= Len(f) THEN f[i] ELSE g[i - Len(f)]
  BY <1>2, ConcatProperties
<1>5. Len(g \o f) = Len(f) + 1
  BY <1>1, <1>3
<1>6. (g \o f)[1] = a
  BY <1>1, <1>2, <1>3
<1>7. (f \o g)[Len(f) + 1] = a
  <2>1. Len(f) + 1 \in 1..Len(f) + 1 /\ ~(Len(f) + 1 <= Len(f)) /\ Len(f) + 1 - Len(f) = 1
    BY <1>1
  <2> QED BY <1>2, <1>4, <2>1
<1>8. ASSUME NEW i \in 1..Len(f) PROVE (g \o f)[i + 1] = f[i]
  <2>1. i + 1 \in 1..1 + Len(f) /\ ~(i + 1 <= 1) /\ i + 1 - 1 = i
    BY <1>1
  <2> QED BY <1>3, <2>1
<1>9. ASSUME NEW i \in 1..Len(f) PROVE (f \o g)[i] = f[i]
  <2>1. i \in 1..Len(f) + 1 /\ i <= Len(f)
    BY <1>1
  <2> QED BY <1>4, <2>1
<1> QED BY <1>3, <1>4, <1>5, <1>6, <1>7, <1>8, <1>9 DEF g

LEMMA ObjectsDiffer ==
  /\ \A s : Database # SchemaOf(s)
  /\ \A t : Database # TableName(t)
  /\ \A s, t : SchemaOf(s) # TableName(t)
  /\ \A r, s : SchemaOf(r) = SchemaOf(s) => r = s
<1>1. Database[1] = "database"
  BY DEF Database
<1>2. \A s : SchemaOf(s)[1] = "schema" /\ SchemaOf(s)[2] = s
  BY DEF SchemaOf
<1>3. \A t : TableName(t)[1] = "table"
  BY DEF TableName
<1> QED BY <1>1, <1>2, <1>3

\* The list of schemas has each of them.
LEMMA SchemasListed ==
  ASSUME IsFiniteSet(created)
  PROVE  /\ SchemaList \in Seq(created)
         /\ \A s \in created : \E i \in 1..Len(SchemaList) : SchemaList[i] = s
<1> DEFINE c == Cardinality(created)
           D == 1..c
<1>1. c \in Nat /\ ExistsBijection(D, created)
  BY FS_CardinalityType
<1>2. PICK f \in Bijection(D, created) : TRUE
  BY <1>1 DEF ExistsBijection
<1>3. f \in [D -> created] /\ IsInjective(f)
  BY <1>2 DEF Bijection, Injection, IsInjective
<1>4. SchemaList \in [D -> created] /\ IsInjective(SchemaList)
  BY <1>3 DEF SchemaList, SetToSeq
<1>5. IsFiniteSet(D) /\ Cardinality(D) = c
  <2>1. IsFiniteSet(D) /\ Cardinality(D) = IF 1 > c THEN 0 ELSE c - 1 + 1
    BY <1>1, FS_Interval
  <2> QED BY <1>1, <2>1
<1> HIDE DEF D
<1>6. SchemaList \in Injection(D, created)
  BY <1>4 DEF Injection, IsInjective
<1>7. SchemaList \in Surjection(D, created)
  BY <1>5, <1>6, FS_Injection
<1>8. Len(SchemaList) = c
  BY <1>1, <1>4 DEF D
<1> QED BY <1>1, <1>4, <1>7, <1>8 DEF D, Surjection

LEMMA TailOf ==
  ASSUME NEW T, NEW b \in Seq(T), Len(b) > 1
  PROVE  /\ Tail(b) \in Seq(T) \ {<<>>} /\ Len(Tail(b)) = Len(b) - 1
         /\ \A j \in 1..Len(b) - 1 : Tail(b)[j] = b[j + 1]
<1>1. Tail(b) \in Seq(T) /\ Len(Tail(b)) = Len(b) - 1 /\ \A j \in 1..Len(b) - 1 : Tail(b)[j] = b[j + 1]
  OBVIOUS
<1>2. Tail(b) # <<>>
  <2> DEFINE t == Tail(b)
  <2>1. t \in Seq(T) /\ Len(t) = Len(b) - 1 /\ Len(b) \in Nat
    BY <1>1
  <2> HIDE DEF t
  <2>2. t # <<>>
    BY <2>1
  <2> QED BY <2>2 DEF t
<1> QED BY <1>1, <1>2

LEMMA InRange ==
  ASSUME NEW n \in Nat
  PROVE  /\ n # 0 => 1 \in 1..n
         /\ n > 1 => 2 \in 1..n
         /\ \A j \in 1..n - 1 : j + 1 \in 1..n /\ (j + 1 < n => j < n - 1 /\ j + 1 \in 1..n - 1)
OBVIOUS

LEMMA NextInRange ==
  ASSUME NEW n \in Nat, NEW j \in 1..n, j < n
  PROVE  j + 1 \in 1..n
OBVIOUS

LEMMA BatchOf ==
  ASSUME NEW q \in Batches, q # <<>>
  PROVE  Len(q) \in Nat /\ 1 \in 1..Len(q) /\ q[1] \in Seq(Stmt) /\ Len(q[1]) \in Nat
<1>1. Len(q) \in Nat \ {0} /\ q[1] \in Seq(Stmt) \ {<<>>}
  BY DEF Batches
<1>2. Len(q) \in Nat /\ Len(q) # 0
  BY <1>1
<1> QED BY <1>1, <1>2, InRange

\* The first statement of a queue and the rest of it.
LEMMA FirstAndRest ==
  ASSUME NEW q \in Batches, q # <<>>
  PROVE  /\ q[1][1] \in Stmt /\ Waits(q, q[1][1]) /\ WithoutFirst(q) \in Batches
         /\ \A i \in 1..Len(WithoutFirst(q)) :
              \/ i > 1 /\ \E k \in 1..Len(q) : WithoutFirst(q)[i] = q[k]
              \/ i = 1 /\ Len(q[1]) > 1 /\ WithoutFirst(q)[1] = Tail(q[1])
              \/ i = 1 /\ Len(q) > 1 /\ WithoutFirst(q)[1] = q[2]
         /\ \A st \in Stmt : Waits(q, st) <=> st = q[1][1] \/ Waits(WithoutFirst(q), st)
<1> DEFINE B == Seq(Stmt) \ {<<>>}
<1>1. Len(q) \in Nat \ {0} /\ q[1] \in B /\ \A i \in 1..Len(q) : q[i] \in B
  BY DEF Batches
<1>2. \A b \in B : Len(b) \in Nat \ {0} /\ \A j \in 1..Len(b) : b[j] \in Stmt
  OBVIOUS
<1>3. CASE Len(q[1]) = 1
  <2>1. WithoutFirst(q) = Tail(q)
    BY <1>1, <1>3 DEF WithoutFirst, Batches
  <2>2. /\ WithoutFirst(q) \in Batches /\ Len(WithoutFirst(q)) = Len(q) - 1
        /\ \A i \in 1..Len(q) - 1 : WithoutFirst(q)[i] = q[i + 1]
    BY <1>1, <2>1 DEF Batches
  <2>3. ASSUME NEW st \in Stmt PROVE Waits(q, st) <=> st = q[1][1] \/ Waits(WithoutFirst(q), st)
    <3>1. ASSUME Waits(q, st) PROVE st = q[1][1] \/ Waits(WithoutFirst(q), st)
      <4>1. PICK i \in 1..Len(q) : \E j \in 1..Len(q[i]) : q[i][j] = st
        BY <3>1 DEF Waits
      <4>2. CASE i = 1
        BY <1>3, <4>1, <4>2
      <4>3. CASE i # 1
        <5>1. i - 1 \in 1..Len(q) - 1 /\ WithoutFirst(q)[i - 1] = q[i]
          BY <1>1, <2>2, <4>3
        <5> QED BY <2>2, <4>1, <5>1 DEF Waits
      <4> QED BY <4>2, <4>3
    <3>2. ASSUME Waits(WithoutFirst(q), st) PROVE Waits(q, st)
      <4>1. PICK i \in 1..Len(q) - 1 : \E j \in 1..Len(WithoutFirst(q)[i]) : WithoutFirst(q)[i][j] = st
        BY <2>2, <3>2 DEF Waits
      <4>2. i + 1 \in 1..Len(q) /\ WithoutFirst(q)[i] = q[i + 1]
        BY <1>1, <2>2
      <4> QED BY <4>1, <4>2 DEF Waits
    <3>3. st = q[1][1] => Waits(q, st)
      BY <1>1, <1>2 DEF Waits
    <3> QED BY <3>1, <3>2, <3>3
  <2> QED BY <1>1, <1>2, <1>3, <2>2, <2>3 DEF Waits
<1>4. CASE Len(q[1]) # 1
  <2> DEFINE t == Tail(q[1])
  <2>1. WithoutFirst(q) = <<t>> \o Tail(q)
    BY <1>1, <1>4 DEF WithoutFirst, Batches
  <2>2. t \in B /\ Len(t) = Len(q[1]) - 1 /\ Len(q[1]) > 1 /\ \A j \in 1..Len(q[1]) - 1 : t[j] = q[1][j + 1]
    <3>1. q[1] \in Seq(Stmt) /\ Len(q[1]) > 1
      <4>1. q[1] \in Seq(Stmt)
        BY <1>1
      <4>2. Len(q[1]) \in Nat \ {0}
        BY <1>1, <1>2
      <4> DEFINE n == Len(q[1])
      <4>3. n \in Nat \ {0} /\ n # 1
        BY <1>4, <4>2
      <4> HIDE DEF n
      <4>4. n > 1
        BY <4>3
      <4> QED BY <4>1, <4>4 DEF n
    <3> QED BY <3>1, TailOf
  <2> HIDE DEF t
  <2>3. /\ WithoutFirst(q) \in Batches /\ Len(WithoutFirst(q)) = Len(q) /\ WithoutFirst(q)[1] = t
        /\ \A i \in 2..Len(q) : WithoutFirst(q)[i] = q[i]
    BY <1>1, <2>1, <2>2 DEF Batches
  <2>4. ASSUME NEW st \in Stmt PROVE Waits(q, st) <=> st = q[1][1] \/ Waits(WithoutFirst(q), st)
    <3>1. ASSUME Waits(q, st) PROVE st = q[1][1] \/ Waits(WithoutFirst(q), st)
      <4>1. PICK i \in 1..Len(q) : \E j \in 1..Len(q[i]) : q[i][j] = st
        BY <3>1 DEF Waits
      <4>2. PICK j \in 1..Len(q[i]) : q[i][j] = st
        BY <4>1
      <4>3. CASE i = 1 /\ j > 1
        <5>1. j - 1 \in 1..Len(t) /\ t[j - 1] = st
          BY <1>1, <1>2, <2>2, <4>2, <4>3
        <5> QED BY <1>1, <2>3, <5>1 DEF Waits
      <4>4. CASE i = 1 /\ j = 1
        BY <4>2, <4>4
      <4>5. CASE i # 1
        <5>1. i \in 2..Len(q) /\ WithoutFirst(q)[i] = q[i]
          BY <1>1, <2>3, <4>5
        <5> QED BY <1>1, <2>3, <4>2, <5>1 DEF Waits
      <4> QED BY <1>1, <1>2, <4>2, <4>3, <4>4, <4>5
    <3>2. ASSUME Waits(WithoutFirst(q), st) PROVE Waits(q, st)
      <4>1. PICK i \in 1..Len(q) : \E j \in 1..Len(WithoutFirst(q)[i]) : WithoutFirst(q)[i][j] = st
        BY <2>3, <3>2 DEF Waits
      <4>2. CASE i = 1
        <5>1. PICK j \in 1..Len(t) : t[j] = st
          BY <2>3, <4>1, <4>2
        <5>2. j + 1 \in 1..Len(q[1]) /\ q[1][j + 1] = st
          BY <1>1, <1>2, <2>2, <5>1
        <5> QED BY <1>1, <5>2 DEF Waits
      <4>3. CASE i # 1
        <5>1. i \in 2..Len(q) /\ WithoutFirst(q)[i] = q[i]
          BY <1>1, <2>3, <4>3
        <5> QED BY <4>1, <5>1 DEF Waits
      <4> QED BY <4>2, <4>3
    <3>3. st = q[1][1] => Waits(q, st)
      BY <1>1, <1>2 DEF Waits
    <3> QED BY <3>1, <3>2, <3>3
  <2> QED BY <1>1, <1>2, <2>2, <2>3, <2>4 DEF t, Waits
<1> QED BY <1>3, <1>4

LEMMA OnIsOn ==
  ASSUME created \subseteq Schemas
  PROVE  Database \in StmtOn /\ \A s \in created : SchemaOf(s) \in StmtOn /\ s \in StmtOn
BY DEF StmtOn

LEMMA DoIsStmt ==
  ASSUME NEW kind \in {"grant", "grant tables", "grant later", "revoke", "revoke tables", "revoke later"},
         NEW on \in StmtOn, NEW privs \in StmtPrivs
  PROVE  Do(kind, on, privs) \in Stmt
BY DEF Do, Stmt

LEMMA DoIsRevoke ==
  ASSUME NEW kind \in {"revoke", "revoke tables", "revoke later"}, NEW on \in StmtOn
  PROVE  Do(kind, on, {}) \in Stmt /\ Do(kind, on, {}).do = kind /\ Do(kind, on, {}).on = on
BY DEF Do, Stmt, StmtPrivs

LEMMA ExpandedType ==
  ASSUME NEW wants \in GrantRequests \cup {{}}
  PROVE  /\ Expanded(wants) \in StmtPrivs /\ OnTables(Expanded(wants)) \in StmtPrivs
         /\ OnSchemas(Expanded(wants)) \in StmtPrivs /\ OnDatabase(Expanded(wants)) \in StmtPrivs
<1>1. wants \subseteq Privileges
  BY DEF Privileges
<1>2. Expanded(wants) \in StmtPrivs
  BY <1>1 DEF Expanded, Privileges, StmtPrivs
<1>3. OnTables(Expanded(wants)) \in StmtPrivs
  BY <1>2 DEF OnTables, StmtPrivs
<1>4. OnSchemas(Expanded(wants)) \in StmtPrivs
  BY DEF OnSchemas, Privileges, StmtPrivs
<1>5. OnDatabase(Expanded(wants)) \in StmtPrivs
  BY DEF OnDatabase, Privileges, StmtPrivs
<1> QED BY <1>2, <1>3, <1>4, <1>5

\* What postgresGrantStmts has for a schema.
ForSchema(s, w) ==
  {Do("grant", SchemaOf(s), OnSchemas(w)), Do("grant tables", s, OnTables(w)), Do("grant later", s, OnTables(w))}

LEMMA GrantStmtsAre ==
  ASSUME IsFiniteSet(created), created \subseteq Schemas, NEW wants \in GrantRequests
  PROVE  /\ PostgresGrantStmts(wants) \in Batches
         /\ \A st \in Stmt :
              Waits(PostgresGrantStmts(wants), st) <=>
                st = Do("grant", Database, OnDatabase(Expanded(wants))) \/ \E s \in created : st \in ForSchema(s, Expanded(wants))
<1> DEFINE w == Expanded(wants)
           first == <<Do("grant", Database, OnDatabase(w))>>
           three(s) == <<Do("grant", SchemaOf(s), OnSchemas(w))>> \o <<Do("grant tables", s, OnTables(w)), Do("grant later", s, OnTables(w))>>
           each == [i \in 1..Len(SchemaList) |-> three(SchemaList[i])]
           q == <<first>> \o each
           n == Len(SchemaList)
<1>1. SchemaList \in Seq(created) /\ n \in Nat /\ \A i \in 1..n : SchemaList[i] \in created
  BY SchemasListed
<1>2. PostgresGrantStmts(wants) = q
  <2>1. DOMAIN SchemaList = 1..n
    BY <1>1
  <2> QED BY <2>1, Zenon DEF PostgresGrantStmts, NowAndLater
<1>3. first \in Seq(Stmt) \ {<<>>} /\ Len(first) = 1 /\ first[1] = Do("grant", Database, OnDatabase(w))
  <2>1. Do("grant", Database, OnDatabase(w)) \in Stmt
    BY DoIsStmt, ExpandedType, OnIsOn
  <2> QED BY <2>1, OneTwoThree
<1>4. ASSUME NEW s \in created
      PROVE  /\ three(s) \in Seq(Stmt) \ {<<>>} /\ Len(three(s)) = 3
             /\ {three(s)[j] : j \in 1..3} = ForSchema(s, w)
  <2>1. /\ Do("grant", SchemaOf(s), OnSchemas(w)) \in Stmt /\ Do("grant tables", s, OnTables(w)) \in Stmt
        /\ Do("grant later", s, OnTables(w)) \in Stmt
    <3>1. OnSchemas(w) \in StmtPrivs /\ OnTables(w) \in StmtPrivs
      BY ExpandedType
    <3> HIDE DEF w
    <3> QED BY <3>1, DoIsStmt, OnIsOn
  <2> DEFINE a == Do("grant", SchemaOf(s), OnSchemas(w))
             b == Do("grant tables", s, OnTables(w))
             c == Do("grant later", s, OnTables(w))
  <2>2. /\ three(s) \in Seq(Stmt) /\ Len(three(s)) = 3
        /\ three(s)[1] = a /\ three(s)[2] = b /\ three(s)[3] = c
    <3> HIDE DEF a, b, c
    <3>0. a \in Stmt /\ b \in Stmt /\ c \in Stmt
      BY <2>1 DEF a, b, c
    <3>1. <<b, c>> \in Seq(Stmt) /\ Len(<<b, c>>) = 2 /\ <<b, c>>[1] = b /\ <<b, c>>[2] = c
      BY <3>0, OneTwoThree
    <3> DEFINE g == <<a>>
               f == <<b, c>>
    <3>2. g \in Seq(Stmt) /\ Len(g) = 1 /\ g[1] = a
      BY <3>0, OneTwoThree
    <3> HIDE DEF f, g
    <3>3. /\ g \o f \in Seq(Stmt) /\ Len(g \o f) = Len(g) + Len(f)
          /\ \A i \in 1..Len(g) + Len(f) : (g \o f)[i] = IF i <= Len(g) THEN g[i] ELSE f[i - Len(g)]
      BY <3>1, <3>2, ConcatProperties DEF f
    <3>4. three(s) = g \o f
      BY DEF f, g, a, b, c
    <3> HIDE DEF three
    <3> QED BY <3>1, <3>2, <3>3, <3>4 DEF f
  <2> HIDE DEF three
  <2>3. 1..3 = {1, 2, 3} /\ three(s) # <<>>
    <3>1. 3 \in Nat \ {0} /\ 1..3 = {1, 2, 3}
      OBVIOUS
    <3> QED BY <2>2, <3>1, NotEmpty
  <2>4. {three(s)[j] : j \in {1, 2, 3}} = {a, b, c}
    BY <2>2
  <2> QED BY <2>2, <2>3, <2>4 DEF ForSchema
<1> HIDE DEF first, three, w
<1>5. /\ q \in Seq(Seq(Stmt) \ {<<>>}) /\ Len(q) = n + 1 /\ q[1] = first
      /\ \A i \in 1..n : q[i + 1] = three(SchemaList[i])
  <2>1. each \in Seq(Seq(Stmt) \ {<<>>}) /\ Len(each) = n /\ \A i \in 1..n : each[i] = three(SchemaList[i])
    BY <1>1, <1>4
  <2> HIDE DEF each
  <2> QED BY <1>1, <1>3, <2>1, Concatenated
<1> HIDE DEF q, n
<1>6. ASSUME NEW st \in Stmt PROVE Waits(q, st) <=> st = first[1] \/ \E s \in created : st \in ForSchema(s, w)
  <2>1. ASSUME Waits(q, st) PROVE st = first[1] \/ \E s \in created : st \in ForSchema(s, w)
    <3>1. PICK i \in 1..n + 1 : \E j \in 1..Len(q[i]) : q[i][j] = st
      BY <1>5, <2>1 DEF Waits
    <3>2. CASE i = 1
      BY <1>3, <1>5, <3>1, <3>2
    <3>3. CASE i # 1
      <4>1. i - 1 \in 1..n /\ q[i] = three(SchemaList[i - 1]) /\ SchemaList[i - 1] \in created
        BY <1>1, <1>5, <3>3
      <4>2. PICK j \in 1..3 : three(SchemaList[i - 1])[j] = st
        BY <1>4, <3>1, <4>1
      <4> QED BY <1>4, <4>1, <4>2
    <3> QED BY <3>2, <3>3
  <2>2. ASSUME st = first[1] PROVE Waits(q, st)
    <3>1. 1 \in 1..Len(q) /\ 1 \in 1..Len(q[1]) /\ q[1][1] = st
      BY <1>1, <1>3, <1>5, <2>2 DEF n
    <3> QED BY <3>1 DEF Waits
  <2>3. ASSUME NEW s \in created, st \in ForSchema(s, w) PROVE Waits(q, st)
    <3>1. PICK i \in 1..n : SchemaList[i] = s
      BY SchemasListed DEF n
    <3>2. PICK j \in 1..3 : three(s)[j] = st
      BY <1>4, <2>3
    <3>3. i + 1 \in 1..Len(q) /\ q[i + 1] = three(s) /\ j \in 1..Len(q[i + 1])
      <4>1. n \in Nat /\ i \in 1..n
        BY <1>1 DEF n
      <4>2. Len(three(s)) = 3
        BY <1>4
      <4> HIDE DEF three, q, n
      <4>3. i + 1 \in 1..Len(q)
        BY <1>5, <4>1
      <4>4. q[i + 1] = three(s)
        BY <1>5, <3>1, <4>1
      <4> QED BY <3>2, <4>2, <4>3, <4>4
    <3> QED BY <3>2, <3>3 DEF Waits
  <2> QED BY <2>1, <2>2, <2>3
<1> QED BY <1>2, <1>3, <1>5, <1>6 DEF Batches, w

\* What Revoke has for a schema.
OffSchema(s) == {Do("revoke later", s, {}), Do("revoke tables", s, {}), Do("revoke", SchemaOf(s), {})}

LEMMA RevokeStmtsAre ==
  ASSUME IsFiniteSet(created), created \subseteq Schemas
  PROVE  /\ PostgresRevokeStmts \in Batches
         /\ \A st \in Stmt :
              Waits(PostgresRevokeStmts, st) <=>
                st = Do("revoke", Database, {}) \/ \E s \in created : st \in OffSchema(s)
         /\ \A i \in 1..Len(PostgresRevokeStmts) : \A j \in 1..Len(PostgresRevokeStmts[i]) :
              PostgresRevokeStmts[i][j].do = "revoke later" =>
                /\ j < Len(PostgresRevokeStmts[i])
                /\ PostgresRevokeStmts[i][j + 1] = Do("revoke tables", PostgresRevokeStmts[i][j].on, {})
<1> DEFINE last == <<Do("revoke", Database, {})>>
           three(s) == <<Do("revoke later", s, {}), Do("revoke tables", s, {}), Do("revoke", SchemaOf(s), {})>>
           each == [i \in 1..Len(SchemaList) |-> three(SchemaList[i])]
           q == each \o <<last>>
           n == Len(SchemaList)
<1>1. SchemaList \in Seq(created) /\ n \in Nat /\ \A i \in 1..n : SchemaList[i] \in created
  BY SchemasListed
<1>2. PostgresRevokeStmts = q
  <2>1. DOMAIN SchemaList = 1..n
    BY <1>1
  <2> QED BY <2>1, Zenon DEF PostgresRevokeStmts, RevokedSchemas
<1>3. /\ last \in Seq(Stmt) \ {<<>>} /\ Len(last) = 1 /\ last[1] = Do("revoke", Database, {})
      /\ last[1].do = "revoke"
  <2>1. Do("revoke", Database, {}) \in Stmt /\ Do("revoke", Database, {}).do = "revoke"
    BY DoIsRevoke, OnIsOn
  <2> QED BY <2>1, OneTwoThree
<1>4. ASSUME NEW s \in created
      PROVE  /\ three(s) \in Seq(Stmt) \ {<<>>} /\ Len(three(s)) = 3
             /\ {three(s)[j] : j \in 1..3} = OffSchema(s)
             /\ \A j \in 1..3 : three(s)[j].do = "revoke later" => j = 1
             /\ three(s)[2] = Do("revoke tables", three(s)[1].on, {})
  <2>1. /\ Do("revoke later", s, {}) \in Stmt /\ Do("revoke tables", s, {}) \in Stmt
        /\ Do("revoke", SchemaOf(s), {}) \in Stmt
        /\ Do("revoke later", s, {}).on = s /\ Do("revoke tables", s, {}).do = "revoke tables"
        /\ Do("revoke", SchemaOf(s), {}).do = "revoke"
    BY DoIsRevoke, OnIsOn
  <2> DEFINE a == Do("revoke later", s, {})
             b == Do("revoke tables", s, {})
             c == Do("revoke", SchemaOf(s), {})
  <2>2. /\ three(s) \in Seq(Stmt) \ {<<>>} /\ Len(three(s)) = 3
        /\ three(s)[1] = a /\ three(s)[2] = b /\ three(s)[3] = c
    <3> HIDE DEF a, b, c
    <3>1. a \in Stmt /\ b \in Stmt /\ c \in Stmt
      BY <2>1 DEF a, b, c
    <3>2. three(s) = <<a, b, c>>
      BY DEF a, b, c
    <3> HIDE DEF three
    <3> QED BY <3>1, <3>2, OneTwoThree
  <2> HIDE DEF three
  <2>3. 1..3 = {1, 2, 3}
    OBVIOUS
  <2>4. {three(s)[j] : j \in {1, 2, 3}} = {a, b, c}
    BY <2>2
  <2>5. \A j \in {1, 2, 3} : three(s)[j].do = "revoke later" => j = 1
    BY <2>1, <2>2
  <2>6. three(s)[2] = Do("revoke tables", three(s)[1].on, {})
    BY <2>1, <2>2
  <2> QED BY <2>2, <2>3, <2>4, <2>5, <2>6 DEF OffSchema
<1> HIDE DEF last, three
<1>5. /\ q \in Seq(Seq(Stmt) \ {<<>>}) /\ Len(q) = n + 1 /\ q[n + 1] = last
      /\ \A i \in 1..n : q[i] = three(SchemaList[i])
  <2>1. each \in Seq(Seq(Stmt) \ {<<>>}) /\ Len(each) = n /\ \A i \in 1..n : each[i] = three(SchemaList[i])
    <3>1. n \in Nat /\ \A i \in 1..n : three(SchemaList[i]) \in Seq(Stmt) \ {<<>>}
      BY <1>1, <1>4
    <3> HIDE DEF n
    <3>2. each \in [1..n -> Seq(Stmt) \ {<<>>}] /\ \A i \in 1..n : each[i] = three(SchemaList[i])
      BY <3>1, Zenon DEF n
    <3> QED BY <3>1, <3>2, Mapped DEF n
  <2> HIDE DEF each
  <2>2. n \in Nat /\ Len(each) = n
    BY <1>1, <2>1
  <2> DEFINE T == Seq(Stmt) \ {<<>>}
  <2>3. each \in Seq(T) /\ last \in T
    BY <1>3, <2>1
  <2> HIDE DEF T
  <2>4. /\ each \o <<last>> \in Seq(T) /\ Len(each \o <<last>>) = Len(each) + 1 /\ (each \o <<last>>)[Len(each) + 1] = last
        /\ \A i \in 1..Len(each) : (each \o <<last>>)[i] = each[i]
    BY <2>3, Concatenated
  <2> HIDE DEF n
  <2> QED BY <2>1, <2>2, <2>4 DEF T
<1> HIDE DEF q, n
<1>6. ASSUME NEW st \in Stmt PROVE Waits(q, st) <=> st = last[1] \/ \E s \in created : st \in OffSchema(s)
  <2>1. ASSUME Waits(q, st) PROVE st = last[1] \/ \E s \in created : st \in OffSchema(s)
    <3>1. PICK i \in 1..n + 1 : \E j \in 1..Len(q[i]) : q[i][j] = st
      BY <1>5, <2>1 DEF Waits
    <3>2. CASE i = n + 1
      BY <1>3, <1>5, <3>1, <3>2
    <3>3. CASE i # n + 1
      <4>1. i \in 1..n /\ q[i] = three(SchemaList[i]) /\ SchemaList[i] \in created
        BY <1>1, <1>5, <3>3
      <4>2. PICK j \in 1..3 : three(SchemaList[i])[j] = st
        BY <1>4, <3>1, <4>1
      <4> QED BY <1>4, <4>1, <4>2
    <3> QED BY <3>2, <3>3
  <2>2. ASSUME st = last[1] PROVE Waits(q, st)
    <3>1. n + 1 \in 1..Len(q) /\ 1 \in 1..Len(q[n + 1]) /\ q[n + 1][1] = st
      BY <1>1, <1>3, <1>5, <2>2
    <3> QED BY <3>1 DEF Waits
  <2>3. ASSUME NEW s \in created, st \in OffSchema(s) PROVE Waits(q, st)
    <3>1. PICK i \in 1..n : SchemaList[i] = s
      BY SchemasListed DEF n
    <3>2. PICK j \in 1..3 : three(s)[j] = st
      BY <1>4, <2>3
    <3>3. i \in 1..Len(q) /\ q[i] = three(s) /\ j \in 1..Len(q[i])
      <4>1. n \in Nat /\ i \in 1..n
        BY <1>1 DEF n
      <4>2. Len(three(s)) = 3
        BY <1>4
      <4> HIDE DEF three, q, n
      <4>3. i \in 1..Len(q)
        BY <1>5, <4>1
      <4>4. q[i] = three(s)
        BY <1>5, <3>1, <4>1
      <4> QED BY <3>2, <4>2, <4>3, <4>4
    <3> QED BY <3>2, <3>3 DEF Waits
  <2> QED BY <2>1, <2>2, <2>3
<1>7. ASSUME NEW i \in 1..Len(q), NEW j \in 1..Len(q[i]), q[i][j].do = "revoke later"
      PROVE  j < Len(q[i]) /\ q[i][j + 1] = Do("revoke tables", q[i][j].on, {})
  <2>1. CASE i = n + 1
    <3>1. q[i] = last /\ Len(q[i]) = 1 /\ j \in 1..Len(q[i])
      BY <1>3, <1>5, <2>1
    <3>3. j = 1
      BY <3>1
    <3>2. q[i][j].do = "revoke"
      BY <1>3, <3>1, <3>3
    <3> QED BY <1>7, <3>2
  <2>2. CASE i # n + 1
    <3>1. i \in 1..n /\ q[i] = three(SchemaList[i]) /\ SchemaList[i] \in created
      BY <1>1, <1>5, <2>2
    <3>2. j = 1 /\ Len(q[i]) = 3
      BY <1>4, <1>7, <3>1
    <3>3. q[i][j] = three(SchemaList[i])[1] /\ q[i][j + 1] = three(SchemaList[i])[2]
      BY <3>1, <3>2
    <3>4. three(SchemaList[i])[2] = Do("revoke tables", three(SchemaList[i])[1].on, {})
      BY <1>4, <3>1
    <3>5. q[i][j + 1] = Do("revoke tables", q[i][j].on, {})
      BY <3>3, <3>4
    <3>6. j < Len(q[i])
      BY <3>2
    <3> QED BY <3>5, <3>6
  <2> QED BY <2>1, <2>2
<1> QED BY <1>2, <1>3, <1>5, <1>6, <1>7 DEF Batches

LEMMA NoneWaits == \A st : ~Waits(<<>>, st)
BY DEF Waits

LEMMA InitGrants ==
  ASSUME GrantsAssumption, GrantsInit
  PROVE  GrantsInv
<1>1. IsFiniteSet({"public"})
  BY FS_Singleton
<1>2. NoCall \in GrantCall /\ NoCall.kind = "none" /\ NoCall.began = {}
  BY DEF NoCall, GrantCall
<1>3. <<>> \in Batches
  BY DEF Batches
<1>4. GrantsTypeOK
  BY <1>1, <1>2, <1>3 DEF GrantsTypeOK, GrantsInit, GrantsAssumption
<1>5. QueueFits /\ LaterThenTables
  BY NoneWaits DEF GrantsInit, QueueFits, LaterThenTables
<1> QED BY <1>2, <1>4, <1>5 DEF GrantsInit, GrantsInv, MySQLHoldsDatabase, RevokeCovers, GrantCovers, OutcomeHolds

LEMMA GrantKeeps ==
  ASSUME GrantsAssumption, GrantsInv, NEW wants \in GrantRequests, Grant(wants)
  PROVE  GrantsInv'
<1> USE DEF GrantsInv
<1> DEFINE w == Expanded(wants)
<1>1. UNCHANGED <<server, created, tables, held, defaults>> /\ outcome' = NoCall
  BY DEF Grant
<1>2. call' \in GrantCall /\ call'.kind = "grant" /\ call'.wants = wants /\ call'.began = tables
  BY DEF Grant, NoCall, GrantCall, GrantsTypeOK
<1>3. NoCall \in GrantCall /\ NoCall.kind = "none" /\ NoCall.began = {}
  BY DEF NoCall, GrantCall
<1>4. OnTables(w) \in StmtPrivs /\ OnSchemas(w) \in StmtPrivs /\ w \in StmtPrivs
      /\ OnDatabase(w) \in StmtPrivs
  BY ExpandedType
<1>5. CASE server = "postgres"
  <2>1. queue' = PostgresGrantStmts(wants)
    BY <1>5 DEF Grant
  <2>2. /\ queue' \in Batches
        /\ \A st \in Stmt :
             Waits(queue', st) <=> st = Do("grant", Database, OnDatabase(w)) \/ \E s \in created : st \in ForSchema(s, w)
    BY <2>1, GrantStmtsAre DEF GrantsTypeOK
  <2>3. ASSUME NEW s \in created
        PROVE  /\ Do("grant", SchemaOf(s), OnSchemas(w)) \in Stmt /\ Do("grant tables", s, OnTables(w)) \in Stmt
               /\ Do("grant later", s, OnTables(w)) \in Stmt
               /\ Waits(queue', Do("grant", SchemaOf(s), OnSchemas(w)))
               /\ Waits(queue', Do("grant tables", s, OnTables(w))) /\ Waits(queue', Do("grant later", s, OnTables(w)))
               /\ Do("grant", SchemaOf(s), OnSchemas(w)).do = "grant" /\ Do("grant", SchemaOf(s), OnSchemas(w)).on = SchemaOf(s)
               /\ Do("grant tables", s, OnTables(w)).do = "grant tables" /\ Do("grant tables", s, OnTables(w)).on = s
               /\ Do("grant later", s, OnTables(w)).do = "grant later" /\ Do("grant later", s, OnTables(w)).on = s
    <3> HIDE DEF w
    <3>1. /\ SchemaOf(s) \in StmtOn
          /\ s \in StmtOn
      BY OnIsOn DEF GrantsTypeOK
    <3>2. Do("grant", SchemaOf(s), OnSchemas(w)) \in Stmt
      BY <1>4, <3>1, DoIsStmt
    <3>3. Do("grant tables", s, OnTables(w)) \in Stmt /\ Do("grant later", s, OnTables(w)) \in Stmt
      BY <1>4, <3>1, DoIsStmt
    <3>4. /\ Waits(queue', Do("grant", SchemaOf(s), OnSchemas(w)))
          /\ Waits(queue', Do("grant tables", s, OnTables(w))) /\ Waits(queue', Do("grant later", s, OnTables(w)))
      BY <2>2, <3>2, <3>3 DEF ForSchema
    <3> QED BY <3>2, <3>3, <3>4 DEF Do
  <2>4. Do("grant", Database, OnDatabase(w)).do = "grant" /\ Do("grant", Database, OnDatabase(w)).on = Database
    BY DEF Do
  <2>5. ASSUME NEW st \in Stmt, Waits(queue', st)
        PROVE  \/ st.do = "grant" /\ st.on = Database
               \/ st.do = "grant" /\ \E s \in created : st.on = SchemaOf(s)
               \/ st.do \in {"grant tables", "grant later"} /\ st.on \in created
    <3>1. CASE st = Do("grant", Database, OnDatabase(w))
      BY <2>4, <3>1
    <3>2. ASSUME NEW s \in created, st \in ForSchema(s, w)
          PROVE  \/ st.do = "grant" /\ \E r \in created : st.on = SchemaOf(r)
                 \/ st.do \in {"grant tables", "grant later"} /\ st.on \in created
      <4>1. \/ st = Do("grant", SchemaOf(s), OnSchemas(w)) \/ st = Do("grant tables", s, OnTables(w))
            \/ st = Do("grant later", s, OnTables(w))
        BY <3>2 DEF ForSchema
      <4> HIDE DEF w
      <4>2. \/ st.do = "grant" /\ st.on = SchemaOf(s)
            \/ st.do = "grant tables" /\ st.on = s
            \/ st.do = "grant later" /\ st.on = s
        <5>1. /\ Do("grant", SchemaOf(s), OnSchemas(w)).do = "grant" /\ Do("grant", SchemaOf(s), OnSchemas(w)).on = SchemaOf(s)
              /\ Do("grant tables", s, OnTables(w)).do = "grant tables" /\ Do("grant tables", s, OnTables(w)).on = s
              /\ Do("grant later", s, OnTables(w)).do = "grant later" /\ Do("grant later", s, OnTables(w)).on = s
          BY DEF Do
        <5> QED BY <4>1, <5>1
      <4> QED BY <4>2
    <3> QED BY <2>2, <2>5, <3>1, <3>2
  <2>6. GrantsTypeOK'
    BY <1>1, <1>2, <1>3, <2>2 DEF GrantsTypeOK, Objects
  <2>7. QueueFits'
    <3> SUFFICES ASSUME NEW st \in Stmt, Waits(queue', st) PROVE StatementFits(st)'
      BY DEF QueueFits
    <3>1. \/ st.do = "grant" /\ st.on = Database
          \/ st.do = "grant" /\ \E s \in created : st.on = SchemaOf(s)
          \/ st.do \in {"grant tables", "grant later"} /\ st.on \in created
      BY <2>5
    <3> QED BY <1>1, <1>2, <1>5, <3>1 DEF StatementFits
  <2>8. LaterThenTables'
    <3>1. ASSUME NEW i \in 1..Len(queue'), NEW j \in 1..Len(queue'[i]) PROVE queue'[i][j].do # "revoke later"
      <4>1. queue'[i][j] \in Stmt
        BY <2>2 DEF Batches
      <4>2. Waits(queue', queue'[i][j])
        BY DEF Waits
      <4> QED BY <2>5, <4>1, <4>2
    <3> QED BY <3>1 DEF LaterThenTables
  <2>9. GrantCovers'
    <3>1. \A t \in tables : t.schema \in created
      BY DEF GrantsTypeOK
    <3>2. \A t \in tables : Waits(queue', Do("grant tables", t.schema, OnTables(w))) /\ Waits(queue', Do("grant", SchemaOf(t.schema), OnSchemas(w)))
      BY <2>3, <3>1
    <3>3. ASSUME NEW s \in Schemas, Usable(s) PROVE s \in created
      <4>1. SchemaOf(s) \in Objects
        BY <3>3 DEF Usable, GrantsTypeOK
      <4> QED BY <4>1, ObjectsDiffer DEF Objects
    <3>4. ASSUME NEW s \in Schemas, NEW st \in Stmt, Waits(queue', st), st.do = "grant", st.on = SchemaOf(s) PROVE s \in created
      BY <2>5, <3>4, ObjectsDiffer
    <3>5. ASSUME NEW s \in Schemas,
                 Usable(s)' \/ \E st \in Stmt : Waits(queue', st) /\ st.do = "grant" /\ st.on = SchemaOf(s)
          PROVE  Waits(queue', Do("grant later", s, OnTables(w)))
      <4>1. Usable(s)' <=> Usable(s)
        BY <1>1 DEF Usable
      <4> QED BY <2>3, <3>3, <3>4, <3>5, <4>1
    <3>6. Asked(call') = w
      BY <1>2 DEF Asked
    <3> HIDE DEF w
    <3> QED BY <1>1, <1>2, <1>5, <3>2, <3>5, <3>6 DEF GrantCovers
  <2> QED BY <1>1, <1>2, <1>3, <1>5, <2>6, <2>7, <2>8, <2>9 DEF MySQLHoldsDatabase, RevokeCovers, OutcomeHolds
<1>6. CASE server = "mysql"
  <2> DEFINE d == Do("grant", Database, w)
  <2>1. queue' = << <<d>> >>
    BY <1>6 DEF Grant
  <2>2. d \in Stmt /\ d.do = "grant" /\ d.on = Database
    <3> HIDE DEF w
    <3>1. Database \in StmtOn
      BY DEF StmtOn
    <3>2. Do("grant", Database, w) \in Stmt
      BY <1>4, <3>1, DoIsStmt
    <3>3. Do("grant", Database, w).do = "grant" /\ Do("grant", Database, w).on = Database
      BY DEF Do
    <3> QED BY <3>2, <3>3
  <2> HIDE DEF d
  <2>3. queue' \in Batches /\ Len(queue') = 1 /\ Len(queue'[1]) = 1 /\ queue'[1][1] = d
    <3>1. <<d>> \in Seq(Stmt) \ {<<>>} /\ Len(<<d>>) = 1 /\ <<d>>[1] = d
      BY <2>2, OneTwoThree
    <3> DEFINE b == <<d>>
    <3> HIDE DEF b
    <3>2. <<b>> \in Seq(Seq(Stmt) \ {<<>>}) /\ Len(<<b>>) = 1 /\ <<b>>[1] = b
      BY <3>1, OneTwoThree DEF b
    <3> QED BY <2>1, <3>1, <3>2 DEF b, Batches
  <2>4. \A st \in Stmt : Waits(queue', st) <=> st = d
    BY <2>3 DEF Waits
  <2>5. GrantsTypeOK'
    BY <1>1, <1>2, <1>3, <2>3 DEF GrantsTypeOK, Objects
  <2>6. QueueFits'
    <3> SUFFICES ASSUME NEW st \in Stmt, Waits(queue', st) PROVE StatementFits(st)'
      BY DEF QueueFits
    <3>1. st.do = "grant" /\ st.on = Database
      BY <2>2, <2>4
    <3> QED BY <1>1, <1>2, <3>1 DEF StatementFits
  <2>7. LaterThenTables'
    <3>1. ASSUME NEW i \in 1..Len(queue'), NEW j \in 1..Len(queue'[i]) PROVE queue'[i][j].do # "revoke later"
      <4>1. i = 1
        BY <2>3
      <4>2. j = 1
        <5>1. Len(queue'[i]) = 1 /\ j \in 1..Len(queue'[i])
          BY <2>3, <4>1
        <5> QED BY <5>1
      <4> QED BY <2>2, <2>3, <4>1, <4>2
    <3> QED BY <3>1 DEF LaterThenTables
  <2>8. GrantCovers'
    BY <1>1, <1>2, <1>6, <2>2, <2>4 DEF GrantCovers, Asked, d
  <2> QED BY <1>1, <1>2, <1>3, <2>5, <2>6, <2>7, <2>8 DEF MySQLHoldsDatabase, RevokeCovers, OutcomeHolds
<1> QED BY <1>5, <1>6 DEF GrantsTypeOK

LEMMA RevokeCallKeeps ==
  ASSUME GrantsAssumption, GrantsInv, Revoke
  PROVE  GrantsInv'
<1> USE DEF GrantsInv
<1>1. UNCHANGED <<server, created, tables, held, defaults>> /\ outcome' = NoCall
  BY DEF Revoke
<1>2. call' \in GrantCall /\ call'.kind = "revoke" /\ call'.began = {}
  BY DEF Revoke, NoCall, GrantCall, GrantsTypeOK
<1>3. NoCall \in GrantCall /\ NoCall.kind = "none" /\ NoCall.began = {}
  BY DEF NoCall, GrantCall
<1> DEFINE onDatabase == Do("revoke", Database, {})
<1>4. onDatabase \in Stmt /\ onDatabase.do = "revoke" /\ onDatabase.on = Database
  BY DoIsRevoke, OnIsOn DEF GrantsTypeOK
<1> HIDE DEF onDatabase
<1>5. ASSUME queue' \in Batches, Waits(queue', onDatabase),
             \A st \in Stmt : Waits(queue', st) => st.do \in {"revoke", "revoke tables", "revoke later"},
             \A h \in held : \E st \in Stmt : Waits(queue', st) /\ h[1] \in ObjectsOf(st),
             \A d \in defaults : Waits(queue', Do("revoke later", d[1], {})),
             LaterThenTables'
      PROVE  GrantsInv'
  <2>1. GrantsTypeOK'
    BY <1>1, <1>2, <1>3, <1>5 DEF GrantsTypeOK, Objects
  <2>2. QueueFits'
    BY <1>2, <1>5 DEF QueueFits, StatementFits
  <2>3. \A st : ObjectsOf(st)' = ObjectsOf(st)
    BY <1>1 DEF ObjectsOf, TablesIn
  <2>4. RevokeCovers'
    BY <1>1, <1>5, <2>3 DEF RevokeCovers
  <2> QED BY <1>1, <1>2, <1>3, <1>5, <2>1, <2>2, <2>4 DEF MySQLHoldsDatabase, GrantCovers, OutcomeHolds
<1>6. CASE server = "postgres"
  <2>1. queue' = PostgresRevokeStmts
    BY <1>6 DEF Revoke
  <2>2. /\ queue' \in Batches
        /\ \A st \in Stmt : Waits(queue', st) <=> st = onDatabase \/ \E s \in created : st \in OffSchema(s)
        /\ LaterThenTables'
    BY <2>1, RevokeStmtsAre DEF GrantsTypeOK, LaterThenTables, onDatabase
  <2>3. ASSUME NEW s \in created
        PROVE  /\ Do("revoke later", s, {}) \in Stmt /\ Do("revoke tables", s, {}) \in Stmt /\ Do("revoke", SchemaOf(s), {}) \in Stmt
               /\ Waits(queue', Do("revoke later", s, {})) /\ Waits(queue', Do("revoke tables", s, {}))
               /\ Waits(queue', Do("revoke", SchemaOf(s), {}))
    <3>1. s \in StmtOn /\ SchemaOf(s) \in StmtOn
      BY OnIsOn DEF GrantsTypeOK
    <3>2. /\ Do("revoke later", s, {}) \in Stmt /\ Do("revoke tables", s, {}) \in Stmt /\ Do("revoke", SchemaOf(s), {}) \in Stmt
      BY <3>1, DoIsRevoke
    <3> QED BY <2>2, <3>2 DEF OffSchema
  <2>4. ASSUME NEW st \in Stmt, Waits(queue', st) PROVE st.do \in {"revoke", "revoke tables", "revoke later"}
    <3>1. CASE st = onDatabase
      BY <1>4, <3>1
    <3>2. ASSUME NEW s \in created, st \in OffSchema(s) PROVE st.do \in {"revoke", "revoke tables", "revoke later"}
      <4>1. /\ Do("revoke later", s, {}).do = "revoke later" /\ Do("revoke tables", s, {}).do = "revoke tables"
            /\ Do("revoke", SchemaOf(s), {}).do = "revoke"
        BY DEF Do
      <4> QED BY <3>2, <4>1 DEF OffSchema
    <3> QED BY <2>2, <2>4, <3>1, <3>2
  <2>5. ASSUME NEW h \in held PROVE \E st \in Stmt : Waits(queue', st) /\ h[1] \in ObjectsOf(st)
    <3>1. h[1] \in Objects
      BY DEF GrantsTypeOK
    <3>2. CASE h[1] = Database
      <4>1. h[1] \in ObjectsOf(onDatabase)
        BY <1>4, <3>2 DEF ObjectsOf
      <4> QED BY <1>4, <2>2, <4>1
    <3>3. ASSUME NEW s \in created, h[1] = SchemaOf(s) PROVE \E st \in Stmt : Waits(queue', st) /\ h[1] \in ObjectsOf(st)
      <4>1. h[1] \in ObjectsOf(Do("revoke", SchemaOf(s), {}))
        BY <3>3 DEF ObjectsOf, Do
      <4> QED BY <2>3, <4>1
    <3>4. ASSUME NEW t \in tables, h[1] = TableName(t) PROVE \E st \in Stmt : Waits(queue', st) /\ h[1] \in ObjectsOf(st)
      <4>1. t.schema \in created
        BY DEF GrantsTypeOK
      <4>2. h[1] \in ObjectsOf(Do("revoke tables", t.schema, {}))
        BY <3>4 DEF ObjectsOf, Do, TablesIn
      <4> QED BY <2>3, <4>1, <4>2
    <3> QED BY <3>1, <3>2, <3>3, <3>4 DEF Objects
  <2>6. ASSUME NEW d \in defaults PROVE Waits(queue', Do("revoke later", d[1], {}))
    <3>1. d[1] \in created
      BY DEF GrantsTypeOK
    <3> QED BY <2>3, <3>1
  <2>7. Waits(queue', onDatabase)
    BY <1>4, <2>2
  <2> QED BY <1>5, <2>2, <2>4, <2>5, <2>6, <2>7
<1>7. CASE server = "mysql"
  <2>1. queue' = << <<onDatabase>> >>
    BY <1>7 DEF Revoke, onDatabase
  <2>2. queue' \in Batches /\ Len(queue') = 1 /\ Len(queue'[1]) = 1 /\ queue'[1][1] = onDatabase
    <3>1. <<onDatabase>> \in Seq(Stmt) \ {<<>>} /\ Len(<<onDatabase>>) = 1 /\ <<onDatabase>>[1] = onDatabase
      BY <1>4, OneTwoThree
    <3> DEFINE b == <<onDatabase>>
    <3> HIDE DEF b
    <3>2. <<b>> \in Seq(Seq(Stmt) \ {<<>>}) /\ Len(<<b>>) = 1 /\ <<b>>[1] = b
      BY <3>1, OneTwoThree DEF b
    <3> QED BY <2>1, <3>1, <3>2 DEF b, Batches
  <2>3. \A st \in Stmt : Waits(queue', st) <=> st = onDatabase
    BY <2>2 DEF Waits
  <2>4. LaterThenTables'
    <3>1. ASSUME NEW i \in 1..Len(queue'), NEW j \in 1..Len(queue'[i]) PROVE queue'[i][j].do # "revoke later"
      <4>1. i = 1
        BY <2>2
      <4>2. Len(queue'[i]) = 1 /\ j \in 1..Len(queue'[i])
        BY <2>2, <4>1
      <4>3. j = 1
        BY <4>2
      <4> QED BY <1>4, <2>2, <4>1, <4>3
    <3> QED BY <3>1 DEF LaterThenTables
  <2>5. ASSUME NEW h \in held PROVE \E st \in Stmt : Waits(queue', st) /\ h[1] \in ObjectsOf(st)
    <3>1. h[1] = Database
      BY <1>7 DEF MySQLHoldsDatabase
    <3>2. h[1] \in ObjectsOf(onDatabase)
      BY <1>4, <3>1 DEF ObjectsOf
    <3> QED BY <1>4, <2>3, <3>2
  <2>6. defaults = {}
    BY <1>7 DEF MySQLHoldsDatabase
  <2> QED BY <1>4, <1>5, <2>2, <2>3, <2>4, <2>5, <2>6
<1> QED BY <1>6, <1>7 DEF GrantsTypeOK

LEMMA ReturnKeeps ==
  ASSUME GrantsInv, Return
  PROVE  GrantsInv'
<1> USE DEF GrantsInv
<1>1. UNCHANGED <<server, created, tables, held, defaults, queue>> /\ queue = <<>> /\ call' = NoCall
  BY DEF Return
<1>2. /\ outcome' \in GrantCall /\ outcome'.kind = call.kind /\ outcome'.wants = call.wants
      /\ outcome'.began = call.began /\ outcome'.ended = tables
  BY DEF Return, GrantCall, GrantsTypeOK
<1>3. NoCall \in GrantCall /\ NoCall.kind = "none" /\ NoCall.began = {}
  BY DEF NoCall, GrantCall
<1>4. \A st : ~Waits(queue, st)
  BY <1>1, NoneWaits
<1>5. call.kind = "revoke" => held = {} /\ defaults = {}
  BY <1>4 DEF RevokeCovers
<1>6. GrantsTypeOK'
  BY <1>1, <1>2, <1>3 DEF GrantsTypeOK, Objects
<1>7. QueueFits'
  BY <1>1, <1>4 DEF QueueFits
<1>8. LaterThenTables'
  BY <1>1 DEF LaterThenTables
<1>9. OutcomeHolds'
  <2>1. PICK w, began : w = Asked(call) /\ began = call.began
    OBVIOUS
  <2>2. Asked(outcome)' = w /\ (outcome.began)' = began
    BY <1>2, <2>1 DEF Asked
  <2>3. ASSUME call.kind = "grant", server = "mysql" PROVE HoldsAll(Database, w)'
    BY <1>1, <1>4, <2>1, <2>3 DEF GrantCovers, HoldsAll
  <2>4. ASSUME call.kind = "grant", server = "postgres", NEW t \in began
        PROVE  HoldsAll(TableName(t), OnTables(w))' /\ HoldsAll(SchemaOf(t.schema), OnSchemas(w))'
    <3>1. HoldsAll(TableName(t), OnTables(w)) /\ HoldsAll(SchemaOf(t.schema), OnSchemas(w))
      BY <1>4, <2>1, <2>4 DEF GrantCovers
    <3> QED BY <1>1, <3>1 DEF HoldsAll
  <2>5. ASSUME call.kind = "grant", server = "postgres", NEW s \in Schemas, Usable(s)' PROVE ByDefault(s, OnTables(w))'
    <3>1. ByDefault(s, OnTables(w))
      BY <1>1, <1>4, <2>1, <2>5 DEF GrantCovers, Usable
    <3> QED BY <1>1, <3>1 DEF ByDefault
  <2>6. tables' \ outcome'.ended = {}
    BY <1>1, <1>2
  <2> QED BY <1>1, <1>2, <1>5, <2>2, <2>3, <2>4, <2>5, <2>6 DEF OutcomeHolds
<1> QED BY <1>1, <1>3, <1>6, <1>7, <1>8, <1>9 DEF MySQLHoldsDatabase, RevokeCovers, GrantCovers

\* A statement that runs: of a queue, what it is about, and what it does.
LEMMA ExecDoes ==
  ASSUME GrantsInv, Exec
  PROVE  \E s \in Stmt :
           /\ StatementFits(s) /\ queue' \in Batches
           /\ \A st \in Stmt : Waits(queue, st) <=> st = s \/ Waits(queue', st)
           /\ held' = (IF s.do \in {"grant", "grant tables"} THEN held \cup (ObjectsOf(s) \X s.privs)
                       ELSE {h \in held : h[1] \notin ObjectsOf(s)})
           /\ defaults' = (CASE s.do = "grant later" -> defaults \cup ({s.on} \X s.privs)
                             [] s.do = "revoke later" -> {d \in defaults : d[1] # s.on}
                             [] OTHER -> defaults)
           /\ UNCHANGED <<server, created, tables, call, outcome>>
           /\ QueueFits' /\ LaterThenTables'
<1> USE DEF GrantsInv
<1> DEFINE s == queue[1][1]
<1>1. queue \in Batches /\ queue # <<>> /\ queue' = WithoutFirst(queue)
  BY DEF Exec, GrantsTypeOK
<1>2. /\ s \in Stmt /\ Waits(queue, s) /\ queue' \in Batches
      /\ \A st \in Stmt : Waits(queue, st) <=> st = s \/ Waits(queue', st)
      /\ \A i \in 1..Len(queue') :
           \/ i > 1 /\ \E k \in 1..Len(queue) : queue'[i] = queue[k]
           \/ i = 1 /\ Len(queue[1]) > 1 /\ queue'[1] = Tail(queue[1])
           \/ i = 1 /\ Len(queue) > 1 /\ queue'[1] = queue[2]
  BY <1>1, FirstAndRest
<1>3. UNCHANGED <<server, created, tables, call, outcome>>
  BY DEF Exec
<1>4. StatementFits(s)
  BY <1>2 DEF QueueFits
<1>5. QueueFits'
  <2> SUFFICES ASSUME NEW st \in Stmt, Waits(queue', st) PROVE StatementFits(st)'
    BY DEF QueueFits
  <2>1. StatementFits(st)
    BY <1>2 DEF QueueFits
  <2> QED BY <1>3, <2>1 DEF StatementFits
<1>6. LaterThenTables'
  <2> SUFFICES ASSUME NEW i \in 1..Len(queue'), NEW j \in 1..Len(queue'[i]), queue'[i][j].do = "revoke later"
               PROVE  j < Len(queue'[i]) /\ queue'[i][j + 1] = Do("revoke tables", queue'[i][j].on, {})
    BY DEF LaterThenTables
  <2>1. ASSUME NEW k \in 1..Len(queue), queue'[i] = queue[k]
        PROVE  j < Len(queue'[i]) /\ queue'[i][j + 1] = Do("revoke tables", queue'[i][j].on, {})
    BY <2>1 DEF LaterThenTables
  <2>2. CASE i = 1 /\ Len(queue[1]) > 1 /\ queue'[1] = Tail(queue[1])
    <3> DEFINE t == Tail(queue[1])
    <3>1. 1 \in 1..Len(queue) /\ queue[1] \in Seq(Stmt) /\ Len(queue[1]) \in Nat
      BY <1>1, BatchOf
    <3>2. Len(t) = Len(queue[1]) - 1 /\ \A n \in 1..Len(queue[1]) - 1 : t[n] = queue[1][n + 1]
      BY <2>2, <3>1, TailOf
    <3> HIDE DEF t
    <3>3. queue'[i] = t
      BY <2>2 DEF t
    <3> DEFINE n == Len(queue[1])
    <3>4. n \in Nat /\ Len(t) = n - 1
      BY <3>1, <3>2
    <3>5. j \in 1..n - 1 /\ t[j] = queue[1][j + 1]
      BY <3>2, <3>3
    <3> HIDE DEF n
    <3>6. j + 1 \in 1..n
      BY <3>4, <3>5, InRange
    <3>7. j + 1 < n /\ queue[1][j + 1 + 1] = Do("revoke tables", queue[1][j + 1].on, {})
      BY <3>1, <3>3, <3>5, <3>6 DEF LaterThenTables, n
    <3>8. j < Len(t) /\ j + 1 \in 1..n - 1
      BY <3>4, <3>5, <3>7, InRange
    <3>9. t[j + 1] = queue[1][j + 1 + 1]
      BY <3>2, <3>8 DEF n
    <3> QED BY <3>3, <3>5, <3>7, <3>8, <3>9
  <2>3. CASE Len(queue) > 1 /\ i = 1 /\ queue'[1] = queue[2]
    <3>1. 2 \in 1..Len(queue) /\ queue'[i] = queue[2]
      BY <1>1, <2>3, BatchOf, InRange
    <3> QED BY <2>1, <3>1
  <2> QED BY <1>2, <2>1, <2>2, <2>3
<1>7. /\ held' = (IF s.do \in {"grant", "grant tables"} THEN held \cup (ObjectsOf(s) \X s.privs)
                  ELSE {h \in held : h[1] \notin ObjectsOf(s)})
      /\ defaults' = (CASE s.do = "grant later" -> defaults \cup ({s.on} \X s.privs)
                        [] s.do = "revoke later" -> {d \in defaults : d[1] # s.on}
                        [] OTHER -> defaults)
  BY DEF Exec, ObjectsOf
<1> HIDE DEF s
<1>8. s \in Stmt
  BY <1>2
<1> WITNESS s \in Stmt
<1> QED BY <1>2, <1>3, <1>4, <1>5, <1>6, <1>7

LEMMA GrantExecKeeps ==
  ASSUME GrantsInv, Exec, call.kind = "grant"
  PROVE  GrantsInv'
<1> USE DEF GrantsInv
<1>1. PICK s \in Stmt :
        /\ StatementFits(s) /\ queue' \in Batches
        /\ \A st \in Stmt : Waits(queue, st) <=> st = s \/ Waits(queue', st)
        /\ held' = (IF s.do \in {"grant", "grant tables"} THEN held \cup (ObjectsOf(s) \X s.privs)
                    ELSE {h \in held : h[1] \notin ObjectsOf(s)})
        /\ defaults' = (CASE s.do = "grant later" -> defaults \cup ({s.on} \X s.privs)
                          [] s.do = "revoke later" -> {d \in defaults : d[1] # s.on}
                          [] OTHER -> defaults)
        /\ UNCHANGED <<server, created, tables, call, outcome>>
        /\ QueueFits' /\ LaterThenTables'
  BY ExecDoes
<1>2. \/ /\ s.do = "grant"
         /\ \/ s.on = Database
            \/ server = "postgres" /\ \E r \in created : s.on = SchemaOf(r)
      \/ server = "postgres" /\ s.do \in {"grant tables", "grant later"} /\ s.on \in created
  BY <1>1 DEF StatementFits
<1>3. s.privs \subseteq Privileges
  BY DEF Stmt, StmtPrivs
<1>4. /\ s.do \in {"grant", "grant tables"} => held' = held \cup (ObjectsOf(s) \X s.privs)
      /\ s.do = "grant later" => held' = held
  <2>1. s.do = "grant later" => ObjectsOf(s) = {}
    BY DEF ObjectsOf
  <2>2. {h \in held : h[1] \notin {}} = held
    OBVIOUS
  <2> QED BY <1>1, <2>1, <2>2
<1>5. defaults' = IF s.do = "grant later" THEN defaults \cup ({s.on} \X s.privs) ELSE defaults
  BY <1>1, <1>2
<1>6. held \subseteq held' /\ defaults \subseteq defaults'
  BY <1>2, <1>4, <1>5
<1>7. ObjectsOf(s) \subseteq Objects
  <2>1. CASE s.do = "grant"
    BY <1>2, <2>1 DEF ObjectsOf, Objects
  <2>2. CASE s.do = "grant tables"
    BY <2>2 DEF ObjectsOf, Objects, TablesIn
  <2>3. CASE s.do = "grant later"
    BY <2>3 DEF ObjectsOf
  <2> QED BY <1>2, <2>1, <2>2, <2>3
<1>8. UNCHANGED <<server, created, tables, call, outcome>> /\ Objects' = Objects
  BY <1>1 DEF Objects
<1>9. GrantsTypeOK'
  <2>1. held' \subseteq Objects \X Privileges
    BY <1>2, <1>3, <1>4, <1>7 DEF GrantsTypeOK
  <2>2. defaults' \subseteq created \X Privileges
    <3>1. s.do = "grant later" => s.on \in created
      BY <1>2
    <3> QED BY <1>3, <1>5, <3>1 DEF GrantsTypeOK
  <2> QED BY <1>1, <1>8, <2>1, <2>2 DEF GrantsTypeOK
<1>10. MySQLHoldsDatabase'
  <2> SUFFICES ASSUME server = "mysql" PROVE defaults' = {} /\ held' \subseteq {Database} \X Privileges
    BY <1>8 DEF MySQLHoldsDatabase
  <2>1. s.do = "grant" /\ s.on = Database
    BY <1>2
  <2>2. ObjectsOf(s) = {Database}
    BY <2>1 DEF ObjectsOf
  <2> QED BY <1>3, <1>4, <1>5, <2>1, <2>2 DEF MySQLHoldsDatabase
<1>11. \A o, p : HoldsAll(o, p) => HoldsAll(o, p)'
  BY <1>6 DEF HoldsAll
<1>12. \A r, p : ByDefault(r, p) => ByDefault(r, p)'
  BY <1>6 DEF ByDefault
<1>13. GrantCovers'
  <2>1. PICK c : c = call
    OBVIOUS
  <2>2. call' = c
    BY <1>8, <2>1
  <2> DEFINE w == Asked(c)
  <2>3. w \in StmtPrivs /\ OnTables(w) \in StmtPrivs /\ OnSchemas(w) \in StmtPrivs
    BY <2>1, ExpandedType DEF Asked, GrantsTypeOK, GrantCall
  <2> HIDE DEF w
  <2>4. ASSUME server = "mysql" PROVE HoldsAll(Database, w)' \/ Waits(queue', Do("grant", Database, w))
    <3> DEFINE d == Do("grant", Database, w)
    <3>1. d \in Stmt
      BY <2>3, DoIsStmt, Database \in StmtOn DEF StmtOn
    <3>2. HoldsAll(Database, w) \/ Waits(queue, d)
      BY <2>1, <2>4 DEF GrantCovers, w
    <3>3. ASSUME d = s PROVE HoldsAll(Database, w)'
      <4>1. s.do = "grant" /\ s.on = Database /\ s.privs = w
        BY <3>3 DEF Do
      <4>2. ObjectsOf(s) = {Database}
        BY <4>1 DEF ObjectsOf
      <4> QED BY <1>4, <4>1, <4>2 DEF HoldsAll
    <3> QED BY <1>1, <1>11, <3>1, <3>2, <3>3
  <2>5. ASSUME server = "postgres", NEW t \in c.began
        PROVE  /\ HoldsAll(TableName(t), OnTables(w))' \/ Waits(queue', Do("grant tables", t.schema, OnTables(w)))
               /\ HoldsAll(SchemaOf(t.schema), OnSchemas(w))' \/ Waits(queue', Do("grant", SchemaOf(t.schema), OnSchemas(w)))
    <3> DEFINE d == Do("grant tables", t.schema, OnTables(w))
               e == Do("grant", SchemaOf(t.schema), OnSchemas(w))
    <3>1. t.schema \in Schemas /\ t \in GrantTable
      BY <2>1, <2>5 DEF GrantsTypeOK, GrantCall, GrantTable
    <3>2. d \in Stmt /\ e \in Stmt
      <4>1. t.schema \in StmtOn /\ SchemaOf(t.schema) \in StmtOn
        BY <3>1 DEF StmtOn
      <4> QED BY <2>3, <4>1, DoIsStmt
    <3>3. /\ HoldsAll(TableName(t), OnTables(w)) \/ Waits(queue, d)
          /\ HoldsAll(SchemaOf(t.schema), OnSchemas(w)) \/ Waits(queue, e)
      BY <2>1, <2>5 DEF GrantCovers, w
    <3>4. ASSUME d = s PROVE HoldsAll(TableName(t), OnTables(w))'
      <4>1. s.do = "grant tables" /\ s.on = t.schema /\ s.privs = OnTables(w)
        BY <3>4 DEF Do
      <4>2. t \in tables
        BY <2>1, <2>5 DEF GrantsTypeOK
      <4>3. TableName(t) \in ObjectsOf(s)
        BY <4>1, <4>2 DEF ObjectsOf, TablesIn
      <4> QED BY <1>4, <4>1, <4>3 DEF HoldsAll
    <3>5. ASSUME e = s PROVE HoldsAll(SchemaOf(t.schema), OnSchemas(w))'
      <4>1. s.do = "grant" /\ s.on = SchemaOf(t.schema) /\ s.privs = OnSchemas(w)
        BY <3>5 DEF Do
      <4>2. SchemaOf(t.schema) \in ObjectsOf(s)
        BY <4>1 DEF ObjectsOf
      <4> QED BY <1>4, <4>1, <4>2 DEF HoldsAll
    <3> HIDE DEF d, e
    <3>6. HoldsAll(TableName(t), OnTables(w))' \/ Waits(queue', d)
      BY <1>1, <1>11, <3>2, <3>3, <3>4
    <3>7. HoldsAll(SchemaOf(t.schema), OnSchemas(w))' \/ Waits(queue', e)
      BY <1>1, <1>11, <3>2, <3>3, <3>5
    <3> QED BY <3>6, <3>7 DEF d, e
  <2>6. ASSUME server = "postgres", NEW r \in Schemas,
               Usable(r)' \/ \E st \in Stmt : Waits(queue', st) /\ st.do = "grant" /\ st.on = SchemaOf(r)
        PROVE  ByDefault(r, OnTables(w))' \/ Waits(queue', Do("grant later", r, OnTables(w)))
    <3> DEFINE d == Do("grant later", r, OnTables(w))
    <3>1. d \in Stmt
      BY <2>3, DoIsStmt, r \in StmtOn DEF StmtOn
    <3>2. Usable(r) \/ \E st \in Stmt : Waits(queue, st) /\ st.do = "grant" /\ st.on = SchemaOf(r)
      <4>1. CASE \E st \in Stmt : Waits(queue', st) /\ st.do = "grant" /\ st.on = SchemaOf(r)
        BY <1>1, <4>1
      <4>2. CASE Usable(r)' /\ ~Usable(r)
        <5>1. SchemaOf(r) \in ObjectsOf(s) /\ s.do \in {"grant", "grant tables"}
          <6>1. <<SchemaOf(r), "USAGE">> \in held' /\ <<SchemaOf(r), "USAGE">> \notin held
            BY <4>2 DEF Usable
          <6>2. s.do \in {"grant", "grant tables"}
            BY <1>2, <1>4, <6>1
          <6>3. <<SchemaOf(r), "USAGE">> \in ObjectsOf(s) \X s.privs
            BY <1>4, <6>1, <6>2
          <6> QED BY <6>2, <6>3
        <5>2. s.do # "grant tables"
          BY <5>1, ObjectsDiffer DEF ObjectsOf
        <5>3. s.on = SchemaOf(r)
          BY <5>1, <5>2 DEF ObjectsOf
        <5> QED BY <1>1, <5>1, <5>2, <5>3
      <4> QED BY <2>6, <4>1, <4>2
    <3>3. ByDefault(r, OnTables(w)) \/ Waits(queue, d)
      BY <2>1, <2>6, <3>2 DEF GrantCovers, w
    <3>4. ASSUME d = s PROVE ByDefault(r, OnTables(w))'
      <4>1. s.do = "grant later" /\ s.on = r /\ s.privs = OnTables(w)
        BY <3>4 DEF Do
      <4> QED BY <1>5, <4>1 DEF ByDefault
    <3> HIDE DEF d
    <3> QED BY <1>1, <1>12, <3>1, <3>3, <3>4 DEF d
  <2>7. Asked(call)' = w /\ call'.began = c.began
    BY <2>2 DEF w, Asked
  <2> QED BY <1>8, <2>4, <2>5, <2>6, <2>7 DEF GrantCovers
<1>14. OutcomeHolds'
  BY <1>8 DEF OutcomeHolds, NoCall
<1>15. RevokeCovers'
  BY <1>8 DEF RevokeCovers
<1> QED BY <1>1, <1>9, <1>10, <1>13, <1>14, <1>15

LEMMA RevokeExecKeeps ==
  ASSUME GrantsInv, Exec, call.kind = "revoke"
  PROVE  GrantsInv'
<1> USE DEF GrantsInv
<1>1. PICK s \in Stmt :
        /\ StatementFits(s) /\ queue' \in Batches
        /\ \A st \in Stmt : Waits(queue, st) <=> st = s \/ Waits(queue', st)
        /\ held' = (IF s.do \in {"grant", "grant tables"} THEN held \cup (ObjectsOf(s) \X s.privs)
                    ELSE {h \in held : h[1] \notin ObjectsOf(s)})
        /\ defaults' = (CASE s.do = "grant later" -> defaults \cup ({s.on} \X s.privs)
                          [] s.do = "revoke later" -> {d \in defaults : d[1] # s.on}
                          [] OTHER -> defaults)
        /\ UNCHANGED <<server, created, tables, call, outcome>>
        /\ QueueFits' /\ LaterThenTables'
  BY ExecDoes
<1>2. s.do \in {"revoke", "revoke tables", "revoke later"}
  BY <1>1 DEF StatementFits
<1>3. held' = {h \in held : h[1] \notin ObjectsOf(s)}
  BY <1>1, <1>2
<1>4. defaults' = IF s.do = "revoke later" THEN {d \in defaults : d[1] # s.on} ELSE defaults
  BY <1>1, <1>2
<1>5. held' \subseteq held /\ defaults' \subseteq defaults
  BY <1>3, <1>4
<1>6. UNCHANGED <<server, created, tables, call, outcome>> /\ Objects' = Objects
  BY <1>1 DEF Objects
<1>7. GrantsTypeOK' /\ MySQLHoldsDatabase'
  BY <1>1, <1>5, <1>6 DEF GrantsTypeOK, MySQLHoldsDatabase
<1>8. ASSUME NEW h \in held' PROVE \E st \in Stmt : Waits(queue', st) /\ h[1] \in ObjectsOf(st)'
  <2>1. h \in held /\ h[1] \notin ObjectsOf(s)
    BY <1>3
  <2>2. PICK st \in Stmt : Waits(queue, st) /\ h[1] \in ObjectsOf(st)
    BY <2>1 DEF RevokeCovers
  <2>3. Waits(queue', st)
    BY <1>1, <2>1, <2>2
  <2>4. ObjectsOf(st)' = ObjectsOf(st)
    BY <1>6 DEF ObjectsOf, TablesIn
  <2> QED BY <2>2, <2>3, <2>4
<1>9. ASSUME NEW d \in defaults' PROVE Waits(queue', Do("revoke later", d[1], {}))
  <2> DEFINE st == Do("revoke later", d[1], {})
  <2>1. d \in defaults /\ Waits(queue, st)
    BY <1>5 DEF RevokeCovers
  <2>2. d[1] \in StmtOn
    BY <2>1, OnIsOn DEF GrantsTypeOK
  <2>3. st \in Stmt /\ st.do = "revoke later" /\ st.on = d[1]
    BY <2>2, DoIsRevoke
  <2> HIDE DEF st
  <2>4. st # s
    BY <1>4, <2>3
  <2>5. Waits(queue', st)
    BY <1>1, <2>1, <2>3, <2>4
  <2> QED BY <2>5 DEF st
<1>10. RevokeCovers'
  BY <1>8, <1>9 DEF RevokeCovers
<1>11. GrantCovers'
  BY <1>6 DEF GrantCovers
<1>12. OutcomeHolds'
  BY <1>6 DEF OutcomeHolds, NoCall
<1> QED BY <1>1, <1>7, <1>10, <1>11, <1>12

LEMMA ExecKeeps ==
  ASSUME GrantsInv, Exec
  PROVE  GrantsInv'
<1>1. PICK s \in Stmt : StatementFits(s)
  BY ExecDoes
<1>2. call.kind \in {"grant", "revoke"}
  BY <1>1 DEF StatementFits
<1> QED BY <1>2, GrantExecKeeps, RevokeExecKeeps

LEMMA ExecFailsKeeps ==
  ASSUME GrantsInv, ExecFails
  PROVE  GrantsInv'
<1> USE DEF GrantsInv
<1>1. UNCHANGED <<server, created, tables, held, defaults, outcome>> /\ queue # <<>> /\ queue' = <<>> /\ call' = NoCall
  BY DEF ExecFails
<1>2. NoCall \in GrantCall /\ NoCall.kind = "none" /\ NoCall.began = {}
  BY DEF NoCall, GrantCall
<1>3. call # NoCall
  <2>1. queue[1][1] \in Stmt /\ Waits(queue, queue[1][1])
    BY <1>1, FirstAndRest DEF GrantsTypeOK
  <2>2. call.kind \in {"grant", "revoke"}
    BY <2>1 DEF QueueFits, StatementFits
  <2> QED BY <1>2, <2>2
<1>4. outcome = NoCall
  BY <1>3 DEF OutcomeHolds
<1>5. GrantsTypeOK'
  BY <1>1, <1>2 DEF GrantsTypeOK, Objects, Batches
<1>6. QueueFits' /\ LaterThenTables'
  <2>1. \A st : ~Waits(queue', st)
    BY <1>1, NoneWaits
  <2>2. 1..Len(queue') = {}
    BY <1>1
  <2> QED BY <2>1, <2>2 DEF QueueFits, LaterThenTables
<1>7. OutcomeHolds'
  BY <1>1, <1>2, <1>4 DEF OutcomeHolds
<1> QED BY <1>1, <1>2, <1>5, <1>6, <1>7 DEF MySQLHoldsDatabase, RevokeCovers, GrantCovers

LEMMA CreateSchemaKeeps ==
  ASSUME GrantsInv, NEW s \in Schemas, CreateSchema(s)
  PROVE  GrantsInv'
<1> USE DEF GrantsInv
<1>1. UNCHANGED <<server, tables, held, defaults, queue, call, outcome>> /\ created' = created \cup {s}
  BY DEF CreateSchema
<1>2. IsFiniteSet(created')
  BY <1>1, FS_AddElement DEF GrantsTypeOK
<1>3. Objects \subseteq Objects'
  BY <1>1 DEF Objects
<1>4. GrantsTypeOK'
  BY <1>1, <1>2, <1>3 DEF GrantsTypeOK
<1>5. QueueFits'
  <2> SUFFICES ASSUME NEW st \in Stmt, Waits(queue, st) PROVE StatementFits(st)'
    BY <1>1 DEF QueueFits
  <2>1. StatementFits(st)
    BY DEF QueueFits
  <2> QED BY <1>1, <2>1 DEF StatementFits
<1>6. MySQLHoldsDatabase' /\ LaterThenTables'
  BY <1>1 DEF MySQLHoldsDatabase, LaterThenTables
<1>7. RevokeCovers'
  BY <1>1 DEF RevokeCovers, ObjectsOf, TablesIn
<1>8. GrantCovers' /\ OutcomeHolds'
  BY <1>1 DEF GrantCovers, OutcomeHolds, HoldsAll, ByDefault, Usable, Asked
<1> QED BY <1>4, <1>5, <1>6, <1>7, <1>8

LEMMA CreateTableKeeps ==
  ASSUME GrantsInv, NEW s \in Schemas, NEW byAdmin \in BOOLEAN, CreateTable(s, byAdmin)
  PROVE  GrantsInv'
<1> USE DEF GrantsInv
<1> DEFINE t == [schema |-> s, byAdmin |-> byAdmin]
           fresh == {<<TableName(t), d[2]>> : d \in {d \in defaults : d[1] = s}}
<1>1. /\ UNCHANGED <<server, created, defaults, queue, call, outcome>> /\ s \in created
      /\ t \notin tables /\ tables' = tables \cup {t}
      /\ held' = IF server = "postgres" /\ byAdmin THEN held \cup fresh ELSE held
  BY DEF CreateTable
<1>2. t \in GrantTable /\ t.schema = s /\ t.byAdmin = byAdmin
  BY DEF GrantTable
<1> HIDE DEF t, fresh
<1>3. Objects \subseteq Objects' /\ TableName(t) \in Objects'
  BY <1>1 DEF Objects
<1>4. \A h \in fresh : h = <<TableName(t), h[2]>> /\ <<s, h[2]>> \in defaults /\ h[1] = TableName(t) /\ h[2] \in Privileges
  BY DEF fresh, GrantsTypeOK
<1>5. \A d \in defaults : d[1] = s => <<TableName(t), d[2]>> \in fresh
  BY DEF fresh
<1>6. held \subseteq held' /\ held' \subseteq held \cup fresh
  BY <1>1
<1>7. held' \subseteq Objects' \X Privileges
  <2>1. fresh \subseteq Objects' \X Privileges
    <3>1. ASSUME NEW h \in fresh PROVE h \in Objects' \X Privileges
      <4>1. h = <<TableName(t), h[2]>> /\ h[2] \in Privileges
        BY <1>4
      <4>2. PICK o, p : o = TableName(t) /\ p = h[2]
        OBVIOUS
      <4>3. o \in Objects' /\ p \in Privileges /\ h = <<o, p>>
        BY <1>3, <4>1, <4>2
      <4> QED BY <4>3
    <3> QED BY <3>1
  <2>2. held \subseteq Objects' \X Privileges
    BY <1>3 DEF GrantsTypeOK
  <2> QED BY <1>6, <2>1, <2>2
<1>8. GrantsTypeOK'
  <2>1. \A x \in tables' : x.schema \in created'
    BY <1>1, <1>2 DEF GrantsTypeOK
  <2>2. tables' \subseteq GrantTable
    BY <1>1, <1>2 DEF GrantsTypeOK
  <2>3. call'.began \subseteq tables'
    BY <1>1 DEF GrantsTypeOK
  <2> QED BY <1>1, <1>7, <2>1, <2>2, <2>3 DEF GrantsTypeOK
<1>9. MySQLHoldsDatabase'
  BY <1>1 DEF MySQLHoldsDatabase, GrantsTypeOK
<1>10. QueueFits' /\ LaterThenTables'
  BY <1>1 DEF QueueFits, StatementFits, LaterThenTables
<1>11. \A st : ObjectsOf(st) \subseteq ObjectsOf(st)'
  BY <1>1 DEF ObjectsOf, TablesIn
<1>12. RevokeCovers'
  <2> SUFFICES ASSUME call.kind = "revoke", NEW h \in held'
               PROVE  \E st \in Stmt : Waits(queue, st) /\ h[1] \in ObjectsOf(st)'
    BY <1>1 DEF RevokeCovers
  <2>1. CASE h \in held
    <3>1. PICK st \in Stmt : Waits(queue, st) /\ h[1] \in ObjectsOf(st)
      BY <2>1 DEF RevokeCovers
    <3> QED BY <1>11, <3>1
  <2>2. CASE h \in fresh
    <3> DEFINE later == Do("revoke later", s, {})
               there == Do("revoke tables", s, {})
    <3>1. Waits(queue, later)
      <4>1. PICK d : d = <<s, h[2]>>
        OBVIOUS
      <4>2. d \in defaults /\ d[1] = s
        BY <1>4, <2>2, <4>1
      <4> QED BY <4>2 DEF RevokeCovers
    <3>2. /\ later.do = "revoke later" /\ later.on = s /\ there \in Stmt /\ there.do = "revoke tables" /\ there.on = s
      <4>1. s \in StmtOn
        BY DEF StmtOn
      <4> QED BY <4>1, DoIsRevoke
    <3>3. PICK i \in 1..Len(queue) : \E j \in 1..Len(queue[i]) : queue[i][j] = later
      BY <3>1 DEF Waits
    <3>4. PICK j \in 1..Len(queue[i]) : queue[i][j] = later
      BY <3>3
    <3> HIDE DEF later
    <3>5. j < Len(queue[i]) /\ queue[i][j + 1] = there
      BY <3>2, <3>4 DEF LaterThenTables
    <3> HIDE DEF there
    <3>6. Waits(queue, there)
      <4>1. queue[i] \in Seq(Stmt)
        BY DEF GrantsTypeOK, Batches
      <4>2. Len(queue[i]) \in Nat
        BY <4>1
      <4>3. j + 1 \in 1..Len(queue[i])
        BY <3>5, <4>2, NextInRange
      <4> QED BY <3>5, <4>3 DEF Waits
    <3>7. h[1] \in ObjectsOf(there)'
      <4>1. h[1] = TableName(t) /\ t \in tables'
        BY <1>1, <1>4, <2>2
      <4> QED BY <1>2, <3>2, <4>1 DEF ObjectsOf, TablesIn
    <3> QED BY <3>2, <3>6, <3>7
  <2> QED BY <1>6, <2>1, <2>2
<1>13. \A r : Usable(r)' <=> Usable(r)
  <2>1. ASSUME NEW r PROVE <<SchemaOf(r), "USAGE">> \notin fresh
    BY <1>4, ObjectsDiffer
  <2> QED BY <1>6, <2>1 DEF Usable
<1>14. /\ \A o, p : HoldsAll(o, p) => HoldsAll(o, p)'
       /\ \A r, p : ByDefault(r, p) <=> ByDefault(r, p)'
  BY <1>1, <1>6 DEF HoldsAll, ByDefault
<1>15. GrantCovers'
  <2>1. PICK c : c = call /\ c = call'
    BY <1>1
  <2> SUFFICES ASSUME call.kind = "grant"
               PROVE  /\ server = "mysql" => HoldsAll(Database, Asked(c))' \/ Waits(queue, Do("grant", Database, Asked(c)))
                      /\ server = "postgres" =>
                           /\ \A x \in c.began :
                                /\ \/ HoldsAll(TableName(x), OnTables(Asked(c)))'
                                   \/ Waits(queue, Do("grant tables", x.schema, OnTables(Asked(c))))
                                /\ \/ HoldsAll(SchemaOf(x.schema), OnSchemas(Asked(c)))'
                                   \/ Waits(queue, Do("grant", SchemaOf(x.schema), OnSchemas(Asked(c))))
                           /\ \A r \in Schemas :
                                Usable(r)' \/ (\E st \in Stmt : Waits(queue, st) /\ st.do = "grant" /\ st.on = SchemaOf(r)) =>
                                  \/ ByDefault(r, OnTables(Asked(c)))'
                                  \/ Waits(queue, Do("grant later", r, OnTables(Asked(c))))
    BY <1>1, <2>1 DEF GrantCovers, Asked
  <2> QED BY <1>13, <1>14, <2>1 DEF GrantCovers
<1>16. OutcomeHolds'
  <2>1. outcome.kind = "revoke" => held' = {} /\ defaults' = {}
    BY <1>1, <1>4, <1>6 DEF OutcomeHolds
  <2>2. PICK c : c = outcome /\ c = outcome'
    BY <1>1
  <2>3. ASSUME c.kind = "grant", server = "mysql" PROVE HoldsAll(Database, Asked(c))'
    BY <1>14, <2>2, <2>3 DEF OutcomeHolds
  <2>4. ASSUME c.kind = "grant", server = "postgres", NEW x \in c.began
        PROVE  HoldsAll(TableName(x), OnTables(Asked(c)))' /\ HoldsAll(SchemaOf(x.schema), OnSchemas(Asked(c)))'
    BY <1>14, <2>2, <2>4 DEF OutcomeHolds
  <2>5. ASSUME c.kind = "grant", server = "postgres", NEW r \in Schemas, Usable(r)' PROVE ByDefault(r, OnTables(Asked(c)))'
    BY <1>13, <1>14, <2>2, <2>5 DEF OutcomeHolds
  <2>6. ASSUME c.kind = "grant", server = "postgres", NEW x \in tables' \ c.ended, x.byAdmin, Usable(x.schema)'
        PROVE  HoldsAll(TableName(x), OnTables(Asked(c)))'
    <3>1. CASE x \in tables
      BY <1>13, <1>14, <2>2, <2>6, <3>1 DEF OutcomeHolds
    <3>2. CASE x = t
      <4>1. byAdmin /\ held' = held \cup fresh
        BY <1>1, <1>2, <2>6, <3>2
      <4>2. ByDefault(s, OnTables(Asked(c)))
        BY <1>2, <1>14, <2>5, <2>6, <3>2
      <4>3. ASSUME NEW p \in OnTables(Asked(c)) PROVE <<TableName(t), p>> \in held'
        <5>1. PICK d : d = <<s, p>>
          OBVIOUS
        <5>2. d \in defaults /\ d[1] = s /\ d[2] = p
          BY <4>2, <5>1 DEF ByDefault
        <5> QED BY <1>5, <4>1, <5>2
      <4> QED BY <3>2, <4>3 DEF HoldsAll
    <3> QED BY <1>1, <3>1, <3>2
  <2>7. call' # NoCall => outcome' = NoCall
    BY <1>1 DEF OutcomeHolds
  <2> QED BY <1>1, <2>1, <2>2, <2>3, <2>4, <2>5, <2>6, <2>7 DEF OutcomeHolds, Asked
<1> QED BY <1>8, <1>9, <1>10, <1>12, <1>15, <1>16

LEMMA NextGrants ==
  ASSUME GrantsAssumption, GrantsInv, GrantsNext \/ UNCHANGED grantVars
  PROVE  GrantsInv'
<1>1. CASE UNCHANGED grantVars
  BY <1>1 DEF grantVars, GrantsInv, GrantsTypeOK, Objects, MySQLHoldsDatabase, QueueFits, StatementFits, RevokeCovers,
     ObjectsOf, TablesIn, LaterThenTables, GrantCovers, OutcomeHolds, HoldsAll, ByDefault, Usable, Asked
<1> QED BY <1>1, GrantKeeps, RevokeCallKeeps, ExecKeeps, ReturnKeeps, ExecFailsKeeps, CreateSchemaKeeps, CreateTableKeeps
     DEF GrantsNext

\* After a revoke nothing is held nor will be, and after a grant what was asked
\* for is, whatever schemas and tables were created while its statements ran
\* and whatever calls failed before it.
THEOREM GrantsWhole == GrantsSpec => []GrantsAreWhole
<1>1. GrantsInit => GrantsInv
  BY InitGrants, GrantsAssumption
<1>2. GrantsInv /\ [GrantsNext]_grantVars => GrantsInv'
  BY NextGrants, GrantsAssumption
<1>3. GrantsInv => GrantsAreWhole
  <2> SUFFICES ASSUME GrantsInv PROVE GrantsAreWhole
    OBVIOUS
  <2> USE DEF GrantsInv
  <2>1. RevokedHoldsNothing
    BY DEF RevokedHoldsNothing, OutcomeHolds
  <2>2. GrantReaches
    <3> SUFFICES ASSUME outcome.kind = "grant", NEW t \in tables, NEW priv \in OnTables(Asked(outcome)),
                        t \in outcome.began \/ (t.byAdmin /\ t \notin outcome.ended /\ Usable(t.schema))
                 PROVE  May(t, priv)
      BY DEF GrantReaches, Asked, Usable
    <3>1. CASE server = "mysql"
      <4>1. HoldsAll(Database, Asked(outcome)) /\ priv \in Asked(outcome)
        BY <3>1 DEF OutcomeHolds, OnTables
      <4> QED BY <3>1, <4>1 DEF May, HoldsAll
    <3>2. CASE server = "postgres"
      <4>1. HoldsAll(TableName(t), OnTables(Asked(outcome)))
        BY <3>2 DEF OutcomeHolds
      <4>2. Usable(t.schema)
        <5>1. CASE t \in outcome.began
          <6>1. "USAGE" \in OnSchemas(Asked(outcome))
            BY DEF OnSchemas
          <6>2. HoldsAll(SchemaOf(t.schema), OnSchemas(Asked(outcome)))
            BY <3>2, <5>1 DEF OutcomeHolds
          <6> QED BY <6>1, <6>2 DEF HoldsAll, Usable
        <5> QED BY <5>1
      <4> QED BY <3>2, <4>1, <4>2 DEF May, HoldsAll, Usable
    <3> QED BY <3>1, <3>2 DEF GrantsTypeOK
  <2> QED BY <2>1, <2>2 DEF GrantsAreWhole
<1> QED BY <1>1, <1>2, <1>3, PTL DEF GrantsSpec

---------------------------------------------------------------------------
(* Sign-ins.  What the guard keeps is enough to judge by: for every time   *)
(* in the window, it keeps as many failures after it as there were, or     *)
(* Limit of them.                                                          *)

InOrder(times) == times \in Seq(Int) /\ \A i, j \in 1..Len(times) : i <= j => times[i] <= times[j]
Later(times, t) == {i \in 1..Len(times) : times[i] > t}
AtMostLimit(n) == IF n > Limit THEN Limit ELSE n

SignInTypeOK ==
  /\ now \in Nat /\ outcomes \in Seq(Outcome)
  /\ InOrder(fails) /\ Len(fails) <= Limit
  /\ \A i \in 1..Len(fails) : fails[i] <= now
  /\ \A k \in 1..Len(outcomes) : outcomes[k].at <= now

CountsAgree ==
  \A t \in Int : t >= now - Window =>
    Cardinality(Later(fails, t)) = AtMostLimit(Cardinality(FailuresAfter(t)))

SignInsInv == SignInTypeOK /\ CountsAgree

LEMMA UpTo ==
  ASSUME NEW a \in Nat, NEW b \in Nat, a <= b
  PROVE  IsFiniteSet((a + 1)..b) /\ Cardinality((a + 1)..b) = b - a
<1>1. a + 1 \in Int /\ b \in Int
  OBVIOUS
<1>2. IsFiniteSet((a + 1)..b) /\ Cardinality((a + 1)..b) = IF a + 1 > b THEN 0 ELSE b - (a + 1) + 1
  BY <1>1, FS_Interval
<1>3. (IF a + 1 > b THEN 0 ELSE b - (a + 1) + 1) = b - a
  OBVIOUS
<1> QED BY <1>2, <1>3

\* Times in order fall into those up to t and those after it.
LEMMA Split ==
  ASSUME NEW times, InOrder(times), NEW t \in Int
  PROVE  \E n \in 0..Len(times) : \A i \in 1..Len(times) : times[i] > t <=> i > n
<1> DEFINE L == Len(times)
           Splits(n) == \A i \in 1..L : times[i] > t <=> i > n
<1> SUFFICES \E n \in 0..L : Splits(n)
  OBVIOUS
<1>0. L \in Nat /\ \A i \in 1..L : times[i] \in Int
  BY DEF InOrder
<1>1. CASE Later(times, t) = {}
  <2>1. \A i \in 1..L : ~(times[i] > t)
    BY <1>1 DEF Later
  <2>2. \A i \in 1..L : ~(i > L)
    BY <1>0
  <2>3. Splits(L) /\ L \in 0..L
    BY <1>0, <2>1, <2>2
  <2> HIDE DEF Splits
  <2> QED BY <2>3
<1>2. CASE Later(times, t) # {}
  <2>1. Later(times, t) \subseteq Nat
    BY <1>0 DEF Later
  <2>2. PICK p \in Later(times, t) : \A q \in Later(times, t) : p <= q
    BY <1>2, <2>1, LowestOf
  <2>3. p \in 1..L /\ times[p] > t
    BY <2>2 DEF Later
  <2>4. ASSUME NEW i \in 1..L PROVE times[i] > t <=> i > p - 1
    <3>1. CASE i < p
      <4>1. i \notin Later(times, t)
        BY <1>0, <2>2, <2>3, <3>1
      <4> QED BY <1>0, <2>3, <3>1, <4>1 DEF Later
    <3>2. CASE i >= p
      <4>1. times[p] <= times[i]
        BY <2>3, <3>2 DEF InOrder
      <4> QED BY <1>0, <2>3, <3>2, <4>1
    <3> QED BY <1>0, <2>3, <3>1, <3>2
  <2>5. Splits(p - 1) /\ p - 1 \in 0..L
    BY <1>0, <2>3, <2>4
  <2> HIDE DEF Splits
  <2> QED BY <2>5
<1> QED BY <1>1, <1>2

LEMMA CountOfLater ==
  ASSUME NEW times, Len(times) \in Nat, NEW t, NEW n \in 0..Len(times), \A i \in 1..Len(times) : times[i] > t <=> i > n
  PROVE  IsFiniteSet(Later(times, t)) /\ Cardinality(Later(times, t)) = Len(times) - n
<1>1. Later(times, t) = (n + 1)..Len(times)
  BY DEF Later
<1>2. n \in Nat /\ n <= Len(times)
  OBVIOUS
<1> QED BY <1>1, <1>2, UpTo

\* Recent, of times in order.
LEMMA RecentIs ==
  ASSUME NEW times, InOrder(times), NEW cut \in Int, cut = now - Window
  PROVE  \E n \in 0..Len(times) :
           /\ \A i \in 1..Len(times) : times[i] > cut <=> i > n
           /\ Recent(times) = SubSeq(times, n + 1, Len(times))
           /\ Recent(times) \in Seq(Int) /\ Len(Recent(times)) = Len(times) - n
           /\ \A i \in 1..(Len(times) - n) : Recent(times)[i] = times[i + n]
<1>0. Len(times) \in Nat /\ times \in Seq(Int) /\ \A i \in 1..Len(times) : times[i] \in Int
  BY DEF InOrder
<1>1. PICK n \in 0..Len(times) : \A i \in 1..Len(times) : times[i] > cut <=> i > n
  BY Split
<1> DEFINE old == {i \in DOMAIN times : times[i] <= now - Window}
<1>2. old = (0 + 1)..n
  BY <1>0, <1>1
<1>3. Cardinality(old) = n
  <2>1. 0 \in Nat /\ n \in Nat /\ 0 <= n /\ n - 0 = n
    BY <1>0
  <2> HIDE DEF old
  <2> QED BY <1>2, <2>1, UpTo
<1> DEFINE r == SubSeq(times, n + 1, Len(times))
<1>4. Recent(times) = r
  BY <1>3 DEF Recent
<1>5. r \in Seq(Int) /\ Len(r) = Len(times) - n /\ \A i \in 1..(Len(times) - n) : r[i] = times[i + n]
  BY <1>0
<1> HIDE DEF r, old
<1> QED BY <1>1, <1>4, <1>5 DEF r

LEMMA FailuresFinite ==
  ASSUME SignInTypeOK, NEW t
  PROVE  IsFiniteSet(FailuresAfter(t)) /\ Cardinality(FailuresAfter(t)) \in Nat
<1>1. Len(outcomes) \in Nat /\ FailuresAfter(t) \subseteq 1..Len(outcomes)
  BY DEF SignInTypeOK, FailuresAfter
<1>2. IsFiniteSet(1..Len(outcomes))
  <2>1. 1 \in Int /\ Len(outcomes) \in Int
    BY <1>1
  <2> QED BY <2>1, FS_Interval
<1> QED BY <1>1, <1>2, FS_Subset, FS_CardinalityType

\* What the properties say follows.
LEMMA LocksFollow ==
  ASSUME SignInsAssumption, SignInsInv
  PROVE  LocksAsSaid
<1> DEFINE cut == now - Window
<1>0. /\ now \in Int /\ cut \in Int /\ Limit \in Nat \ {0} /\ Window \in Nat \ {0} /\ InOrder(fails) /\ Len(fails) <= Limit
      /\ Len(fails) \in Nat /\ \A i \in 1..Len(fails) : fails[i] \in Int /\ fails[i] <= now
  BY DEF SignInsAssumption, SignInsInv, SignInTypeOK, InOrder
<1>1. PICK n \in 0..Len(fails) :
           /\ \A i \in 1..Len(fails) : fails[i] > cut <=> i > n
           /\ Len(Recent(fails)) = Len(fails) - n
           /\ \A i \in 1..(Len(fails) - n) : Recent(fails)[i] = fails[i + n]
  BY <1>0, RecentIs
<1>2. Cardinality(Later(fails, cut)) = Len(fails) - n
  BY <1>0, <1>1, CountOfLater
<1>3. Len(fails) - n = AtMostLimit(Cardinality(FailuresSince)) /\ Cardinality(FailuresSince) \in Nat
  BY <1>0, <1>2, FailuresFinite DEF SignInsInv, CountsAgree, FailuresSince
<1>4. Locked <=> Cardinality(FailuresSince) >= Limit
  BY <1>0, <1>1, <1>3 DEF Locked, AtMostLimit
<1>5. ASSUME Locked
      PROVE  Wait \in 1..Window /\ Cardinality(FailuresAfter(now + Wait - Window)) < Limit
  <2>1. n = 0 /\ Len(fails) = Limit /\ Len(Recent(fails)) = Limit
    BY <1>0, <1>1, <1>5 DEF Locked
  <2>2. Wait = fails[1] + Window - now /\ fails[1] \in Int /\ fails[1] > cut /\ fails[1] <= now
    <3>1. Limit - Limit + 1 = 1 /\ 1 \in 1..Limit
      BY <1>0
    <3>2. Recent(fails)[1] = fails[1]
      <4>1. 1 + n = 1 /\ 1 \in 1..(Len(fails) - n)
        BY <1>0, <2>1
      <4> QED BY <1>1, <4>1
    <3>3. Wait = Recent(fails)[1] + Window - now
      BY <2>1, <3>1 DEF Wait
    <3>4. 1 \in 1..Len(fails) /\ 1 > n
      BY <2>1, <3>1
    <3> QED BY <1>0, <1>1, <3>2, <3>3, <3>4
  <2>3. now + Wait - Window = fails[1]
    BY <1>0, <2>2
  <2>4. PICK m \in 0..Len(fails) : \A i \in 1..Len(fails) : fails[i] > fails[1] <=> i > m
    BY <1>0, <2>2, Split
  <2>5. m >= 1
    BY <1>0, <2>1, <2>2, <2>4
  <2>6. Cardinality(Later(fails, fails[1])) = Limit - m
    BY <1>0, <2>1, <2>4, CountOfLater
  <2>7. Limit - m = AtMostLimit(Cardinality(FailuresAfter(fails[1]))) /\ Cardinality(FailuresAfter(fails[1])) \in Nat
    BY <1>0, <2>2, <2>6, FailuresFinite DEF SignInsInv, CountsAgree
  <2>8. Cardinality(FailuresAfter(fails[1])) < Limit
    BY <1>0, <2>4, <2>5, <2>7 DEF AtMostLimit
  <2> QED BY <1>0, <2>2, <2>3, <2>8
<1> QED BY <1>4, <1>5 DEF LocksAsSaid

LEMMA InitSignIns ==
  ASSUME SignInsAssumption, SignInsInit
  PROVE  SignInsInv
<1>1. fails = <<>> /\ outcomes = <<>> /\ now = 0
  BY DEF SignInsInit
<1>2. SignInTypeOK
  BY <1>1 DEF SignInTypeOK, InOrder, SignInsAssumption
<1>3. ASSUME NEW t PROVE Later(fails, t) = {} /\ FailuresAfter(t) = {}
  BY <1>1 DEF Later, FailuresAfter
<1>4. AtMostLimit(0) = 0
  BY DEF AtMostLimit, SignInsAssumption
<1> QED BY <1>2, <1>3, <1>4, FS_EmptySet DEF SignInsInv, CountsAgree

\* An outcome that is neither a failure nor a success changes no count.
LEMMA OutcomesGrow ==
  ASSUME SignInTypeOK, NEW o \in Outcome, o.at = now, outcomes' = Append(outcomes, o)
  PROVE  /\ outcomes' \in Seq(Outcome) /\ Len(outcomes') = Len(outcomes) + 1 /\ Len(outcomes) \in Nat
         /\ \A k \in 1..Len(outcomes) : outcomes'[k] = outcomes[k]
         /\ outcomes'[Len(outcomes) + 1] = o
         /\ \A k \in 1..Len(outcomes') : outcomes'[k].at <= now
<1>1. /\ outcomes' \in Seq(Outcome) /\ Len(outcomes') = Len(outcomes) + 1 /\ Len(outcomes) \in Nat
      /\ \A k \in 1..Len(outcomes) : outcomes'[k] = outcomes[k]
      /\ outcomes'[Len(outcomes) + 1] = o
  BY DEF SignInTypeOK
<1>2. ASSUME NEW k \in 1..Len(outcomes') PROVE outcomes'[k].at <= now
  <2>1. k \in 1..Len(outcomes) \/ k = Len(outcomes) + 1
    BY <1>1
  <2> QED BY <1>1, <2>1 DEF SignInTypeOK
<1> QED BY <1>1, <1>2

LEMMA RefusedCountsNothing ==
  ASSUME SignInTypeOK, NEW o \in Outcome, o.at = now, o.how = "refused", outcomes' = Append(outcomes, o), NEW t
  PROVE  FailuresAfter(t)' = FailuresAfter(t)
<1>1. /\ Len(outcomes') = Len(outcomes) + 1 /\ Len(outcomes) \in Nat
      /\ \A k \in 1..Len(outcomes) : outcomes'[k] = outcomes[k]
      /\ outcomes'[Len(outcomes) + 1] = o
      /\ DOMAIN outcomes' = 1..Len(outcomes') /\ DOMAIN outcomes = 1..Len(outcomes)
  BY OutcomesGrow DEF SignInTypeOK
<1>2. ASSUME NEW k PROVE k \in FailuresAfter(t)' <=> k \in FailuresAfter(t)
  <2>1. k \in FailuresAfter(t)' => k \in 1..Len(outcomes)
    BY <1>1 DEF FailuresAfter
  <2>2. k \in FailuresAfter(t) => k \in 1..Len(outcomes)
    BY <1>1 DEF FailuresAfter
  <2>3. ASSUME k \in 1..Len(outcomes)
        PROVE  (\A j \in k..Len(outcomes') : outcomes'[j].how # "succeeded") <=> (\A j \in k..Len(outcomes) : outcomes[j].how # "succeeded")
    <3>1. \A j \in k..Len(outcomes) : j \in 1..Len(outcomes) /\ j \in k..Len(outcomes')
      BY <1>1, <2>3
    <3>2. \A j \in k..Len(outcomes') : j \in k..Len(outcomes) \/ j = Len(outcomes) + 1
      BY <1>1, <2>3
    <3> QED BY <1>1, <3>1, <3>2
  <2>4. k \in 1..Len(outcomes) => k \in 1..Len(outcomes')
    BY <1>1
  <2> QED BY <1>1, <2>1, <2>2, <2>3, <2>4 DEF FailuresAfter
<1> QED BY <1>2

LEMMA RefusedKeeps ==
  ASSUME SignInsAssumption, SignInsInv, outcomes' = Append(outcomes, [at |-> now, how |-> "refused"]), UNCHANGED <<now, fails>>
  PROVE  SignInsInv'
<1> DEFINE o == [at |-> now, how |-> "refused"]
<1>1. o \in Outcome /\ o.at = now /\ o.how = "refused"
  BY DEF Outcome, SignInsInv, SignInTypeOK
<1> HIDE DEF o
<1>2. outcomes' = Append(outcomes, o)
  BY DEF o
<1>3. SignInTypeOK'
  BY <1>1, <1>2, OutcomesGrow DEF SignInsInv, SignInTypeOK
<1>4. \A t : FailuresAfter(t)' = FailuresAfter(t) /\ Later(fails, t)' = Later(fails, t)
  BY <1>1, <1>2, RefusedCountsNothing DEF SignInsInv, Later
<1> QED BY <1>3, <1>4 DEF SignInsInv, CountsAgree

LEMMA SucceededKeeps ==
  ASSUME SignInsAssumption, SignInsInv, Succeeded
  PROVE  SignInsInv'
<1> DEFINE o == [at |-> now, how |-> "succeeded"]
<1>1. o \in Outcome /\ o.at = now /\ o.how = "succeeded"
  BY DEF Outcome, SignInsInv, SignInTypeOK
<1> HIDE DEF o
<1>2. outcomes' = Append(outcomes, o) /\ fails' = <<>> /\ now' = now
  BY DEF o, Succeeded
<1>3. SignInTypeOK'
  <2>1. InOrder(fails') /\ Len(fails') = 0
    BY <1>2 DEF InOrder
  <2> QED BY <1>1, <1>2, <2>1, OutcomesGrow DEF SignInsInv, SignInTypeOK, SignInsAssumption
<1>4. ASSUME NEW t PROVE FailuresAfter(t)' = {} /\ Later(fails, t)' = {}
  <2>1. /\ Len(outcomes') = Len(outcomes) + 1 /\ Len(outcomes) \in Nat /\ outcomes'[Len(outcomes')] = o
        /\ DOMAIN outcomes' = 1..Len(outcomes')
    BY <1>1, <1>2, OutcomesGrow DEF SignInsInv
  <2>2. \A k \in 1..Len(outcomes') : Len(outcomes') \in k..Len(outcomes')
    BY <2>1
  <2> QED BY <1>1, <1>2, <2>1, <2>2 DEF FailuresAfter, Later
<1>5. AtMostLimit(0) = 0
  BY DEF AtMostLimit, SignInsAssumption
<1> QED BY <1>3, <1>4, <1>5, FS_EmptySet DEF SignInsInv, CountsAgree

\* A failure counts for the times before it.
LEMMA FailedCounts ==
  ASSUME SignInTypeOK, NEW o \in Outcome, o.at = now, o.how = "failed", outcomes' = Append(outcomes, o), NEW t \in Int, t < now
  PROVE  Cardinality(FailuresAfter(t)') = Cardinality(FailuresAfter(t)) + 1
<1>1. /\ Len(outcomes') = Len(outcomes) + 1 /\ Len(outcomes) \in Nat
      /\ \A k \in 1..Len(outcomes) : outcomes'[k] = outcomes[k]
      /\ outcomes'[Len(outcomes) + 1] = o
      /\ DOMAIN outcomes' = 1..Len(outcomes') /\ DOMAIN outcomes = 1..Len(outcomes)
  BY OutcomesGrow DEF SignInTypeOK
<1>2. ASSUME NEW k PROVE k \in FailuresAfter(t)' <=> k \in FailuresAfter(t) \/ k = Len(outcomes) + 1
  <2>1. k \in FailuresAfter(t)' => k \in 1..Len(outcomes) \/ k = Len(outcomes) + 1
    BY <1>1 DEF FailuresAfter
  <2>2. k \in FailuresAfter(t) => k \in 1..Len(outcomes)
    BY <1>1 DEF FailuresAfter
  <2>3. ASSUME k \in 1..Len(outcomes)
        PROVE  (\A j \in k..Len(outcomes') : outcomes'[j].how # "succeeded") <=> (\A j \in k..Len(outcomes) : outcomes[j].how # "succeeded")
    <3>1. \A j \in k..Len(outcomes) : j \in 1..Len(outcomes) /\ j \in k..Len(outcomes')
      BY <1>1, <2>3
    <3>2. \A j \in k..Len(outcomes') : j \in k..Len(outcomes) \/ j = Len(outcomes) + 1
      BY <1>1, <2>3
    <3> QED BY <1>1, <3>1, <3>2
  <2>4. k \in 1..Len(outcomes) => k \in 1..Len(outcomes') /\ k # Len(outcomes) + 1
    BY <1>1
  <2>5. k = Len(outcomes) + 1 => k \in FailuresAfter(t)'
    <3>1. Len(outcomes) + 1 \in 1..Len(outcomes') /\ \A j \in (Len(outcomes) + 1)..Len(outcomes') : j = Len(outcomes) + 1
      BY <1>1
    <3>2. o.at > t /\ o.how # "succeeded"
      BY DEF SignInTypeOK
    <3> QED BY <1>1, <3>1, <3>2 DEF FailuresAfter
  <2> QED BY <1>1, <2>1, <2>2, <2>3, <2>4, <2>5 DEF FailuresAfter
<1>3. FailuresAfter(t)' = FailuresAfter(t) \cup {Len(outcomes) + 1}
  BY <1>2
<1>4. Len(outcomes) + 1 \notin FailuresAfter(t)
  BY <1>1 DEF FailuresAfter
<1> QED BY <1>3, <1>4, FailuresFinite, FS_AddElement

\* The arithmetic of what is kept: of M times, d of them dropped, b up to t.
LEMMA KeptCounts ==
  ASSUME NEW L \in Int, NEW n \in Int, NEW p \in Int, NEW M \in Int, NEW d \in Int, NEW b \in Int, Limit \in Int,
         n <= p, p <= L, M = L - n + 1, M <= Limit + 1, 0 < Limit,
         d = IF M > Limit THEN 1 ELSE 0, b = IF p - n < d THEN 0 ELSE p - n - d
  PROVE  M - d - b = AtMostLimit(L - p + 1) /\ 0 <= b /\ b <= M - d
<1>1. CASE M > Limit
  <2>1. d = 1 /\ M = Limit + 1
    BY <1>1
  <2>2. CASE p = n
    <3>1. b = 0 /\ L - p + 1 > Limit /\ M - d - b = Limit
      BY <2>1, <2>2
    <3> QED BY <2>1, <3>1 DEF AtMostLimit
  <2>3. CASE p > n
    <3>1. b = p - n - 1 /\ ~(L - p + 1 > Limit)
      BY <2>1, <2>3
    <3>2. M - d - b = L - p + 1
      BY <2>1, <3>1
    <3> QED BY <2>1, <2>3, <3>1, <3>2 DEF AtMostLimit
  <2> QED BY <2>2, <2>3
<1>2. CASE ~(M > Limit)
  <2>1. d = 0 /\ b = p - n /\ ~(L - p + 1 > Limit)
    BY <1>2
  <2>2. M - d - b = L - p + 1
    BY <2>1
  <2> QED BY <2>1, <2>2 DEF AtMostLimit
<1> QED BY <1>1, <1>2

\* Failed keeps the failures in the window, the new one last, and as many as
\* it needs.
LEMMA KeptFailures ==
  ASSUME SignInsAssumption, SignInTypeOK, NEW f, f = Keep(Append(Recent(fails), now))
  PROVE  /\ InOrder(f) /\ Len(f) <= Limit /\ \A i \in 1..Len(f) : f[i] <= now
         /\ \A t \in Int : now - Window <= t /\ t < now =>
              Cardinality(Later(f, t)) = AtMostLimit(Cardinality(Later(fails, t)) + 1)
<1> DEFINE cut == now - Window
           L == Len(fails)
<1>0. /\ now \in Int /\ cut \in Int /\ Limit \in Nat \ {0} /\ Window \in Nat \ {0} /\ InOrder(fails) /\ L <= Limit
      /\ L \in Nat /\ \A i \in 1..L : fails[i] \in Int /\ fails[i] <= now
      /\ \A i, j \in 1..L : i <= j => fails[i] <= fails[j]
  BY DEF SignInsAssumption, SignInTypeOK, InOrder
<1>1. PICK n \in 0..L :
           /\ \A i \in 1..L : fails[i] > cut <=> i > n
           /\ Recent(fails) \in Seq(Int) /\ Len(Recent(fails)) = L - n
           /\ \A i \in 1..(L - n) : Recent(fails)[i] = fails[i + n]
  BY <1>0, RecentIs
<1> DEFINE g == Append(Recent(fails), now)
<1>K. L - n + 1 \in Int
  BY <1>0, <1>1
<1> HIDE DEF L
<1>M. PICK M \in Int : M = L - n + 1
  BY <1>K, Zenon
<1>N. n \in Int /\ 0 <= n /\ n <= L /\ M - 1 = L - n
  BY <1>0, <1>1, <1>M
<1> USE DEF L
<1>2. /\ g \in Seq(Int) /\ Len(g) = M /\ g[M] = now /\ M \in Nat \ {0}
      /\ \A i \in 1..(M - 1) : g[i] = fails[i + n] /\ i + n \in 1..L
  <2>1. /\ g \in Seq(Int) /\ Len(g) = M /\ g[M] = now /\ M \in Nat \ {0}
    BY <1>0, <1>1, <1>N
  <2>2. ASSUME NEW i \in 1..(M - 1) PROVE g[i] = fails[i + n] /\ i + n \in 1..L
    BY <1>0, <1>1, <1>N
  <2> QED BY <2>1, <2>2
<1> HIDE DEF g
<1>3. \A i \in 1..M : g[i] \in Int /\ g[i] <= now
  <2>1. ASSUME NEW i \in 1..M PROVE g[i] \in Int /\ g[i] <= now
    <3>1. CASE i = M
      BY <1>0, <1>2, <3>1
    <3>2. CASE i # M
      <4>1. i \in 1..(M - 1)
        BY <3>2
      <4>2. g[i] = fails[i + n] /\ i + n \in 1..L
        BY <1>2, <4>1
      <4> QED BY <1>0, <4>2
    <3> QED BY <3>1, <3>2
  <2> QED BY <2>1
<1>4. \A i, j \in 1..M : i <= j => g[i] <= g[j]
  <2>1. ASSUME NEW i \in 1..M, NEW j \in 1..M, i <= j PROVE g[i] <= g[j]
    <3>1. CASE j = M
      BY <1>2, <1>3, <3>1
    <3>2. CASE j # M
      <4>1. i \in 1..(M - 1) /\ j \in 1..(M - 1) /\ i + n <= j + n
        BY <1>N, <2>1, <3>2
      <4> QED BY <1>0, <1>2, <4>1
    <3> QED BY <3>1, <3>2
  <2> QED BY <2>1
\* Kept is all of them, or all but the first.
<1>D. PICK d \in Int : d = IF M > Limit THEN 1 ELSE 0
  OBVIOUS
<1>5. M <= Limit + 1
  BY <1>0, <1>N
<1>6. /\ f \in Seq(Int) /\ Len(f) = M - d /\ d \in {0, 1} /\ M - d <= Limit /\ M - d >= 1
      /\ \A i \in 1..(M - d) : f[i] = g[i + d] /\ i + d \in 1..M
  <2>1. CASE M > Limit
    <3>1. M = Limit + 1 /\ M - Limit + 1 = 2
      BY <1>0, <1>5, <2>1
    <3>2. f = SubSeq(g, 2, M)
      BY <1>2, <2>1, <3>1 DEF Keep, g
    <3> QED BY <1>0, <1>2, <1>D, <2>1, <3>1, <3>2
  <2>2. CASE ~(M > Limit)
    <3>1. f = g
      BY <1>2, <2>2 DEF Keep, g
    <3> QED BY <1>0, <1>2, <1>D, <2>2, <3>1
  <2> QED BY <2>1, <2>2
<1>7. InOrder(f)
  <2>1. ASSUME NEW i \in 1..(M - d), NEW j \in 1..(M - d), i <= j PROVE f[i] <= f[j]
    <3>1. i + d \in 1..M /\ j + d \in 1..M /\ i + d <= j + d
      BY <1>2, <1>6, <2>1
    <3> QED BY <1>4, <1>6, <3>1
  <2> QED BY <1>6, <2>1 DEF InOrder
<1>8. \A i \in 1..Len(f) : f[i] <= now
  BY <1>3, <1>6
<1>9. ASSUME NEW t \in Int, cut <= t, t < now
      PROVE  Cardinality(Later(f, t)) = AtMostLimit(Cardinality(Later(fails, t)) + 1)
  <2>1. PICK p \in 0..L : \A i \in 1..L : fails[i] > t <=> i > p
    BY <1>0, Split
  <2>2. p >= n
    <3>1. SUFFICES ASSUME p < n PROVE FALSE
      BY <1>0, <1>1, <2>1
    <3>2. p + 1 \in 1..L /\ p + 1 > p /\ ~(p + 1 > n)
      BY <1>0, <1>1, <2>1, <3>1
    <3> QED BY <1>0, <1>1, <1>9, <2>1, <3>2
  <2>3. Cardinality(Later(fails, t)) = L - p
    BY <1>0, <2>1, CountOfLater
  <2>4. ASSUME NEW i \in 1..M PROVE g[i] > t <=> i + n > p
    <3>1. CASE i = M
      <4>1. i + n > p
        BY <1>0, <1>M, <1>N, <2>1, <3>1
      <4> QED BY <1>0, <1>2, <1>9, <3>1, <4>1
    <3>2. CASE i # M
      <4>1. i \in 1..(M - 1)
        BY <3>2
      <4>2. g[i] = fails[i + n] /\ i + n \in 1..L
        BY <1>2, <4>1
      <4> QED BY <2>1, <4>2
    <3> QED BY <3>1, <3>2
  <2>A. (IF p - n < d THEN 0 ELSE p - n - d) \in Int
    BY <1>D, <1>N, <2>1
  <2>B. PICK b \in Int : b = IF p - n < d THEN 0 ELSE p - n - d
    BY <2>A, Zenon
  <2>7. M - d - b = AtMostLimit(L - p + 1) /\ 0 <= b /\ b <= M - d
    <3>1. p \in Int /\ p <= L /\ L \in Int /\ Limit \in Int /\ 0 < Limit
      BY <1>0, <2>1
    <3> HIDE DEF L
    <3>2. n \in Int /\ M = L - n + 1 /\ M <= Limit + 1 /\ n <= p /\ M \in Int /\ d \in Int /\ b \in Int
      BY <1>M, <1>N, <1>5, <2>2, <3>1
    <3> QED BY <1>D, <2>B, <3>1, <3>2, KeptCounts
  <2>5. ASSUME NEW i \in 1..(M - d) PROVE f[i] > t <=> i > b
    <3>1. i \in Int /\ 1 <= i /\ p \in Int
      BY <1>0, <1>D, <2>1
    <3>2. f[i] > t <=> i + d + n > p
      BY <1>6, <2>4
    <3>3. i + d + n > p <=> i > b
      <4>1. CASE p - n < d
        BY <1>N, <2>B, <3>1, <4>1
      <4>2. CASE ~(p - n < d)
        <5>1. b = p - n - d
          BY <2>B, <4>2
        <5> QED BY <1>N, <3>1, <5>1
      <4> QED BY <4>1, <4>2
    <3> QED BY <3>2, <3>3
  <2>6. Cardinality(Later(f, t)) = M - d - b
    <3>1. Len(f) \in Nat /\ b \in 0..Len(f)
      BY <1>6, <2>7
    <3> QED BY <1>6, <2>5, <3>1, CountOfLater
  <2> QED BY <2>3, <2>6, <2>7
<1> QED BY <1>6, <1>7, <1>8, <1>9

LEMMA FailedKeeps ==
  ASSUME SignInsAssumption, SignInsInv, Failed
  PROVE  SignInsInv'
<1> DEFINE o == [at |-> now, how |-> "failed"]
<1>1. o \in Outcome /\ o.at = now /\ o.how = "failed"
  BY DEF Outcome, SignInsInv, SignInTypeOK
<1> HIDE DEF o
<1>2. outcomes' = Append(outcomes, o) /\ fails' = Keep(Append(Recent(fails), now)) /\ now' = now
  BY DEF o, Failed
<1>3. /\ InOrder(fails') /\ Len(fails') <= Limit /\ \A i \in 1..Len(fails') : fails'[i] <= now
      /\ \A t \in Int : now - Window <= t /\ t < now =>
           Cardinality(Later(fails', t)) = AtMostLimit(Cardinality(Later(fails, t)) + 1)
  BY <1>2, KeptFailures DEF SignInsInv
<1>4. SignInTypeOK'
  BY <1>1, <1>2, <1>3, OutcomesGrow DEF SignInsInv, SignInTypeOK
<1>5. ASSUME NEW t \in Int, t >= now - Window
      PROVE  Cardinality(Later(fails', t)) = AtMostLimit(Cardinality(FailuresAfter(t)'))
  <2>0. now \in Int /\ Limit \in Nat /\ Window \in Nat
    BY DEF SignInsInv, SignInTypeOK, SignInsAssumption
  <2>1. CASE t < now
    <3>1. Cardinality(FailuresAfter(t)') = Cardinality(FailuresAfter(t)) + 1 /\ Cardinality(FailuresAfter(t)) \in Nat
      BY <1>1, <1>2, <2>1, FailedCounts, FailuresFinite DEF SignInsInv
    <3>2. Cardinality(Later(fails, t)) = AtMostLimit(Cardinality(FailuresAfter(t)))
      BY <1>5 DEF SignInsInv, CountsAgree
    <3>3. Cardinality(Later(fails', t)) = AtMostLimit(Cardinality(Later(fails, t)) + 1)
      BY <1>3, <1>5, <2>0, <2>1
    <3> QED BY <2>0, <3>1, <3>2, <3>3 DEF AtMostLimit
  <2>2. CASE ~(t < now)
    <3>1. FailuresAfter(t)' = {}
      <4>1. ASSUME NEW k \in DOMAIN outcomes' PROVE outcomes'[k].at \in Int /\ ~(outcomes'[k].at > t)
        <5>1. k \in 1..Len(outcomes') /\ outcomes'[k] \in Outcome
          BY <1>4 DEF SignInTypeOK
        <5>2. outcomes'[k].at \in Nat
          BY <5>1 DEF Outcome
        <5>3. outcomes'[k].at <= now
          BY <1>2, <1>4, <5>1 DEF SignInTypeOK
        <5> QED BY <2>0, <2>2, <5>2, <5>3
      <4> QED BY <4>1 DEF FailuresAfter
    <3>2. Later(fails', t) = {}
      <4>1. \A i \in 1..Len(fails') : fails'[i] \in Int /\ ~(fails'[i] > t)
        BY <1>3, <2>0, <2>2 DEF InOrder
      <4> QED BY <4>1 DEF Later
    <3>3. AtMostLimit(0) = 0
      BY <2>0 DEF AtMostLimit
    <3> QED BY <3>1, <3>2, <3>3, FS_EmptySet
  <2> QED BY <2>1, <2>2
<1> QED BY <1>2, <1>4, <1>5 DEF SignInsInv, CountsAgree, Later

LEMMA NextSignIns ==
  ASSUME SignInsAssumption, SignInsInv, [SignInsNext]_signInVars
  PROVE  SignInsInv'
<1>1. CASE Tick
  <2>1. now' = now + 1 /\ UNCHANGED <<fails, outcomes>> /\ now \in Nat /\ Window \in Nat
    BY <1>1 DEF Tick, SignInsInv, SignInTypeOK, SignInsAssumption
  <2>2. SignInTypeOK'
    <3>1. \A i \in 1..Len(fails) : fails[i] \in Int /\ fails[i] <= now + 1
      BY <2>1 DEF SignInsInv, SignInTypeOK, InOrder
    <3>2. ASSUME NEW k \in 1..Len(outcomes) PROVE outcomes[k].at \in Nat /\ outcomes[k].at <= now + 1
      <4>1. outcomes[k] \in Outcome /\ outcomes[k].at <= now
        BY DEF SignInsInv, SignInTypeOK
      <4>2. outcomes[k].at \in Nat
        BY <4>1 DEF Outcome
      <4> QED BY <2>1, <4>1, <4>2
    <3>3. now' \in Nat /\ outcomes' \in Seq(Outcome)
      BY <2>1 DEF SignInsInv, SignInTypeOK
    <3>4. InOrder(fails') /\ Len(fails') <= Limit
      BY <2>1 DEF SignInsInv, SignInTypeOK
    <3>5. \A i \in 1..Len(fails') : fails'[i] <= now'
      BY <2>1, <3>1
    <3>6. \A k \in 1..Len(outcomes') : outcomes'[k].at <= now'
      BY <2>1, <3>2
    <3> QED BY <3>3, <3>4, <3>5, <3>6 DEF SignInTypeOK, InOrder
  <2>3. \A t \in Int : t >= now' - Window => t >= now - Window
    BY <2>1
  <2> QED BY <2>1, <2>2, <2>3 DEF SignInsInv, CountsAgree, Later, FailuresAfter
<1>2. CASE LoginLimited
  BY <1>2, RefusedKeeps DEF LoginLimited
<1>3. CASE LoginLocked
  BY <1>3, RefusedKeeps DEF LoginLocked
<1>4. CASE UNCHANGED <<now, fails, outcomes>>
  BY <1>4 DEF SignInsInv, SignInTypeOK, InOrder, CountsAgree, Later, FailuresAfter
<1>5. LoginChecks \/ CollectGarbage \/ UNCHANGED signInVars => UNCHANGED <<now, fails, outcomes>>
  BY DEF LoginChecks, CollectGarbage, signInVars
<1> QED BY <1>1, <1>2, <1>3, <1>4, <1>5, FailedKeeps, SucceededKeeps DEF SignInsNext

\* Who may do what, as the places that decide on it see it.  Service guards the
\* last owner when a request that takes the role, the status or the account
\* away is checked; the SQL of each list and the resolver of each resource ask
\* the same of a caller; accountGuard locks an account exactly while Limit
\* failures are in the window.  Two things are asked: requests that change an
\* account are written before the next one is checked, and a task runs on the
\* server its resource is on.
THEOREM AccessIsAgreed ==
  EditsOneByOne /\ RunsAtHome => (AccountsSpec /\ AuthorizationSpec /\ SignInsSpec => []AccessAgrees)
<1> SUFFICES ASSUME EditsOneByOne, RunsAtHome
             PROVE  AccountsSpec /\ AuthorizationSpec /\ SignInsSpec => []AccessAgrees
  OBVIOUS
<1> DEFINE Owners == AccessInv /\ OwnerInv
<1>1. AccountsInit => Owners
  BY InitAccess, InitOwner, AccountsAssumption DEF AccessInv
<1>2. Owners /\ [AccountsNext]_accountVars => Owners'
  <2>1. AccessInv /\ [AccountsNext]_accountVars => AccessInv' /\ AccountsTypeOK'
    BY NextAccess, AccountsAssumption DEF AccessInv
  <2> QED BY <2>1, NextOwner, AccountsAssumption
<1>3. AccountsSpec => []Owners
  BY <1>1, <1>2, PTL DEF AccountsSpec
<1>4. SignInsInit => SignInsInv
  BY InitSignIns, SignInsAssumption
<1>5. SignInsInv /\ [SignInsNext]_signInVars => SignInsInv'
  BY NextSignIns, SignInsAssumption
<1>6. SignInsSpec => []SignInsInv
  BY <1>4, <1>5, PTL DEF SignInsSpec
<1>7. ListsWhatOpens /\ InstancesListed /\ OverviewMirrors
  BY ListsAreOpen, InstancesAreListed, OverviewIsMirrored, AuthorizationAssumption
<1>8. Owners /\ SignInsInv => AccessAgrees
  BY <1>7, LocksFollow, SignInsAssumption DEF OwnerInv, AccessAgrees
<1> QED BY <1>3, <1>6, <1>8, PTL

---------------------------------------------------------------------------
(* The account of the console *)

\* What a request holds the lock of its replica for, and of that to provision.
Provisions == {"create", "create again", "replace", "grant", "put", "upsert", "undo"}
UnderLock == Provisions \cup {"recheck", "secret", "reset", "grant repaired"}
Unlocked == {"get", "load", "connect", "run", "lock", "lock to repair", "repair", "reapply", "grant again"}
ConsoleRequest ==
  [step : UnderLock \cup Unlocked \cup Ended \cup {"not yet"}, replica : Replica \cup {"none"},
   script : ConsoleScripts \cup {<<>>}, password : Int, at : {1, 2},
   then : {"none", "get", "load", "connect"}, repaired : BOOLEAN, reapplied : BOOLEAN, alone : BOOLEAN, clean : BOOLEAN]

ConsoleTypeOK ==
  /\ engine \in Engines /\ replicas \in SUBSET Replica
  /\ account \in [login : {"none", "on", "off"}, password : Int, grants : {"none", "some", "all"}]
  /\ database \in {"there", "dropped"} /\ dropping \in {"no", "list", "account", "secret", "row", "done"}
  /\ role \in BOOLEAN /\ secret \in Request \cup {0} /\ outside \in Nat
  /\ holder \in [Replica -> Request \cup {0}] /\ req \in [Request -> ConsoleRequest]
  /\ effects \in [Request -> [{1, 2} -> {0, 1}]]

\* A request under way runs one of the scripts on a replica that runs, under
\* its lock, and knows where to go on.
UnderWay(r) ==
  Under(r) => /\ req[r].script \in ConsoleScripts /\ req[r].replica \in replicas
              /\ req[r].step \in UnderLock => holder[req[r].replica] = r
              /\ req[r].step \in Provisions \cup {"lock", "recheck"} => req[r].then # "none"

\* What a request is still to run has had no effect.
NotYetRun(r) ==
  /\ req[r].at = 2 => At(r, "run")
  /\ req[r].step \notin Ended => \A i \in {1, 2} : i >= req[r].at => effects[r][i] = 0

RoleIsKept == database = "there" => dropping = "no" /\ (role => secret # 0)

\* One replica does one thing at a time: nobody drops the account of a role.
OneReplica == \A p, q \in replicas : p = q
OneAtWork(r) ==
  /\ req[r].step \in Provisions => ~role
  /\ req[r].step \in {"grant", "put", "upsert"} => Accepts(account, r)
  /\ At(r, "upsert") => secret = r
  /\ At(r, "reset") => secret = req[r].password
RoleOpens ==
  OneReplica /\ outside = 0 /\ database = "there" =>
    (role => Accepts(account, secret)) /\ \A r \in Request : OneAtWork(r)

\* A request that is alone meets what it left.
Making == {"lock", "recheck", "create", "create again", "replace", "grant", "put", "upsert"}
Repairing == {"repair", "lock to repair", "secret", "reset", "grant repaired"}
Using == {"connect", "run", "reapply", "grant again"}
Undisturbed(q) == q.alone /\ (q.clean \/ engine = "mysql") /\ Allowed(q.script)
AloneAt(q) ==
  /\ database = "there" /\ q.step \notin {"failed", "undo"}
  /\ q.step \in Repairing \cup Using \cup {"load"} => role
  /\ q.step \in Making => ~role /\ q.then = "load"
  /\ q.step \in Making \cup Repairing => ~q.repaired
  /\ (q.step = "get" /\ ~role) \/ q.step \in {"lock", "recheck", "create"} => engine = "mysql" \/ ~Exists(account)
  /\ q.step = "replace" => engine = "mysql"
  /\ q.step = "create again" => ~Exists(account)
  /\ q.step = "upsert" => secret # 0
  /\ q.step \in Using \cup {"reset"} => q.password = secret
  /\ q.repaired \/ q.step \in {"run", "reapply", "grant again", "grant repaired"} => role /\ Accepts(account, secret)
  /\ q.reapplied => q.step \in {"connect", "run"} /\ Accepts(account, secret) /\ account.grants = "all"
AloneWorks == \A r \in Request : Undisturbed(req[r]) => AloneAt(req[r])

ConsoleInv ==
  /\ ConsoleTypeOK /\ RoleIsKept /\ RoleOpens /\ AloneWorks
  /\ \A r \in Request : UnderWay(r) /\ NotYetRun(r)

---------------------------------------------------------------------------
(* A step of one request *)

Accounts == [login : {"none", "on", "off"}, password : Int, grants : {"none", "some", "all"}]

\* Nobody else makes it: the others are not alone any more.
OthersLeft(r) ==
  /\ req' \in [Request -> ConsoleRequest]
  /\ \A q \in Request : q # r => req'[q] = [req[q] EXCEPT !.alone = FALSE]

LEMMA NumbersAreInts == \A r \in Request : r \in Int /\ r # 0
BY ConsoleLoginsAssumption

LEMMA RecordMoves ==
  ASSUME ConsoleTypeOK, NEW r \in Request, NEW q \in ConsoleRequest, NEW s \in {r, 0},
         req' = [OthersMoved(s) EXCEPT ![r] = q]
  PROVE  OthersLeft(r) /\ req'[r] = q
<1> DEFINE NotAlone(x) == [req[x] EXCEPT !.alone = FALSE]
<1>1. \A x \in Request : req[x] \in ConsoleRequest /\ NotAlone(x) \in ConsoleRequest
  BY DEF ConsoleTypeOK, ConsoleRequest
<1>2. \A x \in Request : x # r => x # s
  BY NumbersAreInts
<1>3. req' = [x \in Request |-> IF x = r THEN q ELSE NotAlone(x)]
  <2>1. OthersMoved(s) = [x \in Request |-> IF x # s THEN NotAlone(x) ELSE req[x]]
    BY DEF OthersMoved
  <2> HIDE DEF NotAlone
  <2> QED BY <2>1, <1>2, Zenon
<1> QED
  <2> HIDE DEF NotAlone, ConsoleRequest
  <2>1. req' \in [Request -> ConsoleRequest] /\ req'[r] = q
    BY <1>1, <1>3
  <2>2. \A x \in Request : x # r => req'[x] = NotAlone(x)
    BY <1>3
  <2> QED BY <2>1, <2>2 DEF OthersLeft, NotAlone

LEMMA NowIsRequest ==
  ASSUME ConsoleTypeOK, NEW r \in Request, NEW to \in UnderLock \cup Unlocked \cup Ended
  PROVE  NowAt(r, to) \in ConsoleRequest /\ [NowAt(r, to) EXCEPT !.alone = FALSE] \in ConsoleRequest
<1>1. req[r] \in ConsoleRequest
  BY DEF ConsoleTypeOK
<1>2. CASE to \in Ended
  <2>1. NotYet \in ConsoleRequest
    BY DEF NotYet, ConsoleRequest
  <2>2. NowAt(r, to) = [[[[NotYet EXCEPT !.step = to] EXCEPT !.script = req[r].script] EXCEPT !.alone = req[r].alone]
                             EXCEPT !.clean = req[r].clean]
    BY <1>2 DEF NowAt
  <2>3. NowAt(r, to) \in ConsoleRequest
    BY <1>1, <2>1, <2>2 DEF ConsoleRequest
  <2> QED BY <2>3 DEF ConsoleRequest
<1>3. CASE to \notin Ended
  BY <1>1, <1>3 DEF NowAt, ConsoleRequest
<1> QED BY <1>2, <1>3

LEMMA GoMoves ==
  ASSUME ConsoleTypeOK, NEW r \in Request, NEW to \in UnderLock \cup Unlocked \cup Ended, Go(r, to)
  PROVE  OthersLeft(r) /\ req'[r] = NowAt(r, to)
BY NowIsRequest, RecordMoves DEF Go

LEMMA FailMoves ==
  ASSUME ConsoleTypeOK, NEW r \in Request, NEW to \in UnderLock \cup Unlocked \cup Ended, Fail(r, to)
  PROVE  OthersLeft(r) /\ req'[r] = [NowAt(r, to) EXCEPT !.alone = FALSE]
BY NowIsRequest, RecordMoves DEF Fail

LEMMA LeftAsTheyWere ==
  ASSUME ConsoleTypeOK, NEW r \in Request, OthersLeft(r), NEW q \in Request, q # r
  PROVE  /\ req'[q].step = req[q].step /\ req'[q].replica = req[q].replica /\ req'[q].script = req[q].script
         /\ req'[q].password = req[q].password /\ req'[q].at = req[q].at /\ req'[q].then = req[q].then
         /\ req'[q].alone = FALSE
<1>1. req[q] \in ConsoleRequest /\ req'[q] = [req[q] EXCEPT !.alone = FALSE]
  BY DEF ConsoleTypeOK, OthersLeft
<1> QED BY <1>1 DEF ConsoleRequest

\* The lock it may take or release.
Locks(r) ==
  /\ holder' \in [Replica -> Request \cup {0}]
  /\ \A p \in Replica : holder'[p] = holder[p] \/ holder[p] \in {0, r}

LEMMA NoLocks ==
  ASSUME ConsoleTypeOK, NoLockChange, NEW r \in Request
  PROVE  Locks(r)
BY DEF ConsoleTypeOK, NoLockChange, Locks

LEMMA ReleaseLocks ==
  ASSUME ConsoleTypeOK, NEW r \in Request, Release(r)
  PROVE  Locks(r)
BY DEF ConsoleTypeOK, Release, Locks

\* What it leaves for itself.
Own(r) == UnderWay(r) /\ NotYetRun(r) /\ (Undisturbed(req[r]) => AloneAt(req[r]))

LEMMA StepKeeps ==
  ASSUME ConsoleInv, NEW r \in Request, OthersLeft(r), Locks(r), serverUnchanged,
         account' \in Accounts, role' \in BOOLEAN, secret' \in Request \cup {0},
         effects' \in [Request -> [{1, 2} -> {0, 1}]], \A q \in Request : q # r => effects'[q] = effects[q],
         Own(r)', RoleIsKept', RoleOpens'
  PROVE  ConsoleInv'
<1>1. ConsoleTypeOK'
  BY DEF ConsoleInv, ConsoleTypeOK, OthersLeft, Locks, serverUnchanged, Accounts
<1>2. ASSUME NEW q \in Request, q # r
      PROVE  UnderWay(q)' /\ NotYetRun(q)' /\ ~Undisturbed(req[q])'
  <2>1. /\ req'[q].step = req[q].step /\ req'[q].replica = req[q].replica /\ req'[q].script = req[q].script
        /\ req'[q].at = req[q].at /\ req'[q].then = req[q].then /\ req'[q].alone = FALSE
    BY <1>2, LeftAsTheyWere DEF ConsoleInv
  <2>2. UnderWay(q) /\ NotYetRun(q) /\ effects'[q] = effects[q] /\ replicas' = replicas /\ replicas \subseteq Replica
    BY <1>2 DEF ConsoleInv, ConsoleTypeOK, serverUnchanged
  <2>3. UnderWay(q)'
    <3>1. ASSUME NEW p \in Replica, holder[p] = q PROVE holder'[p] = q
      BY <3>1, <1>2, NumbersAreInts DEF Locks
    <3> QED BY <2>1, <2>2, <3>1 DEF UnderWay, Under
  <2>4. NotYetRun(q)'
    BY <2>1, <2>2 DEF NotYetRun, At
  <2> QED BY <2>1, <2>3, <2>4 DEF Undisturbed
<1>3. AloneWorks'
  BY <1>2 DEF Own, AloneWorks
<1> QED BY <1>1, <1>2, <1>3 DEF ConsoleInv, Own

\* With one replica the lock is one.
LEMMA Exclusive ==
  ASSUME ConsoleInv, OneReplica, NEW q \in Request, NEW r \in Request, req[q].step \in UnderLock, req[r].step \in UnderLock
  PROVE  q = r
<1>1. Under(q) /\ Under(r)
  BY DEF Under, UnderLock, Provisions, Ended
<1> QED BY <1>1 DEF ConsoleInv, UnderWay, OneReplica

LEMMA OpensUnderLock ==
  ASSUME ConsoleInv, NEW r \in Request, OthersLeft(r), serverUnchanged, req[r].step \in UnderLock,
         OneReplica /\ outside = 0 /\ database = "there" => (role' => Accepts(account', secret')) /\ OneAtWork(r)'
  PROVE  RoleOpens'
<1> SUFFICES ASSUME OneReplica, outside = 0, database = "there", NEW q \in Request, q # r
             PROVE  OneAtWork(q)'
  BY DEF RoleOpens, serverUnchanged, OneReplica
<1>1. req'[q].step = req[q].step
  BY LeftAsTheyWere DEF ConsoleInv
<1>2. req'[q].step \notin UnderLock
  BY <1>1, Exclusive
<1> QED BY <1>2 DEF OneAtWork, At, UnderLock, Provisions

\* A step without the lock changes nothing a login depends on.
SameLogin == UNCHANGED <<role, secret>> /\ account'.login = account.login /\ account'.password = account.password

LEMMA OpensStill ==
  ASSUME ConsoleInv, NEW r \in Request, OthersLeft(r), serverUnchanged, SameLogin,
         OneReplica /\ outside = 0 /\ database = "there" => OneAtWork(r)'
  PROVE  RoleOpens'
<1> SUFFICES ASSUME OneReplica, outside = 0, database = "there"
             PROVE  (role' => Accepts(account', secret')) /\ \A q \in Request : OneAtWork(q)'
  BY DEF RoleOpens, serverUnchanged, OneReplica
<1>1. (role => Accepts(account, secret)) /\ \A q \in Request : OneAtWork(q)
  BY DEF ConsoleInv, RoleOpens
<1>2. role' => Accepts(account', secret')
  BY <1>1 DEF SameLogin, Accepts
<1>3. ASSUME NEW q \in Request, q # r PROVE OneAtWork(q)'
  <2>1. req'[q].step = req[q].step /\ req'[q].password = req[q].password
    BY <1>3, LeftAsTheyWere DEF ConsoleInv
  <2> QED BY <2>1, <1>1 DEF OneAtWork, At, SameLogin, Accepts
<1> QED BY <1>2, <1>3

\* What does not change of a request under way, and of one that ends.
Still(r) ==
  /\ req'[r].replica = req[r].replica /\ req'[r].script = req[r].script
  /\ req'[r].alone = req[r].alone /\ req'[r].clean = req[r].clean
StillAll(r) ==
  /\ Still(r) /\ req'[r].password = req[r].password /\ req'[r].at = req[r].at /\ req'[r].then = req[r].then
  /\ req'[r].repaired = req[r].repaired /\ req'[r].reapplied = req[r].reapplied

LEMMA GoesOn ==
  ASSUME ConsoleTypeOK, NEW r \in Request, NEW to \in UnderLock \cup Unlocked, Go(r, to)
  PROVE  OthersLeft(r) /\ req'[r].step = to /\ StillAll(r)
<1>1. to \notin Ended
  BY DEF UnderLock, Provisions, Unlocked, Ended
<1>2. OthersLeft(r) /\ req'[r] = [req[r] EXCEPT !.step = to]
  BY <1>1, GoMoves DEF NowAt
<1>3. req[r] \in ConsoleRequest
  BY DEF ConsoleTypeOK
<1> QED BY <1>2, <1>3 DEF ConsoleRequest, Still, StillAll

LEMMA Ends ==
  ASSUME ConsoleTypeOK, NEW r \in Request, NEW to \in Ended, Go(r, to)
  PROVE  /\ OthersLeft(r) /\ req'[r].step = to /\ req'[r].at = 1 /\ ~req'[r].repaired /\ ~req'[r].reapplied
         /\ req'[r].script = req[r].script /\ req'[r].alone = req[r].alone /\ req'[r].clean = req[r].clean
<1>1. OthersLeft(r) /\ req'[r] = NowAt(r, to)
  BY GoMoves
<1> QED BY <1>1 DEF NowAt, NotYet

LEMMA FailsOn ==
  ASSUME ConsoleTypeOK, NEW r \in Request, NEW to \in UnderLock \cup Unlocked, Fail(r, to)
  PROVE  /\ OthersLeft(r) /\ req'[r].step = to /\ ~req'[r].alone /\ req'[r].replica = req[r].replica
         /\ req'[r].script = req[r].script /\ req'[r].at = req[r].at /\ req'[r].then = req[r].then
<1>1. to \notin Ended
  BY DEF UnderLock, Provisions, Unlocked, Ended
<1>2. OthersLeft(r) /\ req'[r] = [[req[r] EXCEPT !.step = to] EXCEPT !.alone = FALSE]
  BY <1>1, FailMoves DEF NowAt
<1>3. req[r] \in ConsoleRequest
  BY DEF ConsoleTypeOK
<1> QED BY <1>2, <1>3 DEF ConsoleRequest

LEMMA FailsAtLast ==
  ASSUME ConsoleTypeOK, NEW r \in Request, NEW to \in Ended, Fail(r, to)
  PROVE  OthersLeft(r) /\ req'[r].step = to /\ req'[r].at = 1 /\ ~req'[r].alone
<1>1. OthersLeft(r) /\ req'[r] = [NowAt(r, to) EXCEPT !.alone = FALSE]
  BY FailMoves
<1> QED BY <1>1 DEF NowAt, NotYet

\* A request that has ended leaves nothing to say but that it has not failed.
LEMMA EndedOwn ==
  ASSUME ConsoleInv, NEW r \in Request, req'[r].step \in Ended, req'[r].at = 1,
         Undisturbed(req[r])' => database' = "there" /\ req'[r].step # "failed" /\ ~req'[r].repaired /\ ~req'[r].reapplied
  PROVE  Own(r)' /\ OneAtWork(r)'
<1>1. UnderWay(r)' /\ NotYetRun(r)'
  <2>1. ~Under(r)'
    BY DEF Under
  <2> QED BY <2>1, 1 # 2 DEF UnderWay, NotYetRun
<1>2. Undisturbed(req[r])' => AloneAt(req[r])'
  BY DEF AloneAt, Ended, Making, Repairing, Using
<1>3. OneAtWork(r)'
  BY DEF OneAtWork, At, Ended, Provisions
<1> QED BY <1>1, <1>2, <1>3 DEF Own

\* A step that changes nothing but the request.
Quietly == UNCHANGED <<account, role, secret, effects>> /\ serverUnchanged

LEMMA QuietKeeps ==
  ASSUME ConsoleInv, NEW r \in Request, OthersLeft(r), Locks(r), Quietly, Own(r)', OneAtWork(r)'
  PROVE  ConsoleInv'
<1>1. RoleIsKept'
  BY DEF ConsoleInv, RoleIsKept, Quietly, serverUnchanged
<1>2. RoleOpens'
  BY OpensStill DEF Quietly, SameLogin
<1> QED BY <1>1, <1>2, StepKeeps DEF Quietly, ConsoleInv, ConsoleTypeOK, Accounts

LEMMA QuietEnd ==
  ASSUME ConsoleInv, NEW r \in Request, NEW to \in Ended, Go(r, to), Locks(r), Quietly,
         Undisturbed(req[r]) => to # "failed" /\ database = "there"
  PROVE  ConsoleInv'
<1>1. ConsoleTypeOK
  BY DEF ConsoleInv
<1>2. Own(r)' /\ OneAtWork(r)'
  BY <1>1, Ends, EndedOwn DEF Undisturbed, Quietly, serverUnchanged
<1> QED BY <1>1, <1>2, Ends, QuietKeeps

\* After a failure it is not alone.
LEMMA FailEnds ==
  ASSUME ConsoleInv, NEW r \in Request, NEW to \in Ended, FailEnd(r, to), Quietly
  PROVE  ConsoleInv'
<1>1. ConsoleTypeOK
  BY DEF ConsoleInv
<1>2. OthersLeft(r) /\ req'[r].step = to /\ req'[r].at = 1 /\ ~req'[r].alone
  BY <1>1, FailsAtLast DEF FailEnd
<1>3. Own(r)' /\ OneAtWork(r)'
  BY <1>2, EndedOwn DEF Undisturbed
<1>4. Locks(r)
  BY <1>1, ReleaseLocks DEF FailEnd
<1> QED BY <1>2, <1>3, <1>4, QuietKeeps

\* What a request under way goes on with.
LEMMA OwnGoesOn ==
  ASSUME ConsoleInv, NEW r \in Request, Under(r), ~At(r, "run") \/ req[r].at = 1,
         req'[r].step \in UnderLock \cup Unlocked, effects'[r] = effects[r], replicas' = replicas,
         req'[r].script = req[r].script, req'[r].replica = req[r].replica, req'[r].at = req[r].at,
         req'[r].step \in UnderLock => holder'[req[r].replica] = r,
         req'[r].step \in Provisions \cup {"lock", "recheck"} => req'[r].then # "none",
         Undisturbed(req[r])' => AloneAt(req[r])'
  PROVE  Own(r)'
<1>1. UnderWay(r) /\ NotYetRun(r) /\ req[r].at \in {1, 2}
  BY DEF ConsoleInv, ConsoleTypeOK, ConsoleRequest
<1>2. req[r].at = 1
  BY <1>1 DEF NotYetRun
<1>3. req[r].step \notin Ended
  BY DEF Under
<1>4. UnderWay(r)'
  BY <1>1 DEF UnderWay
<1>5. NotYetRun(r)'
  BY <1>1, <1>2, <1>3, 1 # 2 DEF NotYetRun
<1> QED BY <1>4, <1>5 DEF Own

\* The same of one that does not hold the lock.
LEMMA UnlockedOwn ==
  ASSUME ConsoleInv, NEW r \in Request, Under(r), ~At(r, "run") \/ req[r].at = 1,
         req'[r].step \in Unlocked, effects'[r] = effects[r], replicas' = replicas,
         req'[r].script = req[r].script, req'[r].replica = req[r].replica, req'[r].at = req[r].at,
         At(r, "lock")' => req'[r].then # "none",
         Undisturbed(req[r])' => AloneAt(req[r])'
  PROVE  Own(r)' /\ OneAtWork(r)'
<1>1. req'[r].step \notin UnderLock
  BY DEF Unlocked, UnderLock, Provisions
<1>2. req'[r].step \notin Provisions \cup {"recheck"}
  BY <1>1 DEF UnderLock
<1>3. Own(r)'
  BY <1>1, <1>2, OwnGoesOn DEF At
<1>4. OneAtWork(r)'
  BY <1>1, <1>2 DEF OneAtWork, At, UnderLock, Provisions
<1> QED BY <1>3, <1>4

---------------------------------------------------------------------------
(* The actions of a request *)

LEMMA GetKeeps ==
  ASSUME ConsoleInv, NEW r \in Request, Get(r)
  PROVE  ConsoleInv'
<1>1. ConsoleTypeOK /\ Quietly /\ Locks(r) /\ Under(r) /\ req[r].step = "get" /\ req[r] \in ConsoleRequest
  BY NoLocks DEF ConsoleInv, ConsoleTypeOK, Get, Smooth, Quietly, Under, At, Ended
<1>2. Undisturbed(req[r]) => AloneAt(req[r])
  BY DEF ConsoleInv, AloneWorks
<1>3. CASE role
  <2>1. OthersLeft(r) /\ req'[r].step = "load" /\ StillAll(r)
    BY <1>1, <1>3, GoesOn DEF Get, Unlocked
  <2>2. Undisturbed(req[r])' => AloneAt(req[r])'
    BY <1>1, <1>2, <1>3, <2>1 DEF Undisturbed, AloneAt, StillAll, Still, Quietly, serverUnchanged, Making, Repairing, Using
  <2>3. Own(r)' /\ OneAtWork(r)'
    BY <1>1, <2>1, <2>2, UnlockedOwn DEF StillAll, Still, Quietly, serverUnchanged, Unlocked, At
  <2> QED BY <1>1, <2>1, <2>3, QuietKeeps
<1>4. CASE ~role
  <2> DEFINE q == [req[r] EXCEPT !.step = "lock", !.then = "load"]
  <2>1. q \in ConsoleRequest
    BY <1>1 DEF ConsoleRequest, Unlocked
  <2>2. req' = [OthersMoved(r) EXCEPT ![r] = q]
    BY <1>4 DEF Get, OthersMoved
  <2>3. OthersLeft(r) /\ req'[r] = q
    BY <1>1, <2>1, <2>2, RecordMoves
  <2>4. Still(r) /\ req'[r].step = "lock" /\ req'[r].then = "load" /\ req'[r].at = req[r].at
        /\ req'[r].repaired = req[r].repaired /\ req'[r].reapplied = req[r].reapplied
    BY <1>1, <2>3 DEF ConsoleRequest, Still
  <2>5. Undisturbed(req[r])' => AloneAt(req[r])'
    BY <1>1, <1>2, <1>4, <2>4 DEF Undisturbed, AloneAt, Still, Quietly, serverUnchanged, Making, Repairing, Using
  <2>6. Own(r)' /\ OneAtWork(r)'
    BY <1>1, <2>4, <2>5, UnlockedOwn DEF Still, Quietly, serverUnchanged, Unlocked, At
  <2> QED BY <1>1, <2>3, <2>6, QuietKeeps
<1> QED BY <1>3, <1>4

LEMMA LoadKeeps ==
  ASSUME ConsoleInv, NEW r \in Request, Load(r)
  PROVE  ConsoleInv'
<1>1. ConsoleTypeOK /\ Quietly /\ Locks(r) /\ Under(r) /\ req[r].step = "load" /\ req[r] \in ConsoleRequest
  BY NoLocks DEF ConsoleInv, ConsoleTypeOK, Load, Smooth, Quietly, Under, At, Ended
<1>2. Undisturbed(req[r]) => AloneAt(req[r])
  BY DEF ConsoleInv, AloneWorks
<1>3. CASE secret = 0
  <2>1. ~Undisturbed(req[r])
    BY <1>1, <1>2, <1>3 DEF ConsoleInv, RoleIsKept, AloneAt
  <2> QED BY <1>1, <1>3, <2>1, QuietEnd DEF Load, Ended
<1>4. CASE secret # 0
  <2> DEFINE q == [req[r] EXCEPT !.step = "connect", !.password = secret]
  <2>1. q \in ConsoleRequest
    <3>1. secret \in Int
      BY <1>1, NumbersAreInts DEF ConsoleTypeOK
    <3> QED BY <1>1, <3>1 DEF ConsoleRequest, Unlocked
  <2>2. req' = [OthersMoved(r) EXCEPT ![r] = q]
    BY <1>4 DEF Load, OthersMoved
  <2>3. OthersLeft(r) /\ req'[r] = q
    BY <1>1, <2>1, <2>2, RecordMoves
  <2>4. Still(r) /\ req'[r].step = "connect" /\ req'[r].password = secret /\ req'[r].at = req[r].at
        /\ req'[r].repaired = req[r].repaired /\ req'[r].reapplied = req[r].reapplied
    BY <1>1, <2>3 DEF ConsoleRequest, Still
  <2>5. Undisturbed(req[r])' => AloneAt(req[r])'
    BY <1>1, <1>2, <2>4 DEF Undisturbed, AloneAt, Still, Quietly, serverUnchanged, Making, Repairing, Using
  <2>6. Own(r)' /\ OneAtWork(r)'
    BY <1>1, <2>4, <2>5, UnlockedOwn DEF Still, Quietly, serverUnchanged, Unlocked, At
  <2> QED BY <1>1, <2>3, <2>6, QuietKeeps
<1> QED BY <1>3, <1>4

LEMMA ConnectKeeps ==
  ASSUME ConsoleInv, NEW r \in Request, Connect(r)
  PROVE  ConsoleInv'
<1>1. ConsoleTypeOK /\ Quietly /\ Locks(r) /\ Under(r) /\ req[r].step = "connect" /\ req[r] \in ConsoleRequest
  BY NoLocks DEF ConsoleInv, ConsoleTypeOK, Connect, Smooth, Quietly, Under, At, Ended
<1>2. Undisturbed(req[r]) => AloneAt(req[r])
  BY DEF ConsoleInv, AloneWorks
<1>3. UnderWay(r) /\ NotYetRun(r)
  BY DEF ConsoleInv
<1>4. ASSUME Go(r, "failed"), ~Undisturbed(req[r])
      PROVE  ConsoleInv'
  BY <1>1, <1>4, QuietEnd DEF Ended
<1>5. CASE Rejected(r) /\ ~req[r].repaired /\ ~req[r].reapplied
  <2>1. Go(r, "repair")
    BY <1>5 DEF Connect
  <2>2. OthersLeft(r) /\ req'[r].step = "repair" /\ StillAll(r)
    BY <1>1, <2>1, GoesOn DEF Unlocked
  <2>3. Undisturbed(req[r])' => AloneAt(req[r])'
    BY <1>1, <1>2, <1>5, <2>2 DEF Undisturbed, AloneAt, StillAll, Still, Quietly, serverUnchanged, Making, Repairing, Using
  <2>4. Own(r)' /\ OneAtWork(r)'
    BY <1>1, <2>2, <2>3, UnlockedOwn DEF StillAll, Still, Quietly, serverUnchanged, Unlocked, At
  <2> QED BY <1>1, <2>2, <2>4, QuietKeeps
<1>6. CASE ~Rejected(r) /\ database = "there" /\ engine = "mysql" /\ account.grants = "none" /\ ~req[r].reapplied
  <2>1. Go(r, "reapply")
    BY <1>6 DEF Connect
  <2>2. OthersLeft(r) /\ req'[r].step = "reapply" /\ StillAll(r)
    BY <1>1, <2>1, GoesOn DEF Unlocked
  <2>3. Undisturbed(req[r])' => AloneAt(req[r])'
    BY <1>1, <1>2, <1>6, <2>2
       DEF Undisturbed, AloneAt, StillAll, Still, Quietly, serverUnchanged, Making, Repairing, Using, Rejected, Accepts
  <2>4. Own(r)' /\ OneAtWork(r)'
    BY <1>1, <2>2, <2>3, UnlockedOwn DEF StillAll, Still, Quietly, serverUnchanged, Unlocked, At
  <2> QED BY <1>1, <2>2, <2>4, QuietKeeps
<1>7. CASE ~Rejected(r) /\ database = "there" /\ ~(engine = "mysql" /\ account.grants = "none")
  <2> DEFINE q == [req[r] EXCEPT !.step = "run", !.at = 1]
  <2>1. q \in ConsoleRequest
    BY <1>1 DEF ConsoleRequest, Unlocked
  <2>2. req' = [OthersMoved(r) EXCEPT ![r] = q]
    BY <1>7 DEF Connect, OthersMoved
  <2>3. OthersLeft(r) /\ req'[r] = q
    BY <1>1, <2>1, <2>2, RecordMoves
  <2>4. Still(r) /\ req'[r].step = "run" /\ req'[r].password = req[r].password /\ req'[r].at = 1
        /\ req'[r].repaired = req[r].repaired /\ req'[r].reapplied = req[r].reapplied
    BY <1>1, <2>3 DEF ConsoleRequest, Still
  <2>5. Undisturbed(req[r])' => AloneAt(req[r])'
    BY <1>1, <1>2, <1>7, <2>4
       DEF Undisturbed, AloneAt, Still, Quietly, serverUnchanged, Making, Repairing, Using, Rejected, Accepts
  <2>6. req[r].at = 1
    BY <1>1, <1>3, 1 # 2 DEF NotYetRun, At, ConsoleRequest
  <2>7. Own(r)' /\ OneAtWork(r)'
    BY <1>1, <2>4, <2>5, <2>6, UnlockedOwn DEF Still, Quietly, serverUnchanged, Unlocked, At
  <2> QED BY <1>1, <2>3, <2>7, QuietKeeps
<1>8. CASE Rejected(r) /\ (req[r].repaired \/ req[r].reapplied)
  <2>1. Go(r, "failed")
    BY <1>8 DEF Connect
  <2>2. ~Undisturbed(req[r])
    BY <1>1, <1>2, <1>8 DEF AloneAt, Using, Rejected, Accepts
  <2> QED BY <2>1, <2>2, <1>4
<1>9. CASE ~Rejected(r) /\ database = "dropped"
  <2>1. Go(r, "failed")
    BY <1>9 DEF Connect
  <2>2. ~Undisturbed(req[r])
    BY <1>2, <1>9 DEF AloneAt
  <2> QED BY <2>1, <2>2, <1>4
<1>10. CASE ~Rejected(r) /\ database = "there" /\ engine = "mysql" /\ account.grants = "none" /\ req[r].reapplied
  <2>1. Go(r, "failed")
    BY <1>10 DEF Connect
  <2>2. ~Undisturbed(req[r])
    BY <1>2, <1>10 DEF AloneAt
  <2> QED BY <2>1, <2>2, <1>4
<1> QED BY <1>1, <1>5, <1>6, <1>7, <1>8, <1>9, <1>10 DEF ConsoleTypeOK

\* A first statement that is denied has done nothing.
DeniedFirst == \A s \in ConsoleScripts : s[1] # "call"

LEMMA StatementKeeps ==
  ASSUME ConsoleInv, DeniedFirst, NEW r \in Request, RunStatement(r)
  PROVE  ConsoleInv'
<1> DEFINE i == req[r].at
           s == req[r].script[i]
<1>1. /\ ConsoleTypeOK /\ Locks(r) /\ serverUnchanged /\ UNCHANGED <<account, role, secret>>
      /\ Under(r) /\ req[r].step = "run" /\ req[r] \in ConsoleRequest /\ i \in {1, 2}
  BY NoLocks DEF ConsoleInv, ConsoleTypeOK, RunStatement, Under, At, Ended, ConsoleRequest
<1>2. Undisturbed(req[r]) => AloneAt(req[r])
  BY DEF ConsoleInv, AloneWorks
<1>3. UnderWay(r) /\ NotYetRun(r) /\ req[r].script \in ConsoleScripts
  BY <1>1 DEF ConsoleInv, UnderWay
<1>4. \A j \in {1, 2} : j >= i => effects[r][j] = 0
  BY <1>1, <1>3 DEF NotYetRun, Ended
<1>5. /\ effects' \in [Request -> [{1, 2} -> {0, 1}]] /\ \A q \in Request : q # r => effects'[q] = effects[q]
      /\ \A j \in {1, 2} : j > i => effects'[r][j] = 0
      /\ ~TakesEffect(s) => effects' = effects
  <2>1. effects \in [Request -> [{1, 2} -> {0, 1}]]
    BY <1>1 DEF ConsoleTypeOK
  <2>2. CASE TakesEffect(s)
    <3>1. effects' = [effects EXCEPT ![r][i] = @ + 1]
      BY <2>2 DEF RunStatement
    <3>2. effects[r][i] = 0
      BY <1>1, <1>4
    <3> HIDE DEF i, s
    <3>3. effects' = [effects EXCEPT ![r] = [effects[r] EXCEPT ![i] = 1]]
      BY <3>1, <3>2, <2>1, <1>1
    <3> QED BY <3>3, <2>1, <2>2, <1>1, <1>4
  <2>3. CASE ~TakesEffect(s)
    BY <2>1, <2>3, <1>1, <1>4 DEF RunStatement
  <2> QED BY <2>2, <2>3
<1>6. ASSUME OthersLeft(r), Own(r)', OneAtWork(r)'
      PROVE  ConsoleInv'
  <2>1. RoleIsKept'
    BY <1>1 DEF ConsoleInv, RoleIsKept, serverUnchanged
  <2>2. RoleOpens'
    BY <1>1, <1>6, OpensStill DEF SameLogin
  <2> QED BY <1>1, <1>5, <1>6, <2>1, <2>2, StepKeeps DEF ConsoleTypeOK, Accounts
<1>7. ASSUME NEW to \in Ended, Go(r, to), Undisturbed(req[r]) => to # "failed"
      PROVE  ConsoleInv'
  <2>1. OthersLeft(r) /\ Own(r)' /\ OneAtWork(r)'
    BY <1>1, <1>2, <1>7, Ends, EndedOwn DEF Undisturbed, serverUnchanged, AloneAt
  <2> QED BY <2>1, <1>6
<1>8. CASE Permitted(s) /\ i = 2
  BY <1>7, <1>8 DEF RunStatement, Ended
<1>9. CASE Permitted(s) /\ i # 2
  <2> DEFINE q == [req[r] EXCEPT !.at = 2]
  <2>1. q \in ConsoleRequest
    BY <1>1 DEF ConsoleRequest
  <2>2. req' = [OthersMoved(r) EXCEPT ![r] = q]
    BY <1>9 DEF RunStatement, OthersMoved
  <2>3. OthersLeft(r) /\ req'[r] = q
    BY <1>1, <2>1, <2>2, RecordMoves
  <2>4. Still(r) /\ req'[r].step = "run" /\ req'[r].password = req[r].password /\ req'[r].at = 2
        /\ req'[r].repaired = req[r].repaired /\ req'[r].reapplied = req[r].reapplied
    BY <1>1, <2>3 DEF ConsoleRequest, Still
  <2>5. Undisturbed(req[r])' => AloneAt(req[r])'
    BY <1>1, <1>2, <2>4 DEF Undisturbed, AloneAt, Still, serverUnchanged, Making, Repairing, Using
  <2>6. UnderWay(r)'
    BY <1>1, <1>3, <2>4 DEF UnderWay, Under, Still, UnderLock, Provisions, serverUnchanged
  <2>7. NotYetRun(r)'
    BY <1>1, <1>5, <1>9, <2>4 DEF NotYetRun, At
  <2>8. OneAtWork(r)'
    BY <2>4 DEF OneAtWork, At, Provisions
  <2> QED BY <1>6, <2>3, <2>5, <2>6, <2>7, <2>8 DEF Own
<1>10. CASE ~Permitted(s) /\ i > 1
  BY <1>7, <1>10 DEF RunStatement, Denied, Ended
<1>11. CASE ~Permitted(s) /\ ~(i > 1) /\ req[r].reapplied
  <2>1. Go(r, "failed")
    BY <1>11 DEF RunStatement, Denied
  <2>2. ~Undisturbed(req[r])
    BY <1>1, <1>2, <1>11 DEF Undisturbed, AloneAt, Permitted, Allowed
  <2> QED BY <1>7, <2>1, <2>2 DEF Ended
<1>12. CASE ~Permitted(s) /\ ~(i > 1) /\ ~req[r].reapplied
  <2>1. i = 1 /\ ~TakesEffect(s)
    BY <1>1, <1>3, <1>12 DEF TakesEffect, DeniedFirst
  <2>2. Go(r, "reapply")
    BY <1>12 DEF RunStatement, Denied
  <2>3. OthersLeft(r) /\ req'[r].step = "reapply" /\ StillAll(r)
    BY <1>1, <2>2, GoesOn DEF Unlocked
  <2>4. Undisturbed(req[r])' => AloneAt(req[r])'
    BY <1>1, <1>2, <1>12, <2>3 DEF Undisturbed, AloneAt, StillAll, Still, serverUnchanged, Making, Repairing, Using
  <2>5. Own(r)' /\ OneAtWork(r)'
    BY <1>1, <1>5, <2>1, <2>3, <2>4, UnlockedOwn DEF StillAll, Still, serverUnchanged, Unlocked, At
  <2> QED BY <1>6, <2>3, <2>5
<1> QED BY <1>8, <1>9, <1>10, <1>11, <1>12

LEMMA RepairKeeps ==
  ASSUME ConsoleInv, NEW r \in Request, Repair(r)
  PROVE  ConsoleInv'
<1>1. ConsoleTypeOK /\ Quietly /\ Locks(r) /\ Under(r) /\ req[r].step = "repair" /\ req[r] \in ConsoleRequest
  BY NoLocks DEF ConsoleInv, ConsoleTypeOK, Repair, Smooth, Quietly, Under, At, Ended
<1>2. Undisturbed(req[r]) => AloneAt(req[r])
  BY DEF ConsoleInv, AloneWorks
<1>3. CASE role
  <2>1. OthersLeft(r) /\ req'[r].step = "lock to repair" /\ StillAll(r)
    BY <1>1, <1>3, GoesOn DEF Repair, Unlocked
  <2>2. Undisturbed(req[r])' => AloneAt(req[r])'
    BY <1>1, <1>2, <1>3, <2>1 DEF Undisturbed, AloneAt, StillAll, Still, Quietly, serverUnchanged, Making, Repairing, Using
  <2>3. Own(r)' /\ OneAtWork(r)'
    BY <1>1, <2>1, <2>2, UnlockedOwn DEF StillAll, Still, Quietly, serverUnchanged, Unlocked, At
  <2> QED BY <1>1, <2>1, <2>3, QuietKeeps
<1>4. CASE ~role
  <2> DEFINE q == [req[r] EXCEPT !.step = "lock", !.then = "get", !.repaired = TRUE]
  <2>1. q \in ConsoleRequest
    BY <1>1 DEF ConsoleRequest, Unlocked
  <2>2. req' = [OthersMoved(r) EXCEPT ![r] = q]
    BY <1>4 DEF Repair, OthersMoved
  <2>3. OthersLeft(r) /\ req'[r] = q
    BY <1>1, <2>1, <2>2, RecordMoves
  <2>4. Still(r) /\ req'[r].step = "lock" /\ req'[r].then = "get" /\ req'[r].at = req[r].at
    BY <1>1, <2>3 DEF ConsoleRequest, Still
  <2>5. ~Undisturbed(req[r])'
    BY <1>1, <1>2, <1>4, <2>4 DEF Undisturbed, AloneAt, Still, Quietly, serverUnchanged, Repairing
  <2>6. Own(r)' /\ OneAtWork(r)'
    BY <1>1, <2>4, <2>5, UnlockedOwn DEF Still, Quietly, serverUnchanged, Unlocked, At
  <2> QED BY <1>1, <2>3, <2>6, QuietKeeps
<1> QED BY <1>3, <1>4

LEMMA ReapplyKeeps ==
  ASSUME ConsoleInv, NEW r \in Request, Reapply(r)
  PROVE  ConsoleInv'
<1>1. ConsoleTypeOK /\ Quietly /\ Locks(r) /\ Under(r) /\ req[r].step = "reapply" /\ req[r] \in ConsoleRequest
  BY NoLocks DEF ConsoleInv, ConsoleTypeOK, Reapply, Smooth, Quietly, Under, At, Ended
<1>2. Undisturbed(req[r]) => AloneAt(req[r])
  BY DEF ConsoleInv, AloneWorks
<1>3. CASE role
  <2>1. OthersLeft(r) /\ req'[r].step = "grant again" /\ StillAll(r)
    BY <1>1, <1>3, GoesOn DEF Reapply, Unlocked
  <2>2. Undisturbed(req[r])' => AloneAt(req[r])'
    BY <1>1, <1>2, <1>3, <2>1
       DEF Undisturbed, AloneAt, StillAll, Still, Quietly, serverUnchanged, Making, Repairing, Using, Accepts
  <2>3. Own(r)' /\ OneAtWork(r)'
    BY <1>1, <2>1, <2>2, UnlockedOwn DEF StillAll, Still, Quietly, serverUnchanged, Unlocked, At
  <2> QED BY <1>1, <2>1, <2>3, QuietKeeps
<1>4. CASE ~role
  <2> DEFINE q == [req[r] EXCEPT !.step = "lock", !.then = "connect", !.reapplied = TRUE]
  <2>1. q \in ConsoleRequest
    BY <1>1 DEF ConsoleRequest, Unlocked
  <2>2. req' = [OthersMoved(r) EXCEPT ![r] = q]
    BY <1>4 DEF Reapply, OthersMoved
  <2>3. OthersLeft(r) /\ req'[r] = q
    BY <1>1, <2>1, <2>2, RecordMoves
  <2>4. Still(r) /\ req'[r].step = "lock" /\ req'[r].then = "connect" /\ req'[r].at = req[r].at
    BY <1>1, <2>3 DEF ConsoleRequest, Still
  <2>5. ~Undisturbed(req[r])'
    BY <1>1, <1>2, <1>4, <2>4 DEF Undisturbed, AloneAt, Still, Quietly, serverUnchanged, Using
  <2>6. Own(r)' /\ OneAtWork(r)'
    BY <1>1, <2>4, <2>5, UnlockedOwn DEF Still, Quietly, serverUnchanged, Unlocked, At
  <2> QED BY <1>1, <2>3, <2>6, QuietKeeps
<1> QED BY <1>3, <1>4

LEMMA LockKeeps ==
  ASSUME ConsoleInv, NEW r \in Request, Lock(r)
  PROVE  ConsoleInv'
<1> DEFINE to == IF At(r, "lock") THEN "recheck" ELSE "secret"
<1>1. /\ ConsoleTypeOK /\ Quietly /\ Under(r) /\ req[r].step \in {"lock", "lock to repair"} /\ req[r] \in ConsoleRequest
      /\ UnderWay(r) /\ req[r].replica \in Replica
  BY DEF ConsoleInv, ConsoleTypeOK, Lock, Smooth, Quietly, Under, At, Ended, UnderWay
<1>2. Undisturbed(req[r]) => AloneAt(req[r])
  BY DEF ConsoleInv, AloneWorks
<1>3. Locks(r) /\ holder'[req[r].replica] = r
  BY <1>1 DEF ConsoleTypeOK, Lock, Locks
<1>4. OthersLeft(r) /\ req'[r].step = to /\ StillAll(r)
  <2>1. to \in UnderLock
    BY DEF UnderLock
  <2> QED BY <1>1, <2>1, GoesOn DEF Lock
<1>5. Undisturbed(req[r])' => AloneAt(req[r])'
  BY <1>1, <1>2, <1>4
     DEF Undisturbed, AloneAt, StillAll, Still, Quietly, serverUnchanged, Making, Repairing, Using, At
<1>6. Own(r)'
  BY <1>1, <1>3, <1>4, <1>5, OwnGoesOn
     DEF StillAll, Still, Quietly, serverUnchanged, UnderLock, Provisions, At, UnderWay
<1>7. OneAtWork(r)'
  BY <1>4 DEF OneAtWork, At, Provisions
<1> QED BY <1>1, <1>3, <1>4, <1>6, <1>7, QuietKeeps

LEMMA RecheckKeeps ==
  ASSUME ConsoleInv, NEW r \in Request, Recheck(r)
  PROVE  ConsoleInv'
<1>1. /\ ConsoleTypeOK /\ Quietly /\ Under(r) /\ req[r].step = "recheck" /\ req[r] \in ConsoleRequest
      /\ UnderWay(r) /\ holder[req[r].replica] = r
  BY DEF ConsoleInv, ConsoleTypeOK, Recheck, Smooth, Quietly, Under, At, Ended, UnderWay, UnderLock
<1>2. Undisturbed(req[r]) => AloneAt(req[r])
  BY DEF ConsoleInv, AloneWorks
<1>3. CASE role
  <2>1. req[r].then \in {"get", "load", "connect"}
    BY <1>1 DEF UnderWay, ConsoleRequest
  <2>2. OthersLeft(r) /\ req'[r].step = req[r].then /\ StillAll(r)
    BY <1>1, <1>3, <2>1, GoesOn DEF Recheck, End, Unlocked
  <2>3. ~Undisturbed(req[r])'
    BY <1>1, <1>2, <1>3, <2>2 DEF Undisturbed, AloneAt, StillAll, Still, Quietly, serverUnchanged, Making
  <2>4. Own(r)' /\ OneAtWork(r)'
    BY <1>1, <2>1, <2>2, <2>3, UnlockedOwn DEF StillAll, Still, Quietly, serverUnchanged, Unlocked, At
  <2>5. Locks(r)
    BY <1>1, <1>3, ReleaseLocks DEF Recheck, End
  <2> QED BY <1>1, <2>2, <2>4, <2>5, QuietKeeps
<1>4. CASE ~role
  <2>1. OthersLeft(r) /\ req'[r].step = "create" /\ StillAll(r)
    BY <1>1, <1>4, GoesOn DEF Recheck, UnderLock, Provisions
  <2>2. Locks(r) /\ holder' = holder
    BY <1>1, <1>4, NoLocks DEF Recheck, NoLockChange
  <2>3. Undisturbed(req[r])' => AloneAt(req[r])'
    BY <1>1, <1>2, <1>4, <2>1 DEF Undisturbed, AloneAt, StillAll, Still, Quietly, serverUnchanged, Making, Repairing, Using
  <2>4. Own(r)'
    BY <1>1, <2>1, <2>2, <2>3, OwnGoesOn
       DEF StillAll, Still, Quietly, serverUnchanged, UnderLock, Provisions, At, UnderWay
  <2>5. OneAtWork(r)'
    BY <1>1, <1>4, <2>1 DEF OneAtWork, At, Quietly
  <2> QED BY <1>1, <2>1, <2>2, <2>4, <2>5, QuietKeeps
<1> QED BY <1>3, <1>4

\* A step under the lock, which may change the account, the role or the secret.
LEMMA LockedKeeps ==
  ASSUME ConsoleInv, NEW r \in Request, OthersLeft(r), Locks(r), serverUnchanged, UNCHANGED effects, req[r].step \in UnderLock,
         account' \in Accounts, role' \in BOOLEAN, secret' \in Request \cup {0}, Own(r)',
         database = "there" /\ role' => secret' # 0,
         OneReplica /\ outside = 0 /\ database = "there" => (role' => Accepts(account', secret')) /\ OneAtWork(r)'
  PROVE  ConsoleInv'
<1>1. RoleIsKept'
  BY DEF ConsoleInv, RoleIsKept, serverUnchanged
<1>2. RoleOpens'
  BY OpensUnderLock
<1>3. effects' \in [Request -> [{1, 2} -> {0, 1}]]
  BY DEF ConsoleInv, ConsoleTypeOK
<1> QED BY <1>1, <1>2, <1>3, StepKeeps

\* What is known of a request that holds the lock.
LEMMA Holding ==
  ASSUME ConsoleInv, NEW r \in Request, req[r].step \in UnderLock
  PROVE  /\ ConsoleTypeOK /\ Under(r) /\ req[r] \in ConsoleRequest /\ holder[req[r].replica] = r /\ r # 0 /\ r \in Int
         /\ ~At(r, "run") /\ (req[r].step \in Provisions => req[r].then \in {"get", "load", "connect"})
         /\ (Undisturbed(req[r]) => AloneAt(req[r]))
         /\ account \in Accounts /\ role \in BOOLEAN /\ secret \in Request \cup {0}
         /\ (database = "there" => (role => secret # 0))
<1>1. Under(r) /\ ~At(r, "run")
  BY DEF Under, At, UnderLock, Provisions, Ended
<1>2. req[r] \in ConsoleRequest /\ UnderWay(r)
  BY DEF ConsoleInv, ConsoleTypeOK
<1>3. req[r].step \in Provisions => req[r].then \in {"get", "load", "connect"}
  BY <1>1, <1>2 DEF UnderWay, ConsoleRequest
<1> QED
  BY <1>1, <1>2, <1>3, NumbersAreInts DEF ConsoleInv, ConsoleTypeOK, AloneWorks, UnderWay, RoleIsKept, Accounts

LEMMA HoldingOpens ==
  ASSUME ConsoleInv, NEW r \in Request, OneReplica, outside = 0, database = "there"
  PROVE  (role => Accepts(account, secret)) /\ OneAtWork(r)
BY DEF ConsoleInv, RoleOpens

LEMMA CreateAccountKeeps ==
  ASSUME ConsoleInv, NEW r \in Request, CreateAccount(r)
  PROVE  ConsoleInv'
<1>1. /\ UNCHANGED <<role, secret, effects>> /\ serverUnchanged /\ req[r].step \in {"create", "create again"}
      /\ req[r].step \in UnderLock /\ req[r].step \in Provisions
  BY DEF CreateAccount, At, UnderLock, Provisions
<1>2. ConsoleTypeOK /\ Under(r) /\ holder[req[r].replica] = r /\ r \in Int
  BY <1>1, Holding
<1>3. Undisturbed(req[r]) => AloneAt(req[r])
  BY <1>1, Holding
<1>4. CASE ~Exists(account)
  <2>1. account' = Created(r) /\ Go(r, "grant") /\ NoLockChange
    BY <1>4 DEF CreateAccount
  <2>2. OthersLeft(r) /\ req'[r].step = "grant" /\ StillAll(r)
    BY <1>2, <2>1, GoesOn DEF UnderLock, Provisions
  <2>3. Undisturbed(req[r])' => AloneAt(req[r])'
    BY <1>1, <1>3, <2>2 DEF Undisturbed, AloneAt, StillAll, Still, serverUnchanged, Making, Repairing, Using
  <2>4. Own(r)'
    BY <1>1, <1>2, <2>1, <2>2, <2>3, Holding, OwnGoesOn
       DEF StillAll, Still, serverUnchanged, UnderLock, Provisions, NoLockChange
  <2>5. account' \in Accounts
    BY <1>2, <2>1 DEF Created, Accounts
  <2>6. ASSUME OneReplica, outside = 0, database = "there"
        PROVE  (role' => Accepts(account', secret')) /\ OneAtWork(r)'
    <3>1. ~role
      BY <1>1, <2>6, HoldingOpens DEF OneAtWork
    <3> QED BY <1>1, <2>1, <2>2, <3>1 DEF OneAtWork, Accepts, Created, At
  <2> QED BY <1>1, <1>2, <2>1, <2>2, <2>4, <2>5, <2>6, LockedKeeps, NoLocks, Holding
<1>5. CASE Exists(account) /\ At(r, "create")
  <2>1. Quietly /\ Go(r, "replace") /\ NoLockChange
    BY <1>1, <1>5 DEF CreateAccount, Quietly
  <2>2. OthersLeft(r) /\ req'[r].step = "replace" /\ StillAll(r)
    BY <1>2, <2>1, GoesOn DEF UnderLock, Provisions
  <2>3. Undisturbed(req[r])' => AloneAt(req[r])'
    BY <1>1, <1>3, <1>5, <2>1, <2>2
       DEF Undisturbed, AloneAt, StillAll, Still, Quietly, serverUnchanged, Making, Repairing, Using, At
  <2>4. Own(r)'
    BY <1>1, <1>2, <2>1, <2>2, <2>3, Holding, OwnGoesOn
       DEF StillAll, Still, Quietly, serverUnchanged, UnderLock, Provisions, NoLockChange
  <2>5. ASSUME OneReplica, outside = 0, database = "there"
        PROVE  (role' => Accepts(account', secret')) /\ OneAtWork(r)'
    <3>1. ~role
      BY <1>1, <2>5, HoldingOpens DEF OneAtWork
    <3> QED BY <1>1, <2>2, <3>1 DEF OneAtWork, At
  <2>6. account' \in Accounts /\ role' \in BOOLEAN /\ secret' \in Request \cup {0} /\ (database = "there" /\ role' => secret' # 0)
    <3>1. account' = account /\ role' = role /\ secret' = secret
      BY <2>1 DEF Quietly
    <3>2. account \in Accounts /\ role \in BOOLEAN /\ secret \in Request \cup {0} /\ (database = "there" => (role => secret # 0))
      BY <1>1, Holding
    <3> QED BY <3>1, <3>2
  <2>7. Locks(r)
    BY <1>2, <2>1, NoLocks
  <2> QED BY <1>1, <2>2, <2>4, <2>5, <2>6, <2>7, LockedKeeps
<1>6. CASE Exists(account) /\ ~At(r, "create")
  <2>1. Quietly /\ Go(r, "failed") /\ Release(r)
    BY <1>1, <1>6 DEF CreateAccount, Quietly, End
  <2>2. ~Undisturbed(req[r])
    BY <1>1, <1>3, <1>6 DEF AloneAt, At
  <2> QED BY <1>2, <2>1, <2>2, QuietEnd, ReleaseLocks DEF Ended
<1> QED BY <1>4, <1>5, <1>6

LEMMA DropAccountKeeps ==
  ASSUME ConsoleInv, NEW r \in Request, DropAccount(r)
  PROVE  ConsoleInv'
<1>1. /\ UNCHANGED <<role, secret, effects>> /\ serverUnchanged /\ req[r].step \in {"replace", "undo"}
      /\ req[r].step \in UnderLock /\ req[r].step \in Provisions /\ account' = Dropped(engine, account)
  BY DEF DropAccount, At, UnderLock, Provisions
<1>2. ConsoleTypeOK /\ Under(r) /\ holder[req[r].replica] = r
  BY <1>1, Holding
<1>3. Undisturbed(req[r]) => AloneAt(req[r])
  BY <1>1, Holding
<1>4. account' \in Accounts /\ (engine = "mysql" => ~Exists(account'))
  <2>1. account \in Accounts
    BY <1>1, Holding
  <2> QED BY <1>1, <2>1 DEF Dropped, Removed, Disabled, NoAccount, Exists, Accounts
<1>5. ASSUME OneReplica, outside = 0, database = "there"
      PROVE  ~role'
  BY <1>1, <1>5, HoldingOpens DEF OneAtWork
<1>6. CASE At(r, "replace")
  <2>1. Go(r, "create again") /\ NoLockChange
    BY <1>6 DEF DropAccount
  <2>2. OthersLeft(r) /\ req'[r].step = "create again" /\ StillAll(r)
    BY <1>2, <2>1, GoesOn DEF UnderLock, Provisions
  <2>3. Undisturbed(req[r])' => AloneAt(req[r])'
    BY <1>1, <1>3, <1>4, <1>6, <2>2
       DEF Undisturbed, AloneAt, StillAll, Still, serverUnchanged, Making, Repairing, Using, At
  <2>4. Own(r)'
    BY <1>1, <1>2, <2>1, <2>2, <2>3, Holding, OwnGoesOn
       DEF StillAll, Still, serverUnchanged, UnderLock, Provisions, NoLockChange
  <2>5. OneReplica /\ outside = 0 /\ database = "there" => OneAtWork(r)'
    BY <1>5, <2>2 DEF OneAtWork, At
  <2> QED BY <1>1, <1>2, <1>4, <1>5, <2>1, <2>2, <2>4, <2>5, LockedKeeps, NoLocks, Holding
<1>7. CASE ~At(r, "replace")
  <2>1. Go(r, "failed") /\ Release(r)
    BY <1>7 DEF DropAccount, End
  <2>2. ~Undisturbed(req[r])
    BY <1>1, <1>3, <1>7 DEF AloneAt, At
  <2>3. OthersLeft(r) /\ Own(r)' /\ OneAtWork(r)'
    BY <1>1, <1>2, <2>1, <2>2, Ends, EndedOwn DEF Ended, Undisturbed, serverUnchanged
  <2> QED BY <1>1, <1>2, <1>4, <1>5, <2>1, <2>3, LockedKeeps, ReleaseLocks, Holding
<1> QED BY <1>6, <1>7

\* A step that may change the privileges of the account.
LEMMA PrivilegesKeep ==
  ASSUME ConsoleInv, NEW r \in Request, OthersLeft(r), Locks(r), serverUnchanged, UNCHANGED effects, SameLogin,
         account' \in Accounts, Own(r)', OneReplica /\ outside = 0 /\ database = "there" => OneAtWork(r)'
  PROVE  ConsoleInv'
<1>1. RoleIsKept'
  BY DEF ConsoleInv, RoleIsKept, serverUnchanged, SameLogin
<1>2. RoleOpens'
  BY OpensStill
<1>3. effects' \in [Request -> [{1, 2} -> {0, 1}]] /\ role' \in BOOLEAN /\ secret' \in Request \cup {0}
  BY DEF ConsoleInv, ConsoleTypeOK, SameLogin
<1> QED BY <1>1, <1>2, <1>3, StepKeeps

LEMMA GrantWorksKeeps ==
  ASSUME ConsoleInv, NEW r \in Request, GrantWorks(r)
  PROVE  ConsoleInv'
<1>1. /\ UNCHANGED <<role, secret, effects>> /\ serverUnchanged /\ Exists(account) /\ account' = Granted(account)
      /\ req[r].step \in {"grant", "grant repaired", "grant again"} /\ database = "there"
  BY DEF GrantWorks, Granting, At
<1>2. /\ ConsoleTypeOK /\ Under(r) /\ req[r] \in ConsoleRequest /\ account \in Accounts /\ UnderWay(r)
      /\ ~At(r, "run")
  BY <1>1 DEF ConsoleInv, ConsoleTypeOK, Under, Ended, Accounts, At
<1>3. Undisturbed(req[r]) => AloneAt(req[r])
  BY DEF ConsoleInv, AloneWorks
<1>4. account' \in Accounts /\ SameLogin /\ account'.grants = "all" /\ (Exists(account') <=> Exists(account))
  BY <1>1, <1>2 DEF Granted, Accounts, SameLogin, Exists
<1>5. CASE At(r, "grant")
  <2>1. Go(r, "put") /\ NoLockChange
    BY <1>5 DEF GrantWorks
  <2>2. OthersLeft(r) /\ req'[r].step = "put" /\ StillAll(r)
    BY <1>2, <2>1, GoesOn DEF UnderLock, Provisions
  <2>3. Undisturbed(req[r])' => AloneAt(req[r])'
    BY <1>1, <1>3, <1>5, <2>2
       DEF Undisturbed, AloneAt, StillAll, Still, serverUnchanged, Making, Repairing, Using, At
  <2>4. req[r].step \in UnderLock /\ req[r].step \in Provisions
    BY <1>5 DEF At, UnderLock, Provisions
  <2>5. Own(r)'
    BY <1>1, <1>2, <2>1, <2>2, <2>3, <2>4, Holding, OwnGoesOn
       DEF StillAll, Still, serverUnchanged, UnderLock, Provisions, NoLockChange
  <2>6. ASSUME OneReplica, outside = 0, database = "there"
        PROVE  OneAtWork(r)'
    <3>1. OneAtWork(r)
      BY <2>6, HoldingOpens
    <3> QED BY <1>1, <1>4, <1>5, <2>2, <3>1 DEF OneAtWork, At, SameLogin, Accepts, Provisions
  <2> QED BY <1>1, <1>2, <1>4, <2>1, <2>2, <2>5, <2>6, PrivilegesKeep, NoLocks
<1>6. CASE At(r, "grant again")
  <2>1. req' = [OthersMoved(r) EXCEPT ![r].step = "connect", ![r].reapplied = TRUE] /\ NoLockChange
    BY <1>6 DEF GrantWorks, At
  <2> DEFINE q == [req[r] EXCEPT !.step = "connect", !.reapplied = TRUE]
  <2>2. q \in ConsoleRequest
    BY <1>2 DEF ConsoleRequest, Unlocked
  <2>3. req' = [OthersMoved(r) EXCEPT ![r] = q]
    BY <2>1 DEF OthersMoved
  <2>4. OthersLeft(r) /\ req'[r] = q
    BY <1>2, <2>2, <2>3, RecordMoves
  <2>5. Still(r) /\ req'[r].step = "connect" /\ req'[r].password = req[r].password /\ req'[r].at = req[r].at
        /\ req'[r].repaired = req[r].repaired
    BY <1>2, <2>4 DEF ConsoleRequest, Still
  <2>6. Undisturbed(req[r])' => AloneAt(req[r])'
    <3> SUFFICES ASSUME Undisturbed(req[r])'
                 PROVE  AloneAt(req[r])'
      OBVIOUS
    <3>1. AloneAt(req[r])
      BY <1>1, <1>3, <2>5 DEF Undisturbed, Still, serverUnchanged
    <3>2. role /\ Accepts(account, secret) /\ database = "there" /\ secret = req[r].password
      BY <1>6, <3>1 DEF AloneAt, At, Using
    <3>3. role' = role /\ secret' = secret /\ database' = database
      BY <1>1 DEF serverUnchanged
    <3>4. Accepts(account', secret')
      BY <1>4, <3>2, <3>3 DEF Accepts, SameLogin
    <3> QED BY <1>4, <2>5, <3>2, <3>3, <3>4 DEF AloneAt, Making, Repairing, Using
  <2>7. Own(r)' /\ OneAtWork(r)'
    BY <1>1, <1>2, <2>5, <2>6, UnlockedOwn DEF Still, serverUnchanged, Unlocked, At
  <2> QED BY <1>1, <1>2, <1>4, <2>1, <2>4, <2>7, PrivilegesKeep, NoLocks
<1>7. CASE At(r, "grant repaired")
  <2>1. req' = [OthersMoved(r) EXCEPT ![r].step = "get", ![r].repaired = TRUE] /\ Release(r)
    BY <1>7 DEF GrantWorks, At
  <2> DEFINE q == [req[r] EXCEPT !.step = "get", !.repaired = TRUE]
  <2>2. q \in ConsoleRequest
    BY <1>2 DEF ConsoleRequest, Unlocked
  <2>3. req' = [OthersMoved(r) EXCEPT ![r] = q]
    BY <2>1 DEF OthersMoved
  <2>4. OthersLeft(r) /\ req'[r] = q
    BY <1>2, <2>2, <2>3, RecordMoves
  <2>5. Still(r) /\ req'[r].step = "get" /\ req'[r].at = req[r].at /\ req'[r].reapplied = req[r].reapplied
    BY <1>2, <2>4 DEF ConsoleRequest, Still
  <2>6. Undisturbed(req[r])' => AloneAt(req[r])'
    <3> SUFFICES ASSUME Undisturbed(req[r])'
                 PROVE  AloneAt(req[r])'
      OBVIOUS
    <3>1. AloneAt(req[r])
      BY <1>1, <1>3, <2>5 DEF Undisturbed, Still, serverUnchanged
    <3>2. role /\ Accepts(account, secret) /\ database = "there" /\ ~req[r].reapplied
      BY <1>7, <3>1 DEF AloneAt, At, Using
    <3>3. role' = role /\ secret' = secret /\ database' = database
      BY <1>1 DEF serverUnchanged
    <3>4. Accepts(account', secret')
      BY <1>4, <3>2, <3>3 DEF Accepts, SameLogin
    <3> QED BY <1>4, <2>5, <3>2, <3>3, <3>4 DEF AloneAt, Making, Repairing, Using
  <2>7. Own(r)' /\ OneAtWork(r)'
    BY <1>1, <1>2, <2>5, <2>6, UnlockedOwn DEF Still, serverUnchanged, Unlocked, At
  <2> QED BY <1>1, <1>2, <1>4, <2>1, <2>4, <2>7, PrivilegesKeep, ReleaseLocks
<1> QED BY <1>1, <1>5, <1>6, <1>7 DEF At

LEMMA PutSecretKeeps ==
  ASSUME ConsoleInv, NEW r \in Request, PutSecret(r)
  PROVE  ConsoleInv'
<1>1. /\ UNCHANGED <<account, role, effects>> /\ serverUnchanged /\ secret' = r /\ req[r].step = "put"
      /\ req[r].step \in UnderLock /\ req[r].step \in Provisions /\ Go(r, "upsert") /\ NoLockChange
  BY DEF PutSecret, At, UnderLock, Provisions
<1>2. ConsoleTypeOK /\ Under(r) /\ holder[req[r].replica] = r /\ r # 0
  BY <1>1, Holding
<1>3. Undisturbed(req[r]) => AloneAt(req[r])
  BY <1>1, Holding
<1>4. OthersLeft(r) /\ req'[r].step = "upsert" /\ StillAll(r)
  BY <1>1, <1>2, GoesOn DEF UnderLock, Provisions
<1>5. Undisturbed(req[r])' => AloneAt(req[r])'
  BY <1>1, <1>2, <1>3, <1>4
     DEF Undisturbed, AloneAt, StillAll, Still, serverUnchanged, Making, Repairing, Using
<1>6. Own(r)'
  BY <1>1, <1>2, <1>4, <1>5, Holding, OwnGoesOn
     DEF StillAll, Still, serverUnchanged, UnderLock, Provisions, NoLockChange
<1>7. ASSUME OneReplica, outside = 0, database = "there"
      PROVE  (role' => Accepts(account', secret')) /\ OneAtWork(r)'
  <2>1. OneAtWork(r)
    BY <1>7, HoldingOpens
  <2> QED BY <1>1, <1>4, <2>1 DEF OneAtWork, At, Accepts, Provisions
<1>8. account' \in Accounts /\ role' \in BOOLEAN
  BY <1>1, Holding
<1> QED BY <1>1, <1>2, <1>4, <1>6, <1>7, <1>8, LockedKeeps, NoLocks

LEMMA UpsertKeeps ==
  ASSUME ConsoleInv, NEW r \in Request, Upsert(r)
  PROVE  ConsoleInv'
<1>1. /\ UNCHANGED <<account, secret, effects>> /\ serverUnchanged /\ req[r].step = "upsert"
      /\ req[r].step \in UnderLock /\ req[r].step \in Provisions
  BY DEF Upsert, At, UnderLock, Provisions
<1>2. ConsoleTypeOK /\ Under(r) /\ holder[req[r].replica] = r /\ r # 0 /\ req[r].then \in {"get", "load", "connect"} /\ ~At(r, "run")
  BY <1>1, Holding
<1>3. Undisturbed(req[r]) => AloneAt(req[r])
  BY <1>1, Holding
<1>4. account' \in Accounts /\ secret' \in Request \cup {0}
  BY <1>1, Holding
<1>5. CASE secret # 0
  <2>1. role' = TRUE /\ Go(r, req[r].then) /\ Release(r)
    BY <1>5 DEF Upsert, End
  <2>2. OthersLeft(r) /\ req'[r].step = req[r].then /\ StillAll(r)
    BY <1>2, <2>1, GoesOn DEF Unlocked
  <2>3. Undisturbed(req[r])' => AloneAt(req[r])'
    BY <1>1, <1>3, <2>1, <2>2
       DEF Undisturbed, AloneAt, StillAll, Still, serverUnchanged, Making, Repairing, Using
  <2>4. Own(r)' /\ OneAtWork(r)'
    BY <1>1, <1>2, <2>2, <2>3, UnlockedOwn DEF StillAll, Still, serverUnchanged, Unlocked, At
  <2>5. OneReplica /\ outside = 0 /\ database = "there" => Accepts(account', secret')
    BY <1>1, HoldingOpens DEF OneAtWork, At, Accepts
  <2> QED BY <1>1, <1>2, <1>4, <1>5, <2>1, <2>2, <2>4, <2>5, LockedKeeps, ReleaseLocks
<1>6. CASE secret = 0
  <2>1. UNCHANGED role /\ Go(r, "undo") /\ NoLockChange
    BY <1>6 DEF Upsert
  <2>2. OthersLeft(r) /\ req'[r].step = "undo" /\ StillAll(r)
    BY <1>2, <2>1, GoesOn DEF UnderLock, Provisions
  <2>3. ~Undisturbed(req[r])'
    BY <1>1, <1>3, <1>6, <2>2 DEF Undisturbed, AloneAt, StillAll, Still, serverUnchanged
  <2>4. Own(r)'
    BY <1>1, <1>2, <2>1, <2>2, <2>3, OwnGoesOn
       DEF StillAll, Still, serverUnchanged, UnderLock, Provisions, NoLockChange
  <2>5. ~(OneReplica /\ outside = 0 /\ database = "there")
    BY <1>1, <1>2, <1>6, HoldingOpens DEF OneAtWork, At
  <2>6. role' \in BOOLEAN /\ (database = "there" => (role' => secret' # 0))
    <3>1. role \in BOOLEAN /\ (database = "there" => (role => secret # 0))
      BY <1>1, Holding
    <3> QED BY <1>1, <2>1, <3>1
  <2> QED BY <1>1, <1>2, <1>4, <2>1, <2>2, <2>4, <2>5, <2>6, LockedKeeps, NoLocks
<1> QED BY <1>5, <1>6

LEMMA RepairPasswordKeeps ==
  ASSUME ConsoleInv, NEW r \in Request, RepairPassword(r)
  PROVE  ConsoleInv'
<1>1. /\ UNCHANGED <<account, role, effects>> /\ serverUnchanged /\ req[r].step = "secret" /\ req[r].step \in UnderLock
      /\ secret' = (IF secret = 0 THEN r ELSE secret) /\ NoLockChange
      /\ req' = [OthersMoved(r) EXCEPT ![r].step = "reset", ![r].password = secret']
  BY DEF RepairPassword, At, UnderLock
<1>2. ConsoleTypeOK /\ Under(r) /\ holder[req[r].replica] = r /\ r # 0 /\ req[r] \in ConsoleRequest /\ ~At(r, "run")
  BY <1>1, Holding
<1>3. Undisturbed(req[r]) => AloneAt(req[r])
  BY <1>1, Holding
<1>4. /\ account' \in Accounts /\ role' \in BOOLEAN /\ secret' \in Request /\ secret' \in Int /\ secret' # 0
      /\ (role => secret' = secret \/ database # "there")
  <2>1. /\ account \in Accounts /\ role \in BOOLEAN /\ secret \in Request \cup {0}
        /\ (database = "there" => (role => secret # 0))
    BY <1>1, Holding
  <2> QED BY <1>1, <2>1, NumbersAreInts
<1> DEFINE q == [req[r] EXCEPT !.step = "reset", !.password = secret']
<1>5. q \in ConsoleRequest
  BY <1>2, <1>4 DEF ConsoleRequest, UnderLock
<1>6. req' = [OthersMoved(r) EXCEPT ![r] = q]
  BY <1>1 DEF OthersMoved
<1>7. OthersLeft(r) /\ req'[r] = q
  BY <1>2, <1>5, <1>6, RecordMoves
<1>8. Still(r) /\ req'[r].step = "reset" /\ req'[r].password = secret' /\ req'[r].at = req[r].at
      /\ req'[r].repaired = req[r].repaired /\ req'[r].reapplied = req[r].reapplied
  BY <1>2, <1>7 DEF ConsoleRequest, Still
<1>9. Undisturbed(req[r])' => AloneAt(req[r])'
  BY <1>1, <1>3, <1>8 DEF Undisturbed, AloneAt, Still, serverUnchanged, Making, Repairing, Using
<1>10. Own(r)'
  BY <1>1, <1>2, <1>8, <1>9, OwnGoesOn DEF Still, serverUnchanged, UnderLock, Provisions, NoLockChange
<1>11. ASSUME OneReplica, outside = 0, database = "there"
       PROVE  (role' => Accepts(account', secret')) /\ OneAtWork(r)'
  <2>1. role => Accepts(account, secret)
    BY <1>11, HoldingOpens
  <2>2. role' => Accepts(account', secret')
    BY <1>1, <1>4, <1>11, <2>1 DEF Accepts
  <2> QED BY <1>8, <2>2 DEF OneAtWork, At, Provisions
<1> QED BY <1>1, <1>2, <1>4, <1>7, <1>10, <1>11, LockedKeeps, NoLocks

LEMMA ResetAccountKeeps ==
  ASSUME ConsoleInv, NEW r \in Request, ResetAccount(r)
  PROVE  ConsoleInv'
<1>1. /\ UNCHANGED <<role, secret, effects>> /\ serverUnchanged /\ req[r].step = "reset" /\ req[r].step \in UnderLock
      /\ account' = (IF Exists(account) THEN Reset(account, req[r].password) ELSE Created(req[r].password))
      /\ NoLockChange /\ Go(r, "grant repaired")
  BY DEF ResetAccount, At, UnderLock
<1>2. ConsoleTypeOK /\ Under(r) /\ holder[req[r].replica] = r /\ req[r] \in ConsoleRequest /\ ~At(r, "run")
  BY <1>1, Holding
<1>3. Undisturbed(req[r]) => AloneAt(req[r])
  BY <1>1, Holding
<1>4. account' \in Accounts /\ Accepts(account', req[r].password)
  <2>1. account \in Accounts /\ req[r].password \in Int
    BY <1>1, <1>2, Holding DEF ConsoleRequest
  <2> QED BY <1>1, <2>1 DEF Accounts, Accepts, Reset, Created
<1>5. OthersLeft(r) /\ req'[r].step = "grant repaired" /\ StillAll(r)
  BY <1>1, <1>2, GoesOn DEF UnderLock
<1>6. Undisturbed(req[r])' => AloneAt(req[r])'
  <2> SUFFICES ASSUME Undisturbed(req[r])'
               PROVE  AloneAt(req[r])'
    OBVIOUS
  <2>1. AloneAt(req[r])
    BY <1>1, <1>3, <1>5 DEF Undisturbed, StillAll, Still, serverUnchanged
  <2>2. role /\ secret = req[r].password /\ database = "there" /\ ~req[r].repaired /\ ~req[r].reapplied
    BY <1>1, <2>1 DEF AloneAt, Repairing, Using
  <2>3. role' = role /\ secret' = secret /\ database' = database
    BY <1>1 DEF serverUnchanged
  <2> QED BY <1>4, <1>5, <2>2, <2>3 DEF AloneAt, Making, Repairing, Using, StillAll
<1>7. Own(r)'
  BY <1>1, <1>2, <1>5, <1>6, OwnGoesOn DEF StillAll, Still, serverUnchanged, UnderLock, Provisions, NoLockChange
<1>8. ASSUME OneReplica, outside = 0, database = "there"
      PROVE  (role' => Accepts(account', secret')) /\ OneAtWork(r)'
  <2>1. OneAtWork(r)
    BY <1>8, HoldingOpens
  <2>2. role' => Accepts(account', secret')
    BY <1>1, <1>4, <2>1 DEF OneAtWork, At
  <2> QED BY <1>5, <2>2 DEF OneAtWork, At, Provisions
<1>9. role' \in BOOLEAN /\ secret' \in Request \cup {0} /\ (database = "there" => (role' => secret' # 0))
  <2>1. role \in BOOLEAN /\ secret \in Request \cup {0} /\ (database = "there" => (role => secret # 0))
    BY <1>1, Holding
  <2> QED BY <1>1, <2>1
<1> QED BY <1>1, <1>2, <1>4, <1>5, <1>7, <1>8, <1>9, LockedKeeps, NoLocks

\* A step that fails and goes on.
LEMMA FailGoesOn ==
  ASSUME ConsoleInv, NEW r \in Request, NEW to \in Provisions, Fail(r, to), NoLockChange, serverUnchanged,
         SameLogin, UNCHANGED effects, account' \in Accounts, req[r].step \in Provisions, to \in {"replace", "undo"}
  PROVE  ConsoleInv'
<1>1. ConsoleTypeOK /\ Under(r) /\ holder[req[r].replica] = r /\ ~At(r, "run") /\ req[r].then \in {"get", "load", "connect"}
  BY Holding DEF UnderLock
<1>2. /\ OthersLeft(r) /\ req'[r].step = to /\ ~req'[r].alone /\ req'[r].replica = req[r].replica
      /\ req'[r].script = req[r].script /\ req'[r].at = req[r].at /\ req'[r].then = req[r].then
  BY <1>1, FailsOn DEF UnderLock
<1>3. Own(r)'
  BY <1>1, <1>2, OwnGoesOn DEF Undisturbed, NoLockChange, serverUnchanged, UnderLock
<1>4. ASSUME OneReplica, outside = 0, database = "there"
      PROVE  OneAtWork(r)'
  <2>1. ~role
    BY <1>4, HoldingOpens DEF OneAtWork
  <2> QED BY <1>2, <2>1 DEF OneAtWork, At, SameLogin
<1> QED BY <1>1, <1>2, <1>3, <1>4, PrivilegesKeep, NoLocks

LEMMA FailsKeep ==
  ASSUME ConsoleInv, NEW r \in Request, Fails(r)
  PROVE  ConsoleInv'
<1>1. ConsoleTypeOK /\ account \in Accounts
  BY DEF ConsoleInv, ConsoleTypeOK, Accounts
<1>2. ASSUME FailEnd(r, "failed") \/ FailEnd(r, "cancelled"), UNCHANGED <<account, role, secret, effects>>, serverUnchanged
      PROVE  ConsoleInv'
  BY <1>2, FailEnds DEF Quietly, Ended
<1>3. CASE CreateFails(r)
  <2>1. CASE FailEnd(r, "failed")
    BY <1>2, <1>3, <2>1 DEF CreateFails
  <2>2. CASE At(r, "create") /\ Fail(r, "replace") /\ NoLockChange
    <3>1. SameLogin /\ UNCHANGED effects /\ serverUnchanged /\ account' \in Accounts
      BY <1>1, <1>3 DEF CreateFails, SameLogin
    <3> QED BY <2>2, <3>1, FailGoesOn DEF Provisions, At
  <2> QED BY <1>3, <2>1, <2>2 DEF CreateFails
<1>4. CASE DropFails(r)
  BY <1>2, <1>4 DEF DropFails
<1>5. CASE GrantFails(r)
  <2>1. account' \in Accounts /\ SameLogin /\ UNCHANGED effects /\ serverUnchanged
    <3>1. CASE Exists(account) /\ database = "there"
      <4>1. PICK g \in GrantedInPart(engine) \cup {account.grants} :
                   account' = [account EXCEPT !.grants = IF @ = "none" THEN g ELSE @]
        BY <1>5, <3>1 DEF GrantFails
      <4>2. g \in {"none", "some", "all"}
        BY <1>1, <4>1 DEF GrantedInPart, Accounts
      <4> QED BY <1>1, <1>5, <4>1, <4>2 DEF Accounts, SameLogin, GrantFails
    <3>2. CASE ~(Exists(account) /\ database = "there")
      BY <1>1, <1>5, <3>2 DEF GrantFails, SameLogin
    <3> QED BY <3>1, <3>2
  <2>2. CASE At(r, "grant")
    <3>1. Fail(r, "undo") /\ NoLockChange
      BY <1>5, <2>2 DEF GrantFails
    <3> QED BY <2>1, <2>2, <3>1, FailGoesOn DEF Provisions, At
  <2>3. CASE ~At(r, "grant")
    <3>1. FailEnd(r, "failed")
      BY <1>5, <2>3 DEF GrantFails
    <3>2. /\ OthersLeft(r) /\ Locks(r) /\ req'[r].step = "failed" /\ req'[r].at = 1 /\ ~req'[r].alone
      BY <1>1, <3>1, FailsAtLast, ReleaseLocks DEF FailEnd, Ended
    <3>3. Own(r)' /\ OneAtWork(r)'
      BY <3>2, EndedOwn DEF Undisturbed, Ended
    <3> QED BY <2>1, <3>2, <3>3, PrivilegesKeep
  <2> QED BY <2>2, <2>3
<1>6. CASE WriteFails(r)
  <2>1. SameLogin /\ UNCHANGED effects /\ serverUnchanged /\ account' \in Accounts
    BY <1>1, <1>6 DEF WriteFails, SameLogin
  <2> QED BY <1>6, <2>1, FailGoesOn DEF WriteFails, Provisions, At
<1>7. CASE ResetFails(r)
  BY <1>2, <1>7 DEF ResetFails
<1>8. CASE Cancelled(r)
  BY <1>2, <1>8 DEF Cancelled
<1> QED BY <1>3, <1>4, <1>5, <1>6, <1>7, <1>8 DEF Fails

LEMMA RequestKeeps ==
  ASSUME ConsoleInv, NEW r \in Request, Begin(r)
  PROVE  ConsoleInv'
<1> DEFINE alone == \A q \in Request : ~Under(q)
           clean == role \/ ~Exists(account)
<1>1. PICK p \in replicas, s \in ConsoleScripts :
        req' = [OthersMoved(r) EXCEPT ![r] = [NotYet EXCEPT !.step = "get", !.replica = p, !.script = s,
                  !.alone = alone, !.clean = clean]]
  BY DEF Begin
<1>2. ConsoleTypeOK /\ Quietly /\ Locks(r) /\ At(r, "not yet") /\ database = "there" /\ NotYetRun(r) /\ p \in Replica
      /\ req[r].at \in {1, 2}
  BY NoLocks DEF ConsoleInv, ConsoleTypeOK, ConsoleRequest, Begin, Smooth, Quietly
<1> DEFINE q == [NotYet EXCEPT !.step = "get", !.replica = p, !.script = s, !.alone = alone, !.clean = clean]
<1>4. /\ q \in ConsoleRequest /\ q.step = "get" /\ q.replica = p /\ q.script = s /\ q.at = 1
      /\ q.repaired = FALSE /\ q.reapplied = FALSE /\ q.clean = clean
  <2>1. NotYet \in ConsoleRequest /\ NotYet.at = 1 /\ NotYet.repaired = FALSE /\ NotYet.reapplied = FALSE
    BY DEF NotYet, ConsoleRequest
  <2>2. alone \in BOOLEAN /\ clean \in BOOLEAN
    BY <1>2 DEF ConsoleTypeOK
  <2> HIDE DEF alone, clean
  <2> QED BY <1>1, <1>2, <2>1, <2>2 DEF ConsoleRequest, Unlocked
<1>5. OthersLeft(r) /\ req'[r] = q
  <2> HIDE DEF q
  <2>1. req' = [OthersMoved(r) EXCEPT ![r] = q]
    BY <1>1, Zenon DEF q
  <2> QED BY <1>2, <1>4, <2>1, RecordMoves
<1>3. req'[r].clean = TRUE => role \/ ~Exists(account)
  <2> HIDE DEF q, alone
  <2> QED BY <1>4, <1>5
<1> HIDE DEF q
<1>6. UnderWay(r)'
  BY <1>2, <1>4, <1>5 DEF UnderWay, UnderLock, Provisions, Quietly, serverUnchanged
<1>7. NotYetRun(r)'
  <2>1. req[r].at = 1
    BY <1>2, 1 # 2 DEF NotYetRun, At
  <2> QED BY <1>2, <1>4, <1>5, <2>1, 1 # 2 DEF NotYetRun, At, Ended, Quietly
<1>8. Undisturbed(req[r])' => AloneAt(req[r])'
  BY <1>2, <1>3, <1>4, <1>5 DEF Undisturbed, AloneAt, Quietly, serverUnchanged, Making, Repairing, Using
<1>9. OneAtWork(r)'
  BY <1>4, <1>5 DEF OneAtWork, At, Provisions
<1> QED BY <1>2, <1>5, <1>6, <1>7, <1>8, <1>9, QuietKeeps DEF Own

---------------------------------------------------------------------------
(* Steps of others, after which no request is alone *)

LEMMA OutsideKeeps ==
  ASSUME ConsoleInv, req' = OthersMoved(0), UNCHANGED <<engine, replicas, holder, effects>>,
         account' \in Accounts, role' \in BOOLEAN, secret' \in Request \cup {0}, outside' \in Nat,
         database' \in {"there", "dropped"}, dropping' \in {"no", "list", "account", "secret", "row", "done"},
         database' = "dropped" \/ (outside' # 0 /\ RoleIsKept')
  PROVE  ConsoleInv'
<1>1. req' = [q \in Request |-> [req[q] EXCEPT !.alone = FALSE]]
  BY NumbersAreInts DEF OthersMoved
<1>2. \A q \in Request : req[q] \in ConsoleRequest
  BY DEF ConsoleInv, ConsoleTypeOK
<1>3. ASSUME NEW q \in Request
      PROVE  /\ req'[q] \in ConsoleRequest /\ req'[q].step = req[q].step /\ req'[q].replica = req[q].replica
             /\ req'[q].script = req[q].script /\ req'[q].at = req[q].at /\ req'[q].then = req[q].then
             /\ req'[q].alone = FALSE
  <2>1. req[q] \in ConsoleRequest /\ req'[q] = [req[q] EXCEPT !.alone = FALSE]
    BY <1>1, <1>2
  <2> QED BY <2>1 DEF ConsoleRequest
<1>4. ConsoleTypeOK'
  BY <1>1, <1>3 DEF ConsoleInv, ConsoleTypeOK, Accounts
<1>5. ASSUME NEW q \in Request
      PROVE  UnderWay(q)' /\ NotYetRun(q)'
  BY <1>3 DEF ConsoleInv, UnderWay, NotYetRun, Under, At
<1>6. AloneWorks'
  BY <1>3 DEF AloneWorks, Undisturbed
<1>7. RoleIsKept' /\ RoleOpens'
  BY DEF RoleIsKept, RoleOpens
<1> QED BY <1>4, <1>5, <1>6, <1>7 DEF ConsoleInv

LEMMA ServerKeeps ==
  ASSUME ConsoleInv, Outside \/ DatabaseDropped \/ DropAccessRoles
  PROVE  ConsoleInv'
<1>1. /\ account \in Accounts /\ role \in BOOLEAN /\ secret \in Request \cup {0} /\ outside \in Nat /\ RoleIsKept
      /\ database \in {"there", "dropped"} /\ dropping \in {"no", "list", "account", "secret", "row", "done"}
  BY DEF ConsoleInv, ConsoleTypeOK, Accounts
<1>2. Dropped(engine, account) \in Accounts
  BY <1>1 DEF Dropped, Removed, Disabled, NoAccount, Exists, Accounts
<1>3. CASE Outside
  <2>1. account' \in Accounts
    BY <1>1, <1>2, <1>3 DEF Outside, Rotated, Accounts
  <2>2. /\ outside' \in Nat /\ outside' # 0 /\ req' = OthersMoved(0) /\ UNCHANGED <<engine, replicas, holder, effects>>
        /\ UNCHANGED <<role, secret, database, dropping>>
    BY <1>1, <1>3 DEF Outside
  <2>3. RoleIsKept'
    BY <1>1, <2>2 DEF RoleIsKept
  <2> QED BY <1>1, <2>1, <2>2, <2>3, OutsideKeeps
<1>4. CASE DatabaseDropped
  <2>1. account' \in Accounts
    BY <1>1, <1>4 DEF DatabaseDropped, Accounts
  <2>2. /\ req' = OthersMoved(0) /\ UNCHANGED <<engine, replicas, holder, effects>>
        /\ database' = "dropped" /\ database' \in {"there", "dropped"} /\ outside' \in Nat
        /\ dropping' \in {"no", "list", "account", "secret", "row", "done"}
    BY <1>1, <1>4 DEF DatabaseDropped
  <2>3. role' \in BOOLEAN /\ secret' \in Request \cup {0}
    BY <1>1, <1>4 DEF DatabaseDropped
  <2>4. database' = "dropped" \/ (outside' # 0 /\ RoleIsKept')
    BY <2>2
  <2> QED BY <2>1, <2>2, <2>3, <2>4, OutsideKeeps, Zenon
<1>5. CASE DropAccessRoles
  <2>1. database = "dropped"
    BY <1>1, <1>5 DEF DropAccessRoles, RoleIsKept
  <2>2. account' \in Accounts /\ role' \in BOOLEAN /\ secret' \in Request \cup {0}
    BY <1>1, <1>2, <1>5 DEF DropAccessRoles
  <2>3. dropping' \in {"no", "list", "account", "secret", "row", "done"}
    BY <1>5 DEF DropAccessRoles
  <2>4. /\ req' = OthersMoved(0) /\ UNCHANGED <<engine, replicas, holder, effects>>
        /\ database' = "dropped" /\ database' \in {"there", "dropped"} /\ outside' \in Nat
    BY <1>1, <1>5, <2>1 DEF DropAccessRoles
  <2>5. database' = "dropped" \/ (outside' # 0 /\ RoleIsKept')
    BY <2>4
  <2> QED BY <2>2, <2>3, <2>4, <2>5, OutsideKeeps, Zenon
<1> QED BY <1>3, <1>4, <1>5

---------------------------------------------------------------------------

LEMMA ConsoleStarts == ConsoleInit => ConsoleInv
<1> SUFFICES ASSUME ConsoleInit
             PROVE  ConsoleInv
  OBVIOUS
<1>1. NotYet \in ConsoleRequest
  BY DEF NotYet, ConsoleRequest
<1>2. \A r \in Request : req[r] = NotYet
  BY DEF ConsoleInit
<1>3. \A r \in Request : req[r].step = "not yet" /\ req[r].at = 1 /\ ~req[r].alone
  <2>1. NotYet.step = "not yet" /\ NotYet.at = 1 /\ NotYet.alone = FALSE
    BY DEF NotYet
  <2> QED BY <1>2, <2>1
<1>4. effects \in [Request -> [{1, 2} -> {0, 1}]] /\ \A r \in Request : \A i \in {1, 2} : effects[r][i] = 0
  <2>1. <<0, 0>> = [i \in {1, 2} |-> 0]
    OBVIOUS
  <2> QED BY <2>1 DEF ConsoleInit
<1>5. ConsoleTypeOK
  <2>1. req \in [Request -> ConsoleRequest]
    BY <1>1 DEF ConsoleInit
  <2>2. account \in [login : {"none", "on", "off"}, password : Int, grants : {"none", "some", "all"}]
    BY DEF ConsoleInit, NoAccount
  <2>3. replicas \in SUBSET Replica
    BY ConsoleLoginsAssumption DEF ConsoleInit
  <2> QED BY <1>4, <2>1, <2>2, <2>3 DEF ConsoleInit, ConsoleTypeOK
<1>6. \A r \in Request : UnderWay(r) /\ NotYetRun(r)
  <2> SUFFICES ASSUME NEW r \in Request
               PROVE  UnderWay(r) /\ NotYetRun(r)
    OBVIOUS
  <2>1. ~Under(r)
    BY <1>3 DEF Under
  <2>2. ~(req[r].at = 2)
    <3>1. 1 # 2
      OBVIOUS
    <3> QED BY <1>3, <3>1
  <2>3. \A i \in {1, 2} : effects[r][i] = 0
    BY <1>4
  <2> QED BY <2>1, <2>2, <2>3 DEF UnderWay, NotYetRun
<1>7. RoleIsKept /\ AloneWorks
  BY <1>3 DEF RoleIsKept, AloneWorks, Undisturbed, ConsoleInit
<1>8. RoleOpens
  BY <1>3 DEF RoleOpens, OneAtWork, At, Provisions, ConsoleInit
<1> QED BY <1>5, <1>6, <1>7, <1>8 DEF ConsoleInv

LEMMA ConsoleKeeps == DeniedFirst /\ ConsoleInv /\ [ConsoleNext]_consoleVars => ConsoleInv'
<1> SUFFICES ASSUME DeniedFirst, ConsoleInv, [ConsoleNext]_consoleVars
             PROVE  ConsoleInv'
  OBVIOUS
<1>1. ASSUME NEW r \in Request, Steps(r)
      PROVE  ConsoleInv'
  BY <1>1, GetKeeps, LoadKeeps, ConnectKeeps, StatementKeeps, LockKeeps, RecheckKeeps, CreateAccountKeeps, DropAccountKeeps,
     GrantWorksKeeps, PutSecretKeeps, UpsertKeeps, RepairKeeps, RepairPasswordKeeps, ResetAccountKeeps, ReapplyKeeps DEF Steps
<1>2. CASE UNCHANGED consoleVars
  <2> USE <1>2 DEF consoleVars
  <2>1. ConsoleTypeOK' /\ RoleIsKept'
    BY DEF ConsoleInv, ConsoleTypeOK, RoleIsKept
  <2>2. RoleOpens'
    BY DEF ConsoleInv, RoleOpens, OneReplica, OneAtWork, At, Accepts
  <2>3. AloneWorks'
    BY DEF ConsoleInv, AloneWorks, AloneAt, Undisturbed, Accepts, Exists
  <2>4. \A r \in Request : UnderWay(r)' /\ NotYetRun(r)'
    BY DEF ConsoleInv, UnderWay, NotYetRun, Under, At
  <2> QED BY <2>1, <2>2, <2>3, <2>4 DEF ConsoleInv
<1> QED BY <1>1, <1>2, RequestKeeps, FailsKeep, ServerKeeps DEF ConsoleNext

LEMMA ConsoleInvWorks == ConsoleInv => ConsoleWorks
<1> SUFFICES ASSUME ConsoleInv
             PROVE  EffectsOnce /\ RoleWorks /\ UndisturbedSucceeds
  BY DEF ConsoleWorks
<1>1. EffectsOnce
  <2>1. \A r \in Request : \A i \in {1, 2} : effects[r][i] \in {0, 1}
    BY DEF ConsoleInv, ConsoleTypeOK
  <2> QED BY <2>1 DEF EffectsOnce
<1>2. RoleWorks
  <2> SUFFICES ASSUME Cardinality(replicas) = 1, outside = 0, database = "there", role
               PROVE  Accepts(account, secret)
    BY DEF RoleWorks
  <2>1. IsFiniteSet(replicas)
    BY FS_Subset, ConsoleLoginsAssumption DEF ConsoleInv, ConsoleTypeOK
  <2>2. PICK x : replicas = {x}
    BY <2>1, FS_Singleton
  <2>3. OneReplica
    BY <2>2 DEF OneReplica
  <2> QED BY <2>3 DEF ConsoleInv, RoleOpens
<1>3. UndisturbedSucceeds
  BY DEF UndisturbedSucceeds, ConsoleInv, AloneWorks, Undisturbed, AloneAt, At
<1> QED BY <1>1, <1>2, <1>3

\* When no script begins with a procedure that does something before it is
\* denied, Service.Query repeats no statement when it runs a script again, the
\* role that Service.provision has recorded opens the account (with one
\* replica), and a request nobody disturbs repairs what it finds and runs.
THEOREM ConsoleLoginsWork ==
  ASSUME DeniedFirst
  PROVE  ConsoleSpec => []ConsoleWorks
<1>1. ConsoleSpec => []ConsoleInv
  BY ConsoleStarts, ConsoleKeeps, PTL DEF ConsoleSpec
<1> QED BY <1>1, ConsoleInvWorks, PTL
=============================================================================
