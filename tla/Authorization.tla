----------------------------- MODULE Authorization -----------------------------
(***************************************************************************)
(* Roles, the scopes they are granted at, API tokens limited to some       *)
(* permissions, and what a request may then see and open.                  *)
(*                                                                         *)
(* One user is followed.  Fleetdock decides the same question in several   *)
(* places: requireResourcePerm resolves the ancestry of one resource, list *)
(* queries are limited in SQL to the scopes of the caller's grants, and    *)
(* the overview computes an ancestry of its own for each open problem.     *)
(*                                                                         *)
(* Abstracted: "read" stands for the read permission of each kind of       *)
(* resource, "other" for a permission that decides nothing here; the       *)
(* resources a scope names are only those that exist.                      *)
(*                                                                         *)
(* Extends the modules of accounts and of sign-ins, with which it shares   *)
(* no state: AccessAgrees is about who gets in and what they then see.     *)
(***************************************************************************)
EXTENDS Accounts, SignIns

CONSTANTS
  Roles,      \* custom roles
  Tokens,     \* API tokens of the user
  Srvs, Insts, Databs, Dumps, Tasks,  \* servers, instances, databases, backups, jobs
  Home,       \* the server of each managed instance
  Holder,     \* the instance of each database
  Of,         \* the database of each backup
  About,      \* the resource of each job that has one
  RunsOn,     \* the server of each job an agent runs
  MaxGrants   \* bound: rows of user_roles

Perms == {"read", "other"}
Everything == {"everything"}
Scopes == Everything \cup Srvs \cup Databs

ASSUME AuthorizationAssumption ==
  /\ MaxGrants \in Nat
  /\ Srvs \cap Insts = {} /\ Srvs \cap Databs = {} /\ Srvs \cap Dumps = {}
  /\ Insts \cap Databs = {} /\ Insts \cap Dumps = {} /\ Databs \cap Dumps = {}
  /\ Home \in [DOMAIN Home -> Srvs] /\ DOMAIN Home \subseteq Insts
  /\ Holder \in [Databs -> Insts] /\ Of \in [Dumps -> Databs]
  /\ About \in [DOMAIN About -> Srvs \cup Insts \cup Databs \cup Dumps] /\ DOMAIN About \subseteq Tasks
  /\ RunsOn \in [DOMAIN RunsOn -> Srvs] /\ DOMAIN RunsOn \subseteq Tasks

VARIABLES
  roles,    \* the roles table with role_permissions
  granted,  \* the user's rows of user_roles
  token,    \* the user's rows of api_tokens
  removed,  \* servers, instances and databases deleted
  doomed    \* roles DeleteRole has counted no assignments of

authzVars == <<roles, granted, token, removed, doomed>>

AuthorizationInit ==
  /\ roles = [r \in Roles |-> [status |-> "none", perms |-> {}]]
  /\ granted = {} /\ removed = {} /\ doomed = {}
  /\ token = [t \in Tokens |-> [status |-> "none", scopes |-> {}]]

---------------------------------------------------------------------------
(* What a request may do *)

GrantsFor == UNION {[perm : roles[g.role].perms, scope : {g.scope}] : g \in granted}

RestrictToScopes(grants, scopes) == {g \in grants : g.perm \in scopes}

\* A dashboard session, or a live token; a token with no scopes is not limited.
Principals == {"session"} \cup {t \in Tokens : token[t].status = "live"}

PrincipalGrants(c) ==
  IF c = "session" \/ token[c].scopes = {} THEN GrantsFor
  ELSE RestrictToScopes(GrantsFor, token[c].scopes)

ServerOf(i) == IF i \in DOMAIN Home THEN {Home[i]} ELSE {}
LineageOf(d) == {d} \cup ServerOf(Holder[d])

Ancestry(r) ==
  CASE r \in Srvs   -> {r}
    [] r \in Insts  -> ServerOf(r)
    [] r \in Databs -> LineageOf(r)
    [] r \in Dumps  -> LineageOf(Of[r])

TaskAncestry(j) == IF j \in DOMAIN About THEN Ancestry(About[j]) ELSE {}

Allow(c, covers) ==
  \E g \in PrincipalGrants(c) : g.perm = "read" /\ g.scope \in Everything \cup covers

Has(c, scope) == \E g \in PrincipalGrants(c) : g.perm = "read" /\ g.scope = scope

ReadsAll(c) == \E s \in Everything : Has(c, s)

\* ReadableScope: the ids a list is limited to.
ReadableServers(c) == {s \in Srvs : Has(c, s)}
ReadableDatabases(c) == {d \in Databs : Has(c, d)}

---------------------------------------------------------------------------
(* Lists and single resources *)

ListServers(c) == {s \in Srvs \ removed : ReadsAll(c) \/ s \in ReadableServers(c)}

ListInstances(c) ==
  {i \in Insts \ removed :
     \/ ReadsAll(c)
     \/ ServerOf(i) \cap ReadableServers(c) # {}
     \/ \E d \in ReadableDatabases(c) : Holder[d] = i}

\* Mutant: the list follows the databases' own scopes only.
ListDatabasesByScope(c) ==
  {d \in Databs \ removed :
     Holder[d] \notin removed /\ (ReadsAll(c) \/ d \in ReadableDatabases(c))}

ListDatabasesFor(c) ==
  {d \in Databs \ removed :
     /\ Holder[d] \notin removed
     /\ \/ ReadsAll(c)
        \/ d \in ReadableDatabases(c)
        \/ ServerOf(Holder[d]) \cap ReadableServers(c) # {}}

ListDumps(c) ==
  {b \in Dumps :
     \/ ReadsAll(c)
     \/ Of[b] \in ReadableDatabases(c)
     \/ ServerOf(Holder[Of[b]]) \cap ReadableServers(c) # {}}

GetServer(c, s)   == s \notin removed /\ Allow(c, Ancestry(s))
GetInstance(c, i) == i \notin removed /\ Allow(c, Ancestry(i))
GetDatabase(c, d) == d \notin removed /\ Holder[d] \notin removed /\ Allow(c, Ancestry(d))
GetDump(c, b)     == Allow(c, Ancestry(b))
GetTask(c, j)     == Allow(c, TaskAncestry(j))

\* attentionSQL for a failed operation: the server the job ran on, else the
\* resource's; the database of its resource.
AttentionServer(j) ==
  IF j \in DOMAIN RunsOn THEN {RunsOn[j]}
  ELSE IF j \notin DOMAIN About THEN {}
  ELSE CASE About[j] \in Insts  -> ServerOf(About[j])
         [] About[j] \in Databs -> ServerOf(Holder[About[j]])
         [] About[j] \in Dumps  -> ServerOf(Holder[Of[About[j]]])
         [] OTHER -> {}

AttentionDatabase(j) ==
  IF j \notin DOMAIN About THEN {}
  ELSE IF About[j] \in Databs THEN {About[j]}
  ELSE IF About[j] \in Dumps THEN {Of[About[j]]} ELSE {}

AttentionAncestry(j) == AttentionServer(j) \cup AttentionDatabase(j)

OverviewShows(c, j) == Allow(c, AttentionAncestry(j))

---------------------------------------------------------------------------
(* Administration *)

CreateRole(r, perms) ==
  /\ roles[r].status = "none"
  /\ roles' = [roles EXCEPT ![r] = [status |-> "live", perms |-> perms]]
  /\ UNCHANGED <<granted, token, removed, doomed>>

\* The old permissions are deleted and the new ones inserted in a transaction
\* that holds the role's row.
UpdateRole(r, perms) ==
  /\ roles[r].status = "live"
  /\ roles' = [roles EXCEPT ![r].perms = perms]
  /\ UNCHANGED <<granted, token, removed, doomed>>

CountRoleAssignments(r) == Cardinality({g \in granted : g.role = r})

BeginDeleteRole(r) ==
  /\ roles[r].status = "live" /\ CountRoleAssignments(r) = 0
  /\ doomed' = doomed \cup {r}
  /\ UNCHANGED <<roles, granted, token, removed>>

\* The rows that refer to the role go with it.
DeleteRole(r) ==
  /\ r \in doomed /\ doomed' = doomed \ {r}
  /\ roles' = [roles EXCEPT ![r] = [status |-> "deleted", perms |-> {}]]
  /\ granted' = {g \in granted : g.role # r}
  /\ UNCHANGED <<token, removed>>

AddScopedGrant(r, scope) ==
  /\ roles[r].status = "live" /\ Cardinality(granted) < MaxGrants
  /\ granted' = granted \cup {[role |-> r, scope |-> scope]}
  /\ UNCHANGED <<roles, token, removed, doomed>>

RemoveGrant(g) ==
  /\ g \in granted /\ granted' = granted \ {g}
  /\ UNCHANGED <<roles, token, removed, doomed>>

\* validateScopes: what the caller holds at any scope; a caller that holds
\* nothing is not checked.
ValidScopes(c, scopes) ==
  LET held == {g.perm : g \in PrincipalGrants(c)}
  IN  held # {} => scopes \subseteq held

CreateApiToken(c, t, scopes) ==
  /\ c \in Principals /\ token[t].status = "none"
  /\ ValidScopes(c, scopes)
  /\ token' = [token EXCEPT ![t] = [status |-> "live", scopes |-> scopes]]
  /\ UNCHANGED <<roles, granted, removed, doomed>>

\* Revoked by its owner or an administrator, or expired.
EndApiToken(t) ==
  /\ token[t].status = "live"
  /\ token' = [token EXCEPT ![t].status = "ended"]
  /\ UNCHANGED <<roles, granted, removed, doomed>>

\* An instance is deleted with databases on it, which nobody can open then.
RemoveResource(r) ==
  /\ r \notin removed /\ removed' = removed \cup {r}
  /\ r \in Srvs => \A i \in DOMAIN Home : Home[i] = r => i \in removed
  /\ UNCHANGED <<roles, granted, token, doomed>>

AuthorizationNext ==
  \/ \E r \in Roles : \/ BeginDeleteRole(r) \/ DeleteRole(r)
                      \/ \E perms \in SUBSET Perms : CreateRole(r, perms) \/ UpdateRole(r, perms)
                      \/ \E scope \in Scopes : AddScopedGrant(r, scope)
  \/ \E g \in granted : RemoveGrant(g)
  \/ \E t \in Tokens : \/ EndApiToken(t)
                       \/ \E c \in Principals, scopes \in SUBSET Perms : CreateApiToken(c, t, scopes)
  \/ \E r \in Srvs \cup Insts \cup Databs : RemoveResource(r)

AuthorizationSpec == AuthorizationInit /\ [][AuthorizationNext]_authzVars

---------------------------------------------------------------------------
(* Properties *)

\* A server, a database or a backup is in a caller's list exactly if the caller
\* may open it: the scopes the SQL joins and the ancestry the resolver walks
\* agree, also for tokens limited to some permissions.
ListsWhatOpens ==
  \A c \in Principals :
    /\ ListServers(c) = {s \in Srvs : GetServer(c, s)}
    /\ ListDatabasesFor(c) = {d \in Databs : GetDatabase(c, d)}
    /\ ListDumps(c) = {b \in Dumps : GetDump(c, b)}

\* Every instance that may be opened is listed; one that holds a database the
\* caller may read is listed too, though only its server's scope opens it.
InstancesListed ==
  \A c \in Principals :
    /\ {i \in Insts : GetInstance(c, i)} \subseteq ListInstances(c)
    /\ \A d \in ListDatabasesFor(c) : Holder[d] \in ListInstances(c)

\* The overview shows a failed task exactly to those who may open it.
OverviewMirrors == \A c \in Principals, j \in Tasks : OverviewShows(c, j) <=> GetTask(c, j)

\* A job that an agent runs is about something on the agent's server, and one
\* about a server is run by its agent.
RunsAtHome ==
  \A j \in Tasks : IF j \in DOMAIN RunsOn THEN TaskAncestry(j) \cap Srvs = {RunsOn[j]}
                   ELSE j \in DOMAIN About => About[j] \notin Srvs

\* What callers are shown, may open and are locked out of agrees between the
\* places that decide on it.
AccessAgrees == OwnerRemains /\ ListsWhatOpens /\ InstancesListed /\ OverviewMirrors /\ LocksAsSaid

\* A role that is granted is not deleted under its holder.
HeldRoleStays == [][\A g \in granted : roles[g.role].status = "live" => roles'[g.role].status = "live"]_authzVars
=============================================================================
