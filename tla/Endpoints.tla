----------------------------- MODULE Endpoints -----------------------------
(***************************************************************************)
(* Public endpoints and the gateway in front of the databases.             *)
(*                                                                         *)
(* The rows of database_endpoints say which database is to be reachable on *)
(* which public port.  A reconciliation lists them, generates the HAProxy  *)
(* configuration, applies it and writes back what the gateway reports.  It *)
(* runs in every replica's worker (for reconcile_gateway jobs and, once a  *)
(* minute, in housekeeping), one at a time within a replica, while users   *)
(* enable, disable, edit, move and delete.                                 *)
(*                                                                         *)
(* Every statement of a reconciliation is a step of its own, and what it   *)
(* decides is decided on the rows it listed at its start.                  *)
(*                                                                         *)
(* Abstracted: addresses (Hosts), allowlists (Lists), error texts (their   *)
(* causes), TLS probing, audit records, and the jobs that ask for a        *)
(* reconciliation: one may start at any time.  The gateway is enabled.     *)
(***************************************************************************)
EXTENDS Integers, FiniteSets

CONSTANTS
  Databases,  \* database records
  Slots,      \* endpoint rows, numbered in the order they are inserted
  Ports,      \* the configured port range, numbers
  Hosts,      \* host and port of a database server
  Lists,      \* allowlists
  Replicas,   \* API replicas: each reconciles in its own worker
  Nothing,    \* no endpoint, no database, no previous configuration
  Features    \* what may happen besides enabling and reconciling

FeatureKinds == {"disable", "delete", "move", "edit",       \* users
                 "reload", "crash", "restart", "down"}      \* faults

ASSUME EndpointAssumption ==
  /\ Slots \subseteq Nat /\ IsFiniteSet(Slots)
  /\ Ports \subseteq Nat /\ IsFiniteSet(Ports)
  /\ IsFiniteSet(Databases)
  /\ Nothing \notin Slots \cup Databases
  /\ Features \subseteq FeatureKinds

VARIABLES
  db,       \* the databases: their state and host
  ep,       \* the endpoint rows
  asked,    \* user requests past their checks whose write is still to come
  transfer, \* a move handing its endpoint over
  rec,      \* the reconciliations
  file,     \* the configuration file
  running   \* the configuration HAProxy runs

vars == <<db, ep, asked, transfer, rec, file, running>>

Routable  == {"pending", "active", "error"}
PublicEp  == Routable \cup {"disabling"}
EpStatus  == PublicEp \cup {"disabled", "none"}
Causes    == {"none", "apply", "stats", "missing", "down"}

Endpoint  == [status : EpStatus, db : Databases \cup {Nothing}, port : Ports \cup {0},
              host : Hosts \cup {Nothing}, allow : Lists \cup {Nothing}, err : Causes]
Route     == [port : Ports, host : Hosts, allow : Lists]
Update    == [slot : Slots, status : EpStatus, err : Causes]

NoEndpoint == [status |-> "none", db |-> Nothing, port |-> 0, host |-> Nothing,
               allow |-> Nothing, err |-> "none"]

Idle == [step |-> "idle", routable |-> {}, disabling |-> {}, prev |-> {}, plan |-> {}]
Quiet == [step |-> "idle", slot |-> Nothing, to |-> Nothing]

---------------------------------------------------------------------------
(* Operators *)

\* The endpoint a database is publicly reachable on, if any.
PublicOf(d) == {s \in Slots : ep[s].db = d /\ ep[s].status \in PublicEp}

Taken == {ep[s].port : s \in {x \in Slots : ep[x].status \in PublicEp}}

FreePorts == Ports \ Taken

\* Mutant: only the databases are unique.
AllowedPerDatabase(s, row) ==
  row.status \in PublicEp =>
    \A t \in Slots \ {s} : ep[t].status \in PublicEp => ep[t].db # row.db

\* The unique indexes: one public endpoint per database and per port.
Allowed(s, row) ==
  row.status \in PublicEp =>
    \A t \in Slots \ {s} :
      ep[t].status \in PublicEp => ep[t].db # row.db /\ ep[t].port # row.port

\* A row as the indexes admit it, whatever its status is by now.
Set(s, row) == ep' = IF Allowed(s, row) THEN [ep EXCEPT ![s] = row] ELSE ep

CanTransition(old, new) ==
  CASE old = "pending"   -> new \in {"active", "error", "disabling", "disabled"}
    [] old = "active"    -> new \in {"disabling", "error", "pending"}
    [] old = "disabling" -> new \in {"disabled", "error", "active"}
    [] old = "error"     -> new \in {"pending", "disabling", "disabled", "active"}
    [] old = "disabled"  -> new = "pending"
    [] OTHER             -> FALSE

\* transition: the write it makes, decided on the row as it was listed.
Transition(s, row, status, err) ==
  IF \/ row.status = status /\ row.err = err
     \/ row.status # status /\ ~CanTransition(row.status, status)
  THEN {}
  ELSE {[slot |-> s, status |-> status, err |-> err]}

Listed(x) == [port |-> x.row.port, host |-> x.row.host, allow |-> x.row.allow]

\* The generated configuration.
Content(r) == {Listed(x) : x \in rec[r].routable}

---------------------------------------------------------------------------
Init ==
  /\ db \in [Databases -> [status : {"active", "absent"}, host : Hosts]]
  /\ ep = [s \in Slots |-> NoEndpoint]
  /\ asked = {}
  /\ transfer = Quiet
  /\ rec = [r \in Replicas |-> Idle]
  /\ file = {}
  /\ running = {}

---------------------------------------------------------------------------
(* Users.  Each request checks first and writes later. *)

\* The database is active and has no public endpoint.
EnableCheck(d) ==
  /\ db[d].status = "active"
  /\ PublicOf(d) = {}
  /\ asked' = asked \cup {[kind |-> "enable", db |-> d, slot |-> Nothing]}
  /\ UNCHANGED <<db, ep, transfer, rec, file, running>>

\* CreateWithPort, under the allocation lock: the lowest free port; a unique
\* violation or a full range is an error for the user.
EnableInsert(d, s, allow) ==
  LET a == [kind |-> "enable", db |-> d, slot |-> Nothing]
      port == CHOOSE p \in FreePorts : \A q \in FreePorts : p <= q
      row == [status |-> "pending", db |-> d, port |-> port, host |-> db[d].host,
              allow |-> allow, err |-> "none"] IN
  /\ a \in asked
  /\ ep[s].status = "none" /\ \A t \in Slots : t < s => ep[t].status # "none"
  /\ IF FreePorts = {} THEN UNCHANGED ep ELSE Set(s, row)
  /\ asked' = asked \ {a}
  /\ UNCHANGED <<db, transfer, rec, file, running>>

DisableCheck(d, s) ==
  /\ "disable" \in Features
  /\ db[d].status = "active"
  /\ s \in PublicOf(d)
  /\ ep[s].status # "disabling"
  /\ asked' = asked \cup {[kind |-> "disable", db |-> d, slot |-> s]}
  /\ UNCHANGED <<db, ep, transfer, rec, file, running>>

DisableWrite(a) ==
  /\ a \in asked /\ a.kind = "disable"
  /\ Set(a.slot, [ep[a.slot] EXCEPT !.status = "disabling", !.err = "none"])
  /\ asked' = asked \ {a}
  /\ UNCHANGED <<db, transfer, rec, file, running>>

\* UpdateAllowedCIDRs keeps the port and the status.
EditAllowlist(d, s, allow) ==
  /\ "edit" \in Features
  /\ db[d].status = "active"
  /\ s \in PublicOf(d)
  /\ ep' = [ep EXCEPT ![s].allow = allow]
  /\ ep' # ep
  /\ UNCHANGED <<db, asked, transfer, rec, file, running>>

\* Delete: the endpoints first (CleanupDatabase), the record later.
DeleteCleanup(d) ==
  /\ "delete" \in Features
  /\ db[d].status = "active"
  /\ [kind |-> "delete", db |-> d, slot |-> Nothing] \notin asked
  /\ ep' = [s \in Slots |-> IF s \in PublicOf(d) THEN [ep[s] EXCEPT !.status = "disabled"] ELSE ep[s]]
  /\ asked' = asked \cup {[kind |-> "delete", db |-> d, slot |-> Nothing]}
  /\ UNCHANGED <<db, transfer, rec, file, running>>

DeleteRecord(a) ==
  /\ a \in asked /\ a.kind = "delete"
  /\ db' = [db EXCEPT ![a.db].status = "deleted"]
  /\ asked' = asked \ {a}
  /\ UNCHANGED <<ep, transfer, rec, file, running>>

---------------------------------------------------------------------------
(* TransferOnMove: the endpoint follows a database to its new record *)

TransferRead(d, to, s) ==
  /\ "move" \in Features
  /\ transfer.step = "idle"
  /\ db[d].status = "active" /\ db[to].status = "absent"
  /\ s \in PublicOf(d)
  /\ db' = [db EXCEPT ![to].status = "active"]
  /\ transfer' = [step |-> "read", slot |-> s, to |-> to]
  /\ UNCHANGED <<ep, asked, rec, file, running>>

\* TransferDatabase writes by database, not by the endpoint that was read; a
\* unique violation ends the transfer.
TransferDatabase ==
  /\ transfer.step = "read"
  /\ LET moved == PublicOf(ep[transfer.slot].db) IN
       IF moved = {} \/ PublicOf(transfer.to) = {}
         THEN /\ ep' = [s \in Slots |->
                         IF s \in moved THEN [ep[s] EXCEPT !.db = transfer.to] ELSE ep[s]]
              /\ transfer' = [transfer EXCEPT !.step = "transferred"]
         ELSE transfer' = Quiet /\ UNCHANGED ep
  /\ UNCHANGED <<db, asked, rec, file, running>>

UpdateBackend ==
  /\ transfer.step = "transferred"
  /\ ep' = [ep EXCEPT ![transfer.slot].host = db[transfer.to].host]
  /\ transfer' = [transfer EXCEPT !.step = "backend"]
  /\ UNCHANGED <<db, asked, rec, file, running>>

\* Its health has to be established again.
TransferPending ==
  /\ transfer.step = "backend"
  /\ Set(transfer.slot, [ep[transfer.slot] EXCEPT !.status = "pending", !.err = "none"])
  /\ transfer' = Quiet
  /\ UNCHANGED <<db, asked, rec, file, running>>

---------------------------------------------------------------------------
(* Reconcile *)

Snapshot(S) == {[slot |-> s, row |-> ep[s]] : s \in {x \in Slots : ep[x].status \in S}}

ListRoutable(r) ==
  /\ rec[r].step = "idle"
  /\ rec' = [rec EXCEPT ![r].step = "routable", ![r].routable = Snapshot(Routable)]
  /\ UNCHANGED <<db, ep, asked, transfer, file, running>>

ListDisabling(r) ==
  /\ rec[r].step = "routable"
  /\ rec' = [rec EXCEPT ![r].step = "listed", ![r].disabling = Snapshot({"disabling"})]
  /\ UNCHANGED <<db, ep, asked, transfer, file, running>>

\* Mutant: a configuration with the same ports counts as unchanged.
WriteNewPorts(r) ==
  /\ rec[r].step = "listed"
  /\ IF {c.port : c \in file} = {c.port : c \in Content(r)}
       THEN rec' = [rec EXCEPT ![r].step = "applied"] /\ UNCHANGED file
       ELSE /\ rec' = [rec EXCEPT ![r].step = "written", ![r].prev = file]
            /\ file' = Content(r)
  /\ UNCHANGED <<db, ep, asked, transfer, running>>

\* Apply: an unchanged configuration is not loaded again.
Write(r) ==
  /\ rec[r].step = "listed"
  /\ IF file = Content(r)
       THEN rec' = [rec EXCEPT ![r].step = "applied"] /\ UNCHANGED file
       ELSE /\ rec' = [rec EXCEPT ![r].step = "written", ![r].prev = file]
            /\ file' = Content(r)
  /\ UNCHANGED <<db, ep, asked, transfer, running>>

\* HAProxy loads what the file holds now.
Reload(r) ==
  /\ rec[r].step = "written"
  /\ running' = file
  /\ rec' = [rec EXCEPT ![r].step = "applied"]
  /\ UNCHANGED <<db, ep, asked, transfer, file>>

\* The reload fails: the previous configuration is put back and loaded, or
\* at least put back.
ReloadFails(r, loaded) ==
  /\ "reload" \in Features
  /\ rec[r].step = "written"
  /\ file' = rec[r].prev
  /\ running' = IF loaded THEN rec[r].prev ELSE running
  /\ rec' = [rec EXCEPT ![r].step = "refused"]
  /\ UNCHANGED <<db, ep, asked, transfer>>

\* Mutant: the statuses are what the control plane hoped for.
PlanHoped(r) ==
  /\ rec[r].step = "refused"
  /\ rec' = [rec EXCEPT ![r].step = "settling",
       ![r].plan = UNION {Transition(x.slot, x.row, "active", "none") : x \in rec[r].routable}]
  /\ UNCHANGED <<db, ep, asked, transfer, file, running>>

\* Every listed endpoint learns why it is not programmed.
PlanFailure(r) ==
  /\ rec[r].step = "refused"
  /\ rec' = [rec EXCEPT ![r].step = "settling",
       ![r].plan = UNION {Transition(x.slot, x.row, "pending", "apply") : x \in rec[r].routable}]
  /\ UNCHANGED <<db, ep, asked, transfer, file, running>>

\* What the stats say of a port: programmed or not, its server up or not.
Settled(x, read, served, up) ==
  IF ~read THEN Transition(x.slot, x.row, "pending", "stats")
  ELSE IF x.row.port \notin served THEN Transition(x.slot, x.row, "pending", "missing")
  ELSE IF x.row.port \notin up THEN Transition(x.slot, x.row, "error", "down")
  ELSE Transition(x.slot, x.row, "active", "none")

Retired(r) == UNION {Transition(x.slot, x.row, "disabled", "none") : x \in rec[r].disabling}

Plan(r, read, up) ==
  /\ rec[r].step = "applied"
  /\ LET served == {c.port : c \in running} IN
       /\ up \subseteq served
       /\ ("down" \in Features) \/ (read /\ up = served)
       /\ rec' = [rec EXCEPT ![r].step = "settling",
            ![r].plan = Retired(r) \cup
              UNION {Settled(x, read, served, up) : x \in rec[r].routable}]
  /\ UNCHANGED <<db, ep, asked, transfer, file, running>>

\* The planned writes, one row at a time: first the routable ones, by port.
Before(u, v) ==
  \/ u.status # "disabled" /\ v.status = "disabled"
  \/ (u.status = "disabled") = (v.status = "disabled") /\ ep[u.slot].port < ep[v.slot].port

Settle(r, u) ==
  /\ rec[r].step = "settling"
  /\ u \in rec[r].plan /\ \A v \in rec[r].plan : ~Before(v, u)
  /\ Set(u.slot, [ep[u.slot] EXCEPT !.status = u.status, !.err = u.err])
  /\ rec' = [rec EXCEPT ![r].plan = @ \ {u}]
  /\ UNCHANGED <<db, asked, transfer, file, running>>

Finish(r) ==
  /\ rec[r].step = "settling" /\ rec[r].plan = {}
  /\ rec' = [rec EXCEPT ![r] = Idle]
  /\ UNCHANGED <<db, ep, asked, transfer, file, running>>

---------------------------------------------------------------------------
(* Faults *)

\* The replica's process dies in the middle of a reconciliation.
Crash(r) ==
  /\ "crash" \in Features
  /\ rec[r].step # "idle"
  /\ rec' = [rec EXCEPT ![r] = Idle]
  /\ UNCHANGED <<db, ep, asked, transfer, file, running>>

\* The gateway container restarts and reads its file.
GatewayRestart ==
  /\ "restart" \in Features
  /\ running # file
  /\ running' = file
  /\ UNCHANGED <<db, ep, asked, transfer, rec, file>>

---------------------------------------------------------------------------
Reconcile(r) ==
  \/ ListRoutable(r) \/ ListDisabling(r) \/ Write(r) \/ Reload(r)
  \/ PlanFailure(r) \/ \E read \in BOOLEAN, up \in SUBSET Ports : Plan(r, read, up)
  \/ \E u \in rec[r].plan : Settle(r, u)
  \/ Finish(r)

Next ==
  \/ \E d \in Databases : EnableCheck(d) \/ DeleteCleanup(d)
  \/ \E d \in Databases, s \in Slots :
       \/ DisableCheck(d, s)
       \/ \E allow \in Lists : EnableInsert(d, s, allow) \/ EditAllowlist(d, s, allow)
       \/ \E to \in Databases : TransferRead(d, to, s)
  \/ \E a \in asked : DisableWrite(a) \/ DeleteRecord(a)
  \/ TransferDatabase \/ UpdateBackend \/ TransferPending
  \/ \E r \in Replicas :
       Reconcile(r) \/ Crash(r) \/ \E loaded \in BOOLEAN : ReloadFails(r, loaded)
  \/ GatewayRestart

Spec == Init /\ [][Next]_vars

\* Every worker reconciles at least once a minute.
Fairness == \A r \in Replicas : WF_vars(Reconcile(r))

FairSpec == Spec /\ Fairness

---------------------------------------------------------------------------
(* Properties *)

Snapped == [slot : Slots, row : Endpoint]

TypeOK ==
  /\ db \in [Databases -> [status : {"active", "absent", "deleted"}, host : Hosts]]
  /\ ep \in [Slots -> Endpoint]
  /\ asked \subseteq [kind : {"enable", "disable", "delete"}, db : Databases, slot : Slots \cup {Nothing}]
  /\ transfer \in [step : {"idle", "read", "transferred", "backend"}, slot : Slots \cup {Nothing},
                   to : Databases \cup {Nothing}]
  /\ rec \in [Replicas ->
       [step : {"idle", "routable", "listed", "written", "refused", "applied", "settling"},
        routable : SUBSET Snapped, disabling : SUBSET Snapped, prev : SUBSET Route,
        plan : SUBSET Update]]
  /\ file \subseteq Route
  /\ running \subseteq Route

RouteOf(s) == [port |-> ep[s].port, host |-> ep[s].host, allow |-> ep[s].allow]

Served(s) == \E c \in running : c.port = ep[s].port /\ c.host = ep[s].host

\* The gateway still holds the port open for an endpoint that gave it up.
Leftover(s) ==
  \E c \in running :
    c.port = ep[s].port
      /\ \A t \in Slots : ep[t].port = c.port => ep[t].status \notin PublicEp

\* No two endpoints claim a port, and no database has two: the allocation
\* and every later write respect the indexes, so HAProxy never gets two
\* frontends for one port.
PortExclusive ==
  /\ \A s, t \in Slots :
       (s # t /\ {ep[s].status, ep[t].status} \subseteq PublicEp) =>
          ep[s].port # ep[t].port /\ ep[s].db # ep[t].db
  /\ \A c, d \in running : c.port = d.port => c = d

\* The comment in Apply: "the file on disk keeps matching what HAProxy is
\* actually serving".
FileIsServed == (\A r \in Replicas : rec[r].step # "written") => running = file

\* The user guide: active means "in the applied config".
ActiveIsServed == \A s \in Slots : ep[s].status = "active" => Served(s)

\* The comment on ListRoutable: "Endpoints in error stay routed".  An endpoint
\* that stays shown as active or in error stays served, whatever else is
\* reconciled or fails.
KeepsListeners ==
  \A s \in Slots :
    Served(s) /\ {ep[s].status, ep'[s].status} \subseteq {"active", "error"} => Served(s)'

ListenerKept == [][KeepsListeners]_vars

\* The comment in TransferOnMove: a moved endpoint's "health has to be
\* re-established rather than inherited from the old one", so after the
\* transfer it is not active until the gateway serves the new server.
HealthReestablished ==
  \A s \in Slots : (ep[s].status = "active" /\ transfer.slot # s) => Served(s)

\* The user guide: disabled means "removed".
DisabledIsRemoved == \A s \in Slots : ep[s].status = "disabled" => ~Leftover(s)

\* The user guide: disabling and enabling again "allocates a different port".
ReenabledElsewhere ==
  \A s, t \in Slots : (s < t /\ ep[t].status # "none" /\ ep[s].db = ep[t].db)
                         => ep[s].port # ep[t].port

\* The comment on transition: "a late reconcile cannot resurrect a disabled
\* endpoint".
DisabledStays ==
  [][\A s \in Slots : ep[s].status = "disabled" => ep'[s].status = "disabled"]_vars

=============================================================================
