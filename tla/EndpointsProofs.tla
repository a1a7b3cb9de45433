-------------------------- MODULE EndpointsProofs --------------------------
(***************************************************************************)
(* Theorems about Endpoints, for any number of databases, rows, ports,     *)
(* replicas and any set of features and faults.                            *)
(*                                                                         *)
(* Replicas write configurations and statuses from rows they listed        *)
(* earlier.  Ports stay exclusive because every write of a row goes through *)
(* the indexes, however outdated its cause, and because every              *)
(* configuration that is ever on disk was generated from rows listed at    *)
(* one moment, when the indexes held.                                      *)
(*                                                                         *)
(* What is shown as active is served because an endpoint keeps its port    *)
(* and its server, only a reconciliation calls it active, and only one     *)
(* that listed it, wrote it and saw it loaded.  This needs one replica,    *)
(* and no move, death or restart in between (Undisturbed).                 *)
(***************************************************************************)
EXTENDS Endpoints, FiniteSetTheorems, WellFoundedInduction, TLAPS

Exists(s) == ep[s].status # "none"

\* A row that was inserted has its port, its server and its allowlist, and
\* whatever its status has become since.
Filled(row) ==
  row.port \in Ports /\ row.host \in Hosts /\ row.allow \in Lists /\ row.db \in Databases

RowsFilled == \A s \in Slots : Exists(s) => Filled(ep[s])

\* The two unique indexes.
Indexes ==
  \A s, t \in Slots :
    s # t /\ ep[s].status \in PublicEp /\ ep[t].status \in PublicEp =>
      ep[s].port # ep[t].port /\ ep[s].db # ep[t].db

\* Requests, a transfer and a reconciliation hold on to rows that exist.
AskedExist == \A a \in asked : a.kind = "disable" => a.slot \in Slots /\ Exists(a.slot)

TransferExists ==
  transfer.step # "idle" =>
    transfer.slot \in Slots /\ Exists(transfer.slot) /\ transfer.to \in Databases

RecExists(r) ==
  /\ \A x \in rec[r].routable \cup rec[r].disabling : Exists(x.slot)
  /\ \A x \in rec[r].routable : Filled(x.row)
  /\ \A u \in rec[r].plan : Exists(u.slot) /\ u.status # "none"

ReferencesExist == AskedExist /\ TransferExists /\ \A r \in Replicas : RecExists(r)

\* No port has two routes.
Unambiguous(routes) == \A c, d \in routes : c.port = d.port => c = d

\* What was listed together has ports of its own, and so has everything that
\* was generated from it: what is on disk, was on disk, or runs.
Unambiguities ==
  /\ Unambiguous(file)
  /\ Unambiguous(running)
  /\ \A r \in Replicas :
       /\ Unambiguous(rec[r].prev)
       /\ \A x, y \in rec[r].routable : x.row.port = y.row.port => x.row = y.row

RowsInv == TypeOK /\ RowsFilled /\ ReferencesExist

PortInv == RowsInv /\ Indexes /\ Unambiguities

\* What no step does to the rows: it takes none away.
RowsStay == \A s \in Slots : Exists(s) => Exists(s)'

---------------------------------------------------------------------------
(* Lemmas about the operators *)

\* Of the ports that are free there is a lowest.
LEMMA LowestPort ==
  ASSUME NEW S, S \subseteq Nat, S # {}
  PROVE  (CHOOSE p \in S : \A q \in S : p <= q) \in S
<1> DEFINE Less == {ss \in Nat \X Nat : ss[1] < ss[2]}
<1>1. IsWellFoundedOn(Less, Nat)
  BY NatLessThanWellFounded DEF OpToRel
<1> HIDE DEF Less
<1>2. PICK p \in S : \A q \in S : <<q, p>> \notin Less
  BY <1>1, WFMin
<1>3. \A q \in S : p <= q
  <2> SUFFICES ASSUME NEW q \in S PROVE p <= q
    OBVIOUS
  <2>1. p \in Nat /\ q \in Nat
    OBVIOUS
  <2>2. q < p => <<q, p>> \in Less
    BY <2>1 DEF Less
  <2>3. ~(q < p)
    BY <1>2, <2>2
  <2>4. QED
    BY <2>1, <2>3
<1>4. QED
  BY <1>3

\* A row whose status is written keeps the rest.
LEMMA Rewritten ==
  ASSUME NEW row \in Endpoint, NEW status \in EpStatus \ {"none"}, NEW err \in Causes
  PROVE  LET new == [row EXCEPT !.status = status, !.err = err] IN
           new \in Endpoint /\ new.status # "none" /\ (Filled(row) => Filled(new))
BY DEF Endpoint, Filled

\* A write of a row that goes through the indexes keeps them.
LEMMA SetKeeps ==
  ASSUME ep \in [Slots -> Endpoint], RowsFilled, Indexes,
         NEW s \in Slots, NEW row \in Endpoint, row.status # "none", Filled(row),
         Set(s, row)
  PROVE  ep' \in [Slots -> Endpoint] /\ RowsFilled' /\ Indexes' /\ RowsStay
<1>1. CASE Allowed(s, row)
  <2>1. ep' = [ep EXCEPT ![s] = row]
    BY <1>1 DEF Set
  <2>2. ep' \in [Slots -> Endpoint]
    BY <2>1
  <2>3. \A t \in Slots : ep'[t] = IF t = s THEN row ELSE ep[t]
    BY <2>1
  <2>4. RowsFilled' /\ RowsStay
    BY <2>3 DEF RowsFilled, RowsStay, Exists
  <2>5. Indexes'
    BY <1>1, <2>3 DEF Indexes, Allowed
  <2>6. QED
    BY <2>2, <2>4, <2>5
<1>2. CASE ~Allowed(s, row)
  BY <1>2 DEF Set, RowsFilled, Indexes, RowsStay, Exists
<1>3. QED
  BY <1>1, <1>2

\* So does a write that changes, of rows that are there, only the server, the
\* allowlist, or the status to one that is not public.
LEMMA HarmlessWrite ==
  ASSUME ep \in [Slots -> Endpoint], RowsFilled, Indexes,
         ep' \in [Slots -> Endpoint],
         \A s \in Slots :
           /\ ep'[s].port = ep[s].port /\ ep'[s].db = ep[s].db
           /\ ep'[s].status = ep[s].status \/ (Exists(s) /\ ep'[s].status = "disabled")
           /\ ep'[s].host = ep[s].host \/ ep'[s].host \in Hosts
           /\ ep'[s].allow = ep[s].allow \/ ep'[s].allow \in Lists
  PROVE  RowsFilled' /\ Indexes' /\ RowsStay
<1>1. RowsStay
  BY DEF RowsStay, Exists
<1>2. RowsFilled'
  BY DEF RowsFilled, Exists, Filled
<1>3. Indexes'
  BY DEF Indexes, PublicEp, Routable
<1>4. QED
  BY <1>1, <1>2, <1>3

\* A snapshot holds rows that exist, as they are.
LEMMA SnapshotRows ==
  ASSUME ep \in [Slots -> Endpoint], RowsFilled, NEW S, S \subseteq PublicEp
  PROVE  /\ Snapshot(S) \subseteq Snapped
         /\ \A x \in Snapshot(S) :
              x.row = ep[x.slot] /\ x.row.status \in S /\ Exists(x.slot) /\ Filled(x.row)
BY DEF Snapshot, Snapped, RowsFilled, Exists, PublicEp, Routable

\* A transition is a write of the row it was decided for.
LEMMA TransitionType ==
  ASSUME NEW s \in Slots, NEW row, NEW status \in EpStatus \ {"none"}, NEW err \in Causes
  PROVE  /\ Transition(s, row, status, err) \subseteq Update
         /\ \A u \in Transition(s, row, status, err) : u.slot = s /\ u.status # "none"
BY DEF Transition, Update

\* What is generated from listed rows are routes, of which none share a port
\* when the rows did not.
LEMMA ContentIsRoutes ==
  ASSUME TypeOK, ReferencesExist, Unambiguities, NEW r \in Replicas
  PROVE  Content(r) \subseteq Route /\ Unambiguous(Content(r))
<1>1. Content(r) \subseteq Route
  BY DEF Content, Listed, Route, ReferencesExist, RecExists, Filled
<1>2. Unambiguous(Content(r))
  BY DEF Content, Listed, Unambiguous, Unambiguities
<1>3. QED
  BY <1>1, <1>2

\* What is held on to stays where no row is taken away.
LEMMA ReferencesStay ==
  ASSUME TypeOK, RowsStay
  PROVE  /\ AskedExist /\ asked' \subseteq asked => AskedExist'
         /\ TransferExists /\ UNCHANGED transfer => TransferExists'
         /\ \A r \in Replicas : RecExists(r) /\ UNCHANGED rec[r] => RecExists(r)'
<1>1. \A r \in Replicas :
        rec[r].routable \subseteq Snapped /\ rec[r].disabling \subseteq Snapped /\ rec[r].plan \subseteq Update
  BY DEF TypeOK
<1>2. AskedExist /\ asked' \subseteq asked => AskedExist'
  BY DEF AskedExist, RowsStay, Exists
<1>3. TransferExists /\ UNCHANGED transfer => TransferExists'
  BY DEF TransferExists, RowsStay, Exists
<1>4. ASSUME NEW r \in Replicas, RecExists(r), UNCHANGED rec[r] PROVE RecExists(r)'
  <2>1. \A x \in rec[r].routable \cup rec[r].disabling : x.slot \in Slots
    BY <1>1 DEF Snapped
  <2>2. \A u \in rec[r].plan : u.slot \in Slots
    BY <1>1 DEF Update
  <2>3. QED
    BY <1>4, <2>1, <2>2 DEF RecExists, RowsStay, Exists, Filled
<1>5. QED
  BY <1>2, <1>3, <1>4

---------------------------------------------------------------------------
(* The invariant *)

LEMMA InitPorts == Init => PortInv
BY EndpointAssumption DEF Init, PortInv, RowsInv, TypeOK, RowsFilled, Exists, ReferencesExist, AskedExist,
   TransferExists, RecExists, Indexes, Unambiguities, Unambiguous, NoEndpoint, Endpoint,
   EpStatus, PublicEp, Routable, Causes, Idle, Quiet

\* A user's request writes rows, what is asked and the transfer, and keeps what
\* the reconciliations and the gateway hold.
UserStep ==
  \/ \E d \in Databases : EnableCheck(d) \/ DeleteCleanup(d)
  \/ \E d \in Databases, s \in Slots :
       \/ DisableCheck(d, s)
       \/ \E allow \in Lists : EnableInsert(d, s, allow) \/ EditAllowlist(d, s, allow)
       \/ \E to \in Databases : TransferRead(d, to, s)
  \/ \E a \in asked : DisableWrite(a) \/ DeleteRecord(a)
  \/ TransferDatabase \/ UpdateBackend \/ TransferPending

RowsGood == ep' \in [Slots -> Endpoint] /\ RowsFilled' /\ Indexes' /\ RowsStay

\* However a request's write is delayed, the rows stay whole and exclusive.
LEMMA UserRows == PortInv /\ UserStep => RowsGood
<1> SUFFICES ASSUME PortInv, UserStep PROVE RowsGood
  OBVIOUS
<1>0. /\ ep \in [Slots -> Endpoint] /\ RowsFilled /\ Indexes
      /\ db \in [Databases -> [status : {"active", "absent", "deleted"}, host : Hosts]]
  BY DEF PortInv, RowsInv, TypeOK
<1> DEFINE same == UNCHANGED ep
<1>1. ASSUME same PROVE RowsGood
  BY <1>0, <1>1 DEF RowsGood, RowsFilled, Indexes, RowsStay, Exists, Filled
<1>2. ASSUME NEW d \in Databases, DeleteCleanup(d) PROVE RowsGood
  <2>1. ep' = [s \in Slots |-> IF s \in PublicOf(d) THEN [ep[s] EXCEPT !.status = "disabled"] ELSE ep[s]]
    BY <1>2 DEF DeleteCleanup
  <2>2. \A s \in PublicOf(d) : s \in Slots /\ Exists(s)
    BY DEF PublicOf, Exists, PublicEp, Routable
  <2>3. ep' \in [Slots -> Endpoint]
    BY <1>0, <2>1 DEF Endpoint, EpStatus
  <2>4. ASSUME NEW s \in Slots
        PROVE  /\ ep'[s].port = ep[s].port /\ ep'[s].db = ep[s].db
               /\ ep'[s].status = ep[s].status \/ (Exists(s) /\ ep'[s].status = "disabled")
               /\ ep'[s].host = ep[s].host \/ ep'[s].host \in Hosts
               /\ ep'[s].allow = ep[s].allow \/ ep'[s].allow \in Lists
    <3>1. CASE s \in PublicOf(d)
      <4>1. ep'[s] = [ep[s] EXCEPT !.status = "disabled"] /\ Exists(s)
        BY <2>1, <2>2, <3>1
      <4>2. QED
        BY <1>0, <4>1 DEF Endpoint
    <3>2. CASE s \notin PublicOf(d)
      BY <2>1, <3>2
    <3>3. QED
      BY <3>1, <3>2
  <2>5. RowsFilled' /\ Indexes' /\ RowsStay
    BY ONLY <1>0, <2>3, <2>4, HarmlessWrite
  <2>6. QED
    BY <2>3, <2>5 DEF RowsGood
<1>3. ASSUME NEW d \in Databases, NEW s \in Slots, NEW allow \in Lists, EnableInsert(d, s, allow)
      PROVE RowsGood
  <2> DEFINE port == CHOOSE p \in FreePorts : \A q \in FreePorts : p <= q
             row == [status |-> "pending", db |-> d, port |-> port, host |-> db[d].host,
                     allow |-> allow, err |-> "none"]
  <2>1. CASE FreePorts = {}
    BY <1>1, <1>3, <2>1 DEF EnableInsert
  <2>2. CASE FreePorts # {}
    <3>1. port \in Ports
      BY <2>2, EndpointAssumption, LowestPort DEF FreePorts
    <3> HIDE DEF port
    <3>2. row \in Endpoint /\ row.status # "none" /\ Filled(row)
      BY <1>0, <3>1 DEF Endpoint, EpStatus, PublicEp, Routable, Causes, Filled
    <3>3. Set(s, row)
      BY <1>3, <2>2 DEF EnableInsert, port
    <3>4. QED
      BY <1>0, <3>2, <3>3, SetKeeps DEF RowsGood
  <2>3. QED
    BY <2>1, <2>2
<1>4. ASSUME NEW d \in Databases, NEW s \in Slots, NEW allow \in Lists, EditAllowlist(d, s, allow)
      PROVE RowsGood
  <2>1. ep' = [ep EXCEPT ![s].allow = allow]
    BY <1>4 DEF EditAllowlist
  <2>2. ep' \in [Slots -> Endpoint]
    BY <1>0, <2>1 DEF Endpoint
  <2>3. \A t \in Slots :
           /\ ep'[t].port = ep[t].port /\ ep'[t].db = ep[t].db
           /\ ep'[t].status = ep[t].status \/ (Exists(t) /\ ep'[t].status = "disabled")
           /\ ep'[t].host = ep[t].host \/ ep'[t].host \in Hosts
           /\ ep'[t].allow = ep[t].allow \/ ep'[t].allow \in Lists
    BY <1>0, <2>1 DEF Endpoint
  <2>4. RowsFilled' /\ Indexes' /\ RowsStay
    BY ONLY <1>0, <2>2, <2>3, HarmlessWrite
  <2>5. QED
    BY <2>2, <2>4 DEF RowsGood
<1>5. ASSUME NEW a \in asked, DisableWrite(a) PROVE RowsGood
  <2>1. a.slot \in Slots /\ Exists(a.slot)
    BY <1>5 DEF DisableWrite, PortInv, RowsInv, ReferencesExist, AskedExist
  <2> DEFINE row == [ep[a.slot] EXCEPT !.status = "disabling", !.err = "none"]
  <2>2. ep[a.slot] \in Endpoint /\ Filled(ep[a.slot])
    BY <1>0, <2>1 DEF RowsFilled
  <2>3. row \in Endpoint /\ row.status # "none" /\ Filled(row)
    BY <2>2, Rewritten DEF EpStatus, PublicEp, Routable, Causes
  <2>4. Set(a.slot, row)
    BY <1>5 DEF DisableWrite
  <2>5. QED
    BY <1>0, <2>1, <2>3, <2>4, SetKeeps DEF RowsGood
<1>6. ASSUME TransferDatabase PROVE RowsGood
  <2>1. transfer.slot \in Slots /\ transfer.to \in Databases
    BY <1>6 DEF TransferDatabase, PortInv, RowsInv, ReferencesExist, TransferExists
  <2> DEFINE d == ep[transfer.slot].db
             moved == PublicOf(d)
  <2>2. CASE moved = {} \/ PublicOf(transfer.to) = {}
    <3>1. ep' = [s \in Slots |-> IF s \in moved THEN [ep[s] EXCEPT !.db = transfer.to] ELSE ep[s]]
      BY <1>6, <2>2 DEF TransferDatabase
    <3>2. \A s \in moved : s \in Slots /\ Exists(s)
      BY DEF PublicOf, Exists, PublicEp, Routable
    <3>3. ep' \in [Slots -> Endpoint]
      BY <1>0, <2>1, <3>1 DEF Endpoint
    <3>4. \A s \in Slots :
            /\ ep'[s].port = ep[s].port /\ ep'[s].status = ep[s].status
            /\ ep'[s].host = ep[s].host /\ ep'[s].allow = ep[s].allow
            /\ ep'[s].db = IF s \in moved THEN transfer.to ELSE ep[s].db
      BY <1>0, <3>1 DEF Endpoint
    <3> HIDE DEF moved
    <3>5. RowsStay
      BY <3>4 DEF RowsStay, Exists
    <3>6. RowsFilled'
      BY <1>0, <2>1, <3>4 DEF RowsFilled, Exists, Filled
    <3>7. \A s, t \in moved : s = t
      BY <1>0 DEF moved, PublicOf, Indexes
    <3>8. \A s \in moved, t \in Slots \ moved : ep[t].status \in PublicEp => ep[t].db # transfer.to
      BY <2>2 DEF PublicOf
    <3>9. Indexes'
      <4> SUFFICES ASSUME NEW s \in Slots, NEW t \in Slots, s # t,
                          ep'[s].status \in PublicEp, ep'[t].status \in PublicEp
                   PROVE  ep'[s].port # ep'[t].port /\ ep'[s].db # ep'[t].db
        BY DEF Indexes
      <4>1. ep[s].port # ep[t].port /\ ep[s].db # ep[t].db
        BY <1>0, <3>4 DEF Indexes
      <4>2. ~(s \in moved /\ t \in moved)
        BY <3>7
      <4>3. QED
        BY <3>4, <3>8, <4>1, <4>2
    <3>10. QED
      BY <3>3, <3>5, <3>6, <3>9 DEF RowsGood
  <2>3. CASE ~(moved = {} \/ PublicOf(transfer.to) = {})
    BY <1>1, <1>6, <2>3 DEF TransferDatabase
  <2>4. QED
    BY <2>2, <2>3
<1>7. ASSUME UpdateBackend PROVE RowsGood
  <2>1. transfer.slot \in Slots /\ transfer.to \in Databases
    BY <1>7 DEF UpdateBackend, PortInv, RowsInv, ReferencesExist, TransferExists
  <2>2. ep' = [ep EXCEPT ![transfer.slot].host = db[transfer.to].host]
    BY <1>7 DEF UpdateBackend
  <2>3. db[transfer.to].host \in Hosts
    BY <1>0, <2>1
  <2>4. ep' \in [Slots -> Endpoint]
    BY <1>0, <2>2, <2>3 DEF Endpoint
  <2>5. \A t \in Slots :
           /\ ep'[t].port = ep[t].port /\ ep'[t].db = ep[t].db
           /\ ep'[t].status = ep[t].status \/ (Exists(t) /\ ep'[t].status = "disabled")
           /\ ep'[t].host = ep[t].host \/ ep'[t].host \in Hosts
           /\ ep'[t].allow = ep[t].allow \/ ep'[t].allow \in Lists
    BY <1>0, <2>2, <2>3 DEF Endpoint
  <2>6. RowsFilled' /\ Indexes' /\ RowsStay
    BY ONLY <1>0, <2>4, <2>5, HarmlessWrite
  <2>7. QED
    BY <2>4, <2>6 DEF RowsGood
<1>8. ASSUME TransferPending PROVE RowsGood
  <2>1. transfer.slot \in Slots /\ Exists(transfer.slot)
    BY <1>8 DEF TransferPending, PortInv, RowsInv, ReferencesExist, TransferExists
  <2> DEFINE row == [ep[transfer.slot] EXCEPT !.status = "pending", !.err = "none"]
  <2>2. ep[transfer.slot] \in Endpoint /\ Filled(ep[transfer.slot])
    BY <1>0, <2>1 DEF RowsFilled
  <2>3. row \in Endpoint /\ row.status # "none" /\ Filled(row)
    BY <2>2, Rewritten DEF EpStatus, PublicEp, Routable, Causes
  <2>4. Set(transfer.slot, row)
    BY <1>8 DEF TransferPending
  <2>5. QED
    BY <1>0, <2>1, <2>3, <2>4, SetKeeps DEF RowsGood
<1>9. QED
  BY <1>1, <1>2, <1>3, <1>4, <1>5, <1>6, <1>7, <1>8
     DEF UserStep, EnableCheck, DisableCheck, TransferRead, DeleteRecord

\* What a request leaves behind: its next statement, about a row that is there.
LEMMA UserKeeps == PortInv /\ UserStep => PortInv'
<1> SUFFICES ASSUME PortInv, UserStep PROVE PortInv'
  OBVIOUS
<1> USE EndpointAssumption
<1>1. RowsGood
  BY UserRows
<1>2. UNCHANGED <<rec, file, running>>
  BY DEF UserStep, EnableCheck, DeleteCleanup, DisableCheck, EnableInsert, EditAllowlist, TransferRead,
         DisableWrite, DeleteRecord, TransferDatabase, UpdateBackend, TransferPending
<1>3. TypeOK /\ AskedExist /\ TransferExists /\ Unambiguities /\ \A r \in Replicas : RecExists(r)
  BY DEF PortInv, RowsInv, ReferencesExist
<1>4. /\ AskedExist /\ asked' \subseteq asked => AskedExist'
      /\ TransferExists /\ UNCHANGED transfer => TransferExists'
      /\ \A r \in Replicas : RecExists(r) /\ UNCHANGED rec[r] => RecExists(r)'
  BY <1>1, <1>3, ReferencesStay DEF RowsGood
<1>5. (\A r \in Replicas : RecExists(r)') /\ Unambiguities'
  BY <1>2, <1>3, <1>4 DEF Unambiguities, Unambiguous
<1> DEFINE askedType == SUBSET [kind : {"enable", "disable", "delete"}, db : Databases, slot : Slots \cup {Nothing}]
           dbType == [Databases -> [status : {"active", "absent", "deleted"}, host : Hosts]]
           transferType == [step : {"idle", "read", "transferred", "backend"}, slot : Slots \cup {Nothing},
                            to : Databases \cup {Nothing}]
           kept == db' \in dbType /\ asked' \in askedType /\ transfer' \in transferType /\ AskedExist' /\ TransferExists'
<1>6. asked \in askedType /\ db \in dbType /\ transfer \in transferType
  BY <1>3 DEF TypeOK
<1>7. kept
  <2>1. ASSUME NEW d \in Databases, EnableCheck(d) PROVE kept
    <3>1. /\ UNCHANGED <<db, ep, transfer>>
          /\ asked' = asked \cup {[kind |-> "enable", db |-> d, slot |-> Nothing]}
      BY <2>1 DEF EnableCheck
    <3>2. AskedExist'
      BY <1>3, <3>1 DEF AskedExist, Exists
    <3>3. QED
      BY <1>3, <1>4, <1>6, <3>1, <3>2
  <2>2. ASSUME NEW d \in Databases, DeleteCleanup(d) PROVE kept
    <3>1. /\ UNCHANGED <<db, transfer>>
          /\ asked' = asked \cup {[kind |-> "delete", db |-> d, slot |-> Nothing]}
      BY <2>2 DEF DeleteCleanup
    <3>2. \A a \in asked : a.kind = "disable" => a.slot \in Slots /\ Exists(a.slot)'
      BY <1>1, <1>3 DEF RowsGood, RowsStay, AskedExist
    <3>3. AskedExist'
      BY <3>1, <3>2 DEF AskedExist
    <3>4. QED
      BY <1>3, <1>4, <1>6, <3>1, <3>3
  <2>3. ASSUME NEW d \in Databases, NEW s \in Slots, DisableCheck(d, s) PROVE kept
    <3>1. /\ UNCHANGED <<db, ep, transfer>> /\ Exists(s)
          /\ asked' = asked \cup {[kind |-> "disable", db |-> d, slot |-> s]}
      BY <2>3 DEF DisableCheck, PublicOf, Exists, PublicEp, Routable
    <3>2. AskedExist'
      BY <1>3, <3>1 DEF AskedExist, Exists
    <3>3. QED
      BY <1>3, <1>4, <1>6, <3>1, <3>2
  <2>4. ASSUME NEW d \in Databases, NEW s \in Slots, NEW allow \in Lists, EnableInsert(d, s, allow)
        PROVE kept
    BY <1>3, <1>4, <1>6, <2>4 DEF EnableInsert
  <2>5. ASSUME NEW d \in Databases, NEW s \in Slots, NEW allow \in Lists, EditAllowlist(d, s, allow)
        PROVE kept
    BY <1>3, <1>4, <1>6, <2>5 DEF EditAllowlist
  <2>6. ASSUME NEW d \in Databases, NEW s \in Slots, NEW to \in Databases, TransferRead(d, to, s)
        PROVE kept
    <3>1. /\ UNCHANGED <<ep, asked>> /\ Exists(s)
          /\ db' = [db EXCEPT ![to].status = "active"]
          /\ transfer' = [step |-> "read", slot |-> s, to |-> to]
      BY <2>6 DEF TransferRead, PublicOf, Exists, PublicEp, Routable
    <3>2. TransferExists'
      BY <3>1 DEF TransferExists, Exists
    <3>3. db' \in dbType
      BY <1>6, <3>1
    <3>4. QED
      BY <1>3, <1>4, <1>6, <3>1, <3>2, <3>3
  <2>7. ASSUME NEW a \in asked, DisableWrite(a) \/ DeleteRecord(a) PROVE kept
    <3>1. asked' \subseteq asked /\ UNCHANGED transfer
      BY <2>7 DEF DisableWrite, DeleteRecord
    <3>2. db' \in dbType
      BY <1>6, <2>7 DEF DisableWrite, DeleteRecord
    <3>3. QED
      BY <1>3, <1>4, <1>6, <3>1, <3>2
  <2>8. ASSUME TransferDatabase \/ UpdateBackend \/ TransferPending PROVE kept
    <3>1. /\ UNCHANGED <<db, asked>>
          /\ \/ transfer.step # "idle" /\ transfer' = [transfer EXCEPT !.step = "transferred"]
             \/ transfer.step # "idle" /\ transfer' = [transfer EXCEPT !.step = "backend"]
             \/ transfer' = Quiet
      BY <2>8 DEF TransferDatabase, UpdateBackend, TransferPending
    <3>2. transfer' \in transferType
      BY <1>6, <3>1 DEF Quiet
    <3>3. \/ transfer'.step = "idle"
          \/ transfer.step # "idle" /\ transfer'.slot = transfer.slot /\ transfer'.to = transfer.to
      BY <1>6, <3>1 DEF Quiet
    <3>4. TransferExists'
      BY <1>1, <1>3, <3>3 DEF TransferExists, RowsGood, RowsStay, Exists
    <3>5. QED
      BY <1>3, <1>4, <1>6, <3>1, <3>2, <3>4
  <2>9. QED
    BY <2>1, <2>2, <2>3, <2>4, <2>5, <2>6, <2>7, <2>8 DEF UserStep
<1>8. TypeOK'
  BY <1>1, <1>2, <1>3, <1>7 DEF TypeOK, RowsGood
<1>9. QED
  BY <1>1, <1>5, <1>7, <1>8 DEF PortInv, RowsInv, RowsGood, ReferencesExist

\* A step of a reconciliation leaves users' requests alone; what it has listed
\* exists, and what it writes was listed at one moment.
ReconcileStep(r) ==
  \/ Reconcile(r) \/ Crash(r)
  \/ \E loaded \in BOOLEAN : ReloadFails(r, loaded)

RecType == [step : {"idle", "routable", "listed", "written", "refused", "applied", "settling"},
            routable : SUBSET Snapped, disabling : SUBSET Snapped, prev : SUBSET Route,
            plan : SUBSET Update]

\* What a step of r has to keep of r's own reconciliation.
RecGood(r) ==
  /\ rec' \in [Replicas -> RecType]
  /\ \A q \in Replicas \ {r} : rec'[q] = rec[q]
  /\ RecExists(r)'
  /\ Unambiguous(rec'[r].prev)
  /\ \A x, y \in rec'[r].routable : x.row.port = y.row.port => x.row = y.row

FilesGood == file' \subseteq Route /\ running' \subseteq Route /\ Unambiguous(file)' /\ Unambiguous(running)'

\* A plan after a failed reload, and one after the gateway was asked.
FailurePlan(r) == UNION {Transition(x.slot, x.row, "pending", "apply") : x \in rec[r].routable}

ReportedPlan(r, read, up) ==
  Retired(r) \cup
    UNION {Settled(x, read, {c.port : c \in running}, up) : x \in rec[r].routable}

PlanGood(plan) == plan \subseteq Update /\ \A u \in plan : Exists(u.slot) /\ u.status # "none"

\* Each planned write is of a row that was listed.
LEMMA PlansAreListed ==
  ASSUME PortInv, NEW r \in Replicas, NEW read, NEW up
  PROVE  PlanGood(FailurePlan(r)) /\ PlanGood(ReportedPlan(r, read, up))
<1> DEFINE served == {c.port : c \in running}
<1>1. /\ rec[r].routable \subseteq Snapped /\ rec[r].disabling \subseteq Snapped
      /\ \A x \in rec[r].routable \cup rec[r].disabling : Exists(x.slot)
  BY DEF PortInv, RowsInv, TypeOK, ReferencesExist, RecExists
<1>2. {"pending", "active", "error", "disabled"} \subseteq EpStatus \ {"none"} /\ {"apply", "stats", "missing", "down", "none"} \subseteq Causes
  BY DEF EpStatus, PublicEp, Routable, Causes
<1>3. \A x \in rec[r].routable \cup rec[r].disabling : x.slot \in Slots
  BY <1>1 DEF Snapped
<1>4. ASSUME NEW x \in rec[r].routable \cup rec[r].disabling,
             NEW status \in {"pending", "active", "error", "disabled"}, NEW err \in {"apply", "stats", "missing", "down", "none"}
      PROVE  /\ Transition(x.slot, x.row, status, err) \subseteq Update
             /\ \A u \in Transition(x.slot, x.row, status, err) : Exists(u.slot) /\ u.status # "none"
  BY <1>1, <1>2, <1>3, TransitionType
<1>5. ASSUME NEW x \in rec[r].routable
      PROVE  /\ Settled(x, read, served, up) \subseteq Update
             /\ \A u \in Settled(x, read, served, up) : Exists(u.slot) /\ u.status # "none"
  BY <1>4 DEF Settled
<1>6. Retired(r) \subseteq Update /\ \A u \in Retired(r) : Exists(u.slot) /\ u.status # "none"
  BY <1>4 DEF Retired
<1>7. PlanGood(FailurePlan(r))
  BY <1>4 DEF PlanGood, FailurePlan
<1>8. PlanGood(ReportedPlan(r, read, up))
  BY <1>5, <1>6 DEF PlanGood, ReportedPlan
<1>9. QED
  BY <1>7, <1>8

\* A status decided a while ago is written through the indexes too.
LEMMA SettleRows ==
  ASSUME PortInv, NEW r \in Replicas, NEW u \in rec[r].plan, Settle(r, u)
  PROVE  RowsGood
<1>1. ep \in [Slots -> Endpoint] /\ RowsFilled /\ Indexes
  BY DEF PortInv, RowsInv, TypeOK
<1>2. u \in Update /\ Exists(u.slot) /\ u.status # "none"
  BY DEF PortInv, RowsInv, TypeOK, ReferencesExist, RecExists
<1>3. u.slot \in Slots /\ u.status \in EpStatus /\ u.err \in Causes
  BY <1>2 DEF Update
<1> DEFINE row == [ep[u.slot] EXCEPT !.status = u.status, !.err = u.err]
<1>4. ep[u.slot] \in Endpoint /\ Filled(ep[u.slot])
  BY <1>1, <1>2, <1>3 DEF RowsFilled
<1>5. row \in Endpoint /\ row.status # "none" /\ Filled(row)
  BY <1>2, <1>3, <1>4, Rewritten
<1>6. Set(u.slot, row)
  BY DEF Settle
<1>7. QED
  BY <1>1, <1>3, <1>5, <1>6, SetKeeps DEF RowsGood

\* One step of one reconciliation.
LEMMA ReconcileKeeps ==
  ASSUME PortInv, NEW r \in Replicas, ReconcileStep(r)
  PROVE  RowsGood /\ RecGood(r) /\ FilesGood /\ UNCHANGED <<db, asked, transfer>>
<1> USE EndpointAssumption
<1>1. /\ ep \in [Slots -> Endpoint] /\ RowsFilled /\ Indexes
      /\ rec \in [Replicas -> RecType] /\ file \subseteq Route /\ running \subseteq Route
      /\ TypeOK /\ ReferencesExist /\ RecExists(r) /\ Unambiguities
  BY DEF PortInv, RowsInv, TypeOK, RecType, ReferencesExist
<1>2. /\ rec[r] \in RecType /\ Unambiguous(file) /\ Unambiguous(running) /\ Unambiguous(rec[r].prev)
      /\ \A x, y \in rec[r].routable : x.row.port = y.row.port => x.row = y.row
  BY <1>1 DEF Unambiguities
<1>3. ASSUME UNCHANGED ep PROVE RowsGood
  BY <1>1, <1>3 DEF RowsGood, RowsFilled, Indexes, RowsStay, Exists, Filled
<1>4. ASSUME UNCHANGED file PROVE FilesGood \/ running' # running
  BY <1>1, <1>2, <1>4 DEF FilesGood, Unambiguous
<1> DEFINE kept == RowsGood /\ RecGood(r) /\ FilesGood /\ UNCHANGED <<db, asked, transfer>>
\* What a new value of the reconciliation has to satisfy where no row changes.
<1>5. ASSUME NEW new \in RecType, rec' = [rec EXCEPT ![r] = new], UNCHANGED ep,
             \A x \in new.routable \cup new.disabling : Exists(x.slot),
             \A x \in new.routable : Filled(x.row),
             \A u \in new.plan : Exists(u.slot) /\ u.status # "none",
             Unambiguous(new.prev),
             \A x, y \in new.routable : x.row.port = y.row.port => x.row = y.row
      PROVE  RecGood(r)
  <2>1. rec' \in [Replicas -> RecType] /\ rec'[r] = new /\ \A q \in Replicas \ {r} : rec'[q] = rec[q]
    BY <1>1, <1>5
  <2>2. RecExists(r)'
    BY <1>5, <2>1 DEF RecExists, Exists, Filled
  <2>3. QED
    BY <1>5, <2>1, <2>2 DEF RecGood
<1>6. CASE ListRoutable(r)
  <2> DEFINE snap == Snapshot(Routable)
             new == [rec[r] EXCEPT !.step = "routable", !.routable = snap]
  <2>1. rec' = [rec EXCEPT ![r] = new] /\ UNCHANGED <<db, ep, asked, transfer, file, running>>
    BY <1>1, <1>6 DEF ListRoutable, RecType
  <2>2. /\ snap \subseteq Snapped
        /\ \A x \in snap : x.row = ep[x.slot] /\ x.row.status \in Routable /\ Exists(x.slot) /\ Filled(x.row)
    BY <1>1, SnapshotRows DEF PublicEp
  <2> HIDE DEF snap
  <2>3. new \in RecType /\ new.routable = snap
        /\ new.disabling = rec[r].disabling /\ new.plan = rec[r].plan /\ new.prev = rec[r].prev
    BY <1>2, <2>2 DEF RecType
  <2>4. \A x, y \in snap : x.row.port = y.row.port => x.row = y.row
    BY <1>1, <2>2 DEF Indexes, Snapped, PublicEp
  <2> HIDE DEF new
  <2>5. /\ \A x \in new.routable \cup new.disabling : Exists(x.slot)
        /\ \A x \in new.routable : Filled(x.row)
        /\ \A u \in new.plan : Exists(u.slot) /\ u.status # "none"
    BY <1>1, <2>2, <2>3 DEF RecExists
  <2>6. /\ Unambiguous(new.prev)
        /\ \A x, y \in new.routable : x.row.port = y.row.port => x.row = y.row
    BY <1>2, <2>3, <2>4
  <2>7. RecGood(r)
    BY <1>5, <2>1, <2>3, <2>5, <2>6
  <2>8. QED
    BY <1>3, <1>4, <2>1, <2>7
<1>7. CASE ListDisabling(r)
  <2> DEFINE new == [rec[r] EXCEPT !.step = "listed", !.disabling = Snapshot({"disabling"})]
  <2>1. rec' = [rec EXCEPT ![r] = new] /\ UNCHANGED <<db, ep, asked, transfer, file, running>>
    BY <1>1, <1>7 DEF ListDisabling, RecType
  <2>2. /\ Snapshot({"disabling"}) \subseteq Snapped
        /\ \A x \in Snapshot({"disabling"}) : Exists(x.slot)
    BY <1>1, SnapshotRows DEF PublicEp
  <2>3. new \in RecType /\ new.disabling = Snapshot({"disabling"})
        /\ new.routable = rec[r].routable /\ new.plan = rec[r].plan /\ new.prev = rec[r].prev
    BY <1>2, <2>2 DEF RecType
  <2> HIDE DEF new
  <2>4. RecGood(r)
    BY <1>1, <1>2, <1>5, <2>1, <2>2, <2>3 DEF RecExists
  <2>5. QED
    BY <1>3, <1>4, <2>1, <2>4
<1>8. CASE Write(r)
  <2>1. UNCHANGED <<db, ep, asked, transfer, running>>
    BY <1>8 DEF Write
  <2>2. Content(r) \subseteq Route /\ Unambiguous(Content(r))
    BY <1>1, ContentIsRoutes
  <2>3. FilesGood
    BY <1>1, <1>2, <1>8, <2>2 DEF Write, FilesGood, Unambiguous
  <2>4. PICK prev \in {rec[r].prev, file}, step \in {"written", "applied"} :
          rec' = [rec EXCEPT ![r] = [rec[r] EXCEPT !.step = step, !.prev = prev]]
    <3>1. CASE file = Content(r)
      <4>1. rec' = [rec EXCEPT ![r] = [rec[r] EXCEPT !.step = "applied", !.prev = rec[r].prev]]
        BY <1>1, <1>2, <1>8, <3>1 DEF Write, RecType
      <4>2. QED
        BY <4>1
    <3>2. CASE file # Content(r)
      <4>1. rec' = [rec EXCEPT ![r] = [rec[r] EXCEPT !.step = "written", !.prev = file]]
        BY <1>1, <1>2, <1>8, <3>2 DEF Write, RecType
      <4>2. QED
        BY <4>1
    <3>3. QED
      BY <3>1, <3>2
  <2> DEFINE new == [rec[r] EXCEPT !.step = step, !.prev = prev]
  <2>5. new \in RecType /\ new.disabling = rec[r].disabling
        /\ new.routable = rec[r].routable /\ new.plan = rec[r].plan /\ new.prev = prev
    BY <1>1, <1>2 DEF RecType
  <2>6. rec' = [rec EXCEPT ![r] = new] /\ Unambiguous(prev)
    BY <1>2, <2>4
  <2> HIDE DEF new
  <2>7. RecGood(r)
    BY <1>1, <1>2, <1>5, <2>1, <2>5, <2>6 DEF RecExists
  <2>8. QED
    BY <1>3, <2>1, <2>3, <2>7
<1>9. CASE \/ Reload(r) \/ \E loaded \in BOOLEAN : ReloadFails(r, loaded)
  <2>1. UNCHANGED <<db, ep, asked, transfer>>
    BY <1>9 DEF Reload, ReloadFails
  <2>2. FilesGood
    <3>1. rec[r].prev \subseteq Route
      BY <1>2 DEF RecType
    <3>2. file' \in {file, rec[r].prev} /\ running' \in {running, file, rec[r].prev}
      BY <1>9 DEF Reload, ReloadFails
    <3>3. QED
      BY <1>1, <1>2, <3>1, <3>2 DEF FilesGood, Unambiguous
  <2>3. PICK step \in {"applied", "refused"} : rec' = [rec EXCEPT ![r] = [rec[r] EXCEPT !.step = step]]
    BY <1>1, <1>9 DEF Reload, ReloadFails
  <2> DEFINE new == [rec[r] EXCEPT !.step = step]
  <2>4. new \in RecType /\ new.disabling = rec[r].disabling
        /\ new.routable = rec[r].routable /\ new.plan = rec[r].plan /\ new.prev = rec[r].prev
    BY <1>2 DEF RecType
  <2>5. rec' = [rec EXCEPT ![r] = new]
    BY <2>3
  <2> HIDE DEF new
  <2>6. RecGood(r)
    BY <1>1, <1>2, <1>5, <2>1, <2>4, <2>5 DEF RecExists
  <2>7. QED
    BY <1>3, <2>1, <2>2, <2>6
<1>10. CASE PlanFailure(r) \/ \E read \in BOOLEAN, up \in SUBSET Ports : Plan(r, read, up)
  <2>1. UNCHANGED <<db, ep, asked, transfer, file, running>>
    BY <1>10 DEF PlanFailure, Plan
  <2>2. PICK plan :
          rec' = [rec EXCEPT ![r] = [rec[r] EXCEPT !.step = "settling", !.plan = plan]] /\ PlanGood(plan)
    <3>1. CASE PlanFailure(r)
      <4>1. rec' = [rec EXCEPT ![r] = [rec[r] EXCEPT !.step = "settling", !.plan = FailurePlan(r)]]
        BY <1>1, <3>1 DEF PlanFailure, RecType, FailurePlan
      <4>2. QED
        BY <4>1, PlansAreListed
    <3>2. CASE \E read \in BOOLEAN, up \in SUBSET Ports : Plan(r, read, up)
      <4>1. PICK read \in BOOLEAN, up \in SUBSET Ports : Plan(r, read, up)
        BY <3>2
      <4>2. rec' = [rec EXCEPT ![r] = [rec[r] EXCEPT !.step = "settling", !.plan = ReportedPlan(r, read, up)]]
        BY <1>1, <4>1 DEF Plan, RecType, ReportedPlan
      <4>3. QED
        BY <4>2, PlansAreListed
    <3>3. QED
      BY <1>10, <3>1, <3>2
  <2> DEFINE new == [rec[r] EXCEPT !.step = "settling", !.plan = plan]
  <2>3. new \in RecType /\ new.disabling = rec[r].disabling
        /\ new.routable = rec[r].routable /\ new.plan = plan /\ new.prev = rec[r].prev
    BY <1>2, <2>2 DEF RecType, PlanGood
  <2>4. rec' = [rec EXCEPT ![r] = new]
    BY <2>2
  <2> HIDE DEF new
  <2>5. RecGood(r)
    BY <1>1, <1>2, <1>5, <2>1, <2>2, <2>3, <2>4 DEF RecExists, PlanGood
  <2>6. QED
    BY <1>3, <1>4, <2>1, <2>5
<1>11. ASSUME NEW u \in rec[r].plan, Settle(r, u) PROVE kept
  <2>1. RowsGood
    BY <1>11, SettleRows
  <2>2. /\ rec' = [rec EXCEPT ![r].plan = @ \ {u}]
        /\ UNCHANGED <<db, asked, transfer, file, running>>
    BY <1>11 DEF Settle
  <2>3. /\ rec' \in [Replicas -> RecType] /\ \A q \in Replicas \ {r} : rec'[q] = rec[q]
        /\ rec'[r].routable = rec[r].routable /\ rec'[r].disabling = rec[r].disabling
        /\ rec'[r].prev = rec[r].prev /\ rec'[r].plan \subseteq rec[r].plan
    BY <1>1, <1>2, <2>2 DEF RecType
  <2>4. RecExists(r)'
    <3>1. \A x \in rec[r].routable \cup rec[r].disabling : x.slot \in Slots
      BY <1>2 DEF RecType, Snapped
    <3>2. \A v \in rec[r].plan : v.slot \in Slots
      BY <1>2 DEF RecType, Update
    <3>3. QED
      BY <1>1, <2>1, <2>3, <3>1, <3>2 DEF RecExists, RowsGood, RowsStay, Exists, Filled
  <2>5. RecGood(r)
    BY <1>2, <2>3, <2>4 DEF RecGood
  <2>6. QED
    BY <1>4, <2>1, <2>2, <2>5
<1>12. CASE Finish(r) \/ Crash(r)
  <2>1. rec' = [rec EXCEPT ![r] = Idle] /\ UNCHANGED <<db, ep, asked, transfer, file, running>>
    BY <1>12 DEF Finish, Crash
  <2>2. Idle \in RecType
    BY DEF Idle, RecType
  <2>3. RecGood(r)
    BY <1>5, <2>1, <2>2 DEF Idle, Unambiguous
  <2>4. QED
    BY <1>3, <1>4, <2>1, <2>3
<1>13. QED
  BY <1>6, <1>7, <1>8, <1>9, <1>10, <1>11, <1>12 DEF ReconcileStep, Reconcile

---------------------------------------------------------------------------
(* Theorems *)

LEMMA NextPorts == PortInv /\ [Next]_vars => PortInv'
<1> SUFFICES ASSUME PortInv, [Next]_vars PROVE PortInv'
  OBVIOUS
<1>1. CASE UserStep
  BY <1>1, UserKeeps
<1>2. ASSUME NEW r \in Replicas, ReconcileStep(r) PROVE PortInv'
  <2>1. RowsGood /\ RecGood(r) /\ FilesGood /\ UNCHANGED <<db, asked, transfer>>
    BY <1>2, ReconcileKeeps
  <2>2. TypeOK /\ AskedExist /\ TransferExists /\ Unambiguities /\ \A q \in Replicas : RecExists(q)
    BY DEF PortInv, RowsInv, ReferencesExist
  <2>3. TypeOK'
    BY <2>1, <2>2 DEF TypeOK, RowsGood, RecGood, RecType, FilesGood
  <2>4. ReferencesExist'
    <3>1. AskedExist' /\ TransferExists'
      BY <2>1, <2>2, ReferencesStay DEF RowsGood
    <3>2. \A q \in Replicas \ {r} : RecExists(q)'
      BY <2>1, <2>2, ReferencesStay DEF RowsGood, RecGood
    <3>3. QED
      BY <2>1, <3>1, <3>2 DEF ReferencesExist, RecGood
  <2>5. Unambiguities'
    BY <2>1, <2>2 DEF Unambiguities, RecGood, FilesGood
  <2>6. QED
    BY <2>1, <2>3, <2>4, <2>5 DEF PortInv, RowsInv, RowsGood
<1>3. CASE GatewayRestart
  <2>1. running' = file /\ UNCHANGED <<db, ep, asked, transfer, rec, file>>
    BY <1>3 DEF GatewayRestart
  <2>2. QED
    BY <2>1 DEF PortInv, RowsInv, TypeOK, RowsFilled, Exists, Filled, ReferencesExist, AskedExist,
       TransferExists, RecExists, Indexes, Unambiguities, Unambiguous
<1>4. CASE UNCHANGED vars
  BY <1>4 DEF vars, PortInv, RowsInv, TypeOK, RowsFilled, Exists, Filled, ReferencesExist, AskedExist,
     TransferExists, RecExists, Indexes, Unambiguities, Unambiguous
<1>5. QED
  BY <1>1, <1>2, <1>3, <1>4 DEF Next, UserStep, ReconcileStep

\* Rows, requests, a move's transfer and reconciliations stay well-formed, in
\* whatever order replicas, users and faults act.
THEOREM EndpointTypes == Spec => []TypeOK
<1>1. PortInv => TypeOK
  BY DEF PortInv, RowsInv
<1>2. QED
  BY <1>1, InitPorts, NextPorts, PTL DEF Spec

\* No two endpoints ever claim a port, no database has two, and HAProxy never
\* runs a configuration with two routes for one port: not even with outdated
\* reconciliations, deaths, failed reloads and moves.
THEOREM PortsExclusive == Spec => []PortExclusive
<1>1. PortInv => PortExclusive
  BY DEF PortInv, Indexes, Unambiguities, Unambiguous, PortExclusive
<1>2. QED
  BY <1>1, InitPorts, NextPorts, PTL DEF Spec
---------------------------------------------------------------------------
(* What is shown as active is served *)

\* One replica reconciles; no database moves, no process dies, and the gateway
\* does not restart.  Reloads may fail, and users disable, delete and edit.
Undisturbed == Features \cap {"move", "crash", "restart"} = {} /\ \A q, r \in Replicas : q = r

\* An endpoint keeps its port and its server.
PlacesStay == \A s \in Slots : Exists(s) => ep'[s].port = ep[s].port /\ ep'[s].host = ep[s].host

\* Only a reconciliation calls an endpoint active or in error.
Shown == {"active", "error"}

ShownCome ==
  \A s \in Slots, status \in Shown : ep'[s].status = status =>
    \/ ep[s].status = status
    \/ \E r \in Replicas :
         rec[r].step = "settling" /\ \E u \in rec[r].plan : u.slot = s /\ u.status = status

\* What was listed has the port and the server of its row.
ListedAsIs ==
  \A r \in Replicas : rec[r].step # "idle" =>
    \A x \in rec[r].routable : x.row.port = ep[x.slot].port /\ x.row.host = ep[x.slot].host

\* What is active or in error when a configuration is generated and loaded is
\* in it.
ShownAreListed ==
  \A r \in Replicas : rec[r].step \in {"routable", "listed", "written"} =>
    \A s \in Slots : ep[s].status \in Shown => \E x \in rec[r].routable : x.slot = s

\* The file is ahead of the gateway by what one reconciliation has written.
FileIsAhead ==
  /\ FileIsServed
  /\ \A r \in Replicas :
       /\ rec[r].step = "written" => running = rec[r].prev /\ file = Content(r)
       /\ rec[r].step = "applied" => running = Content(r)

PlannedAreServed ==
  \A r \in Replicas : rec[r].step = "settling" => \A u \in rec[r].plan : u.status = "active" => Served(u.slot)

ServedInv ==
  /\ transfer.step = "idle"
  /\ ListedAsIs /\ ShownAreListed /\ FileIsAhead /\ PlannedAreServed /\ ActiveIsServed

\* A status that is written, or refused by the indexes, leaves the rest.
LEMMA StatusWritten ==
  ASSUME ep \in [Slots -> Endpoint], NEW s \in Slots, NEW status, NEW err,
         Set(s, [ep[s] EXCEPT !.status = status, !.err = err]), NEW t \in Slots
  PROVE  \/ ep'[t] = ep[t]
         \/ t = s /\ ep'[t].status = status /\ ep'[t].port = ep[t].port /\ ep'[t].host = ep[t].host
<1>1. PICK row : row = [ep[s] EXCEPT !.status = status, !.err = err]
  OBVIOUS
<1>2. ep[s] \in Endpoint
  OBVIOUS
<1>3. row.status = status /\ row.port = ep[s].port /\ row.host = ep[s].host
  BY <1>1, <1>2 DEF Endpoint
<1>4. ep' = ep \/ ep' = [ep EXCEPT ![s] = row]
  BY <1>1 DEF Set
<1>5. ep'[t] = ep[t] \/ (t = s /\ ep'[t] = row)
  BY <1>4
<1> QED BY <1>3, <1>5

LEMMA UsersServed ==
  ASSUME PortInv, Undisturbed, transfer.step = "idle", UserStep
  PROVE  PlacesStay /\ ShownCome /\ transfer'.step = "idle" /\ UNCHANGED <<rec, file, running>>
<1>t. ep \in [Slots -> Endpoint] /\ AskedExist /\ RowsFilled
  BY DEF PortInv, RowsInv, TypeOK, ReferencesExist
<1>0. CASE \E d \in Databases : EnableCheck(d)
  BY <1>0 DEF EnableCheck, PlacesStay, ShownCome, Shown
<1>1. CASE \E d \in Databases : DeleteCleanup(d)
  <2>1. PICK d \in Databases : DeleteCleanup(d)
    BY <1>1
  <2>2. UNCHANGED <<transfer, rec, file, running>>
    BY <2>1 DEF DeleteCleanup
  <2>3. ASSUME NEW t \in Slots
        PROVE  \/ ep'[t] = ep[t]
               \/ ep'[t].status = "disabled" /\ ep'[t].port = ep[t].port /\ ep'[t].host = ep[t].host
    <3>1. ep[t] \in Endpoint
      BY <1>t
    <3>2. ep'[t] = ep[t] \/ ep'[t] = [ep[t] EXCEPT !.status = "disabled"]
      BY <2>1 DEF DeleteCleanup
    <3> QED BY <3>1, <3>2 DEF Endpoint
  <2> QED BY <2>2, <2>3 DEF PlacesStay, ShownCome, Shown
<1>2. CASE \E d \in Databases, s \in Slots : DisableCheck(d, s)
  BY <1>2 DEF DisableCheck, PlacesStay, ShownCome, Shown
<1>3. CASE \E d \in Databases, s \in Slots, allow \in Lists : EnableInsert(d, s, allow)
  <2>1. PICK d \in Databases, s \in Slots, allow \in Lists : EnableInsert(d, s, allow)
    BY <1>3
  <2>2. ep[s].status = "none" /\ UNCHANGED <<transfer, rec, file, running>>
    BY <2>1 DEF EnableInsert
  <2>3. \A t \in Slots : ep'[t] = ep[t] \/ (t = s /\ ep'[t].status = "pending")
    BY <2>1, <1>t DEF EnableInsert, Set
  <2> QED BY <2>2, <2>3 DEF PlacesStay, ShownCome, Shown, Exists
<1>4. CASE \E d \in Databases, s \in Slots, allow \in Lists : EditAllowlist(d, s, allow)
  BY <1>4, <1>t DEF EditAllowlist, PlacesStay, ShownCome, Shown
<1>5. CASE \E a \in asked : DisableWrite(a)
  <2>1. PICK a \in asked : DisableWrite(a)
    BY <1>5
  <2>2. a.slot \in Slots /\ UNCHANGED <<transfer, rec, file, running>>
    BY <2>1, <1>t DEF DisableWrite, AskedExist
  <2>5. \A t \in Slots : \/ ep'[t] = ep[t]
                         \/ ep'[t].status = "disabling" /\ ep'[t].port = ep[t].port /\ ep'[t].host = ep[t].host
    <3>1. Set(a.slot, [ep[a.slot] EXCEPT !.status = "disabling", !.err = "none"])
      BY <2>1 DEF DisableWrite
    <3>2. ep \in [Slots -> Endpoint]
      BY <1>t
    <3>3. \A t \in Slots : \/ ep'[t] = ep[t]
                           \/ t = a.slot /\ ep'[t].status = "disabling" /\ ep'[t].port = ep[t].port /\ ep'[t].host = ep[t].host
      BY <3>1, <3>2, <2>2, StatusWritten
    <3> QED BY <3>3
  <2> QED BY <2>2, <2>5 DEF PlacesStay, ShownCome, Shown
<1>6. CASE \E a \in asked : DeleteRecord(a)
  BY <1>6 DEF DeleteRecord, PlacesStay, ShownCome, Shown
<1>7. CASE \/ \E d \in Databases, s \in Slots, to \in Databases : TransferRead(d, to, s)
           \/ TransferDatabase \/ UpdateBackend \/ TransferPending
  BY <1>7 DEF TransferRead, TransferDatabase, UpdateBackend, TransferPending, Undisturbed
<1> QED BY <1>0, <1>1, <1>2, <1>3, <1>4, <1>5, <1>6, <1>7 DEF UserStep

LEMMA ReconcilesServed ==
  ASSUME PortInv, NEW r \in Replicas, Reconcile(r) \/ \E loaded \in BOOLEAN : ReloadFails(r, loaded)
  PROVE  PlacesStay /\ ShownCome /\ transfer' = transfer
<1>t. ep \in [Slots -> Endpoint] /\ rec[r].plan \subseteq Update
  BY DEF PortInv, RowsInv, TypeOK
<1>1. CASE \E u \in rec[r].plan : Settle(r, u)
  <2>1. PICK u \in rec[r].plan : Settle(r, u)
    BY <1>1
  <2>2. u.slot \in Slots /\ ep[u.slot] \in Endpoint
    BY <1>t DEF Update
  <2>4. \A t \in Slots : \/ ep'[t] = ep[t]
                         \/ t = u.slot /\ ep'[t].status = u.status /\ ep'[t].port = ep[t].port /\ ep'[t].host = ep[t].host
    BY <1>t, <2>1, <2>2, StatusWritten DEF Settle
  <2>5. rec[r].step = "settling" /\ transfer' = transfer
    BY <2>1 DEF Settle
  <2> QED BY <2>4, <2>5 DEF PlacesStay, ShownCome
<1>2. CASE UNCHANGED <<ep, transfer>>
  BY <1>2 DEF PlacesStay, ShownCome
<1> QED BY <1>1, <1>2 DEF Reconcile, ListRoutable, ListDisabling, Write, Reload, ReloadFails, PlanFailure, Plan, Finish

\* What is served stays so as long as the gateway runs the same.
LEMMA ServedStays ==
  ASSUME PlacesStay, NEW s \in Slots, Exists(s), Served(s), running' = running
  PROVE  Served(s)'
BY DEF Served, PlacesStay

LEMMA ActivesServed ==
  ASSUME PortInv, ServedInv, PlacesStay, ShownCome, running' = running
  PROVE  ActiveIsServed'
<1> SUFFICES ASSUME NEW s \in Slots, ep'[s].status = "active"
             PROVE  Served(s)'
  BY DEF ActiveIsServed
<1>1. CASE ep[s].status = "active"
  BY <1>1, ServedStays DEF ServedInv, ActiveIsServed, Exists
<1>2. CASE \E r \in Replicas : rec[r].step = "settling" /\ \E u \in rec[r].plan : u.slot = s /\ u.status = "active"
  BY <1>2, ServedStays DEF ServedInv, PlannedAreServed, PortInv, RowsInv, ReferencesExist, RecExists
<1> QED BY <1>1, <1>2 DEF ShownCome, Shown

\* A step of the users, who leave reconciliations alone.
LEMMA UsersKeepServed ==
  ASSUME PortInv, Undisturbed, ServedInv, UserStep \/ UNCHANGED vars
  PROVE  ServedInv'
<1>1. PlacesStay /\ ShownCome /\ transfer'.step = "idle" /\ UNCHANGED <<rec, file, running>>
  BY UsersServed DEF ServedInv, vars, PlacesStay, ShownCome
<1>t. \A r \in Replicas : rec[r].routable \subseteq Snapped /\ rec[r].plan \subseteq Update /\ RecExists(r)
  BY DEF PortInv, RowsInv, TypeOK, ReferencesExist
<1>2. ListedAsIs'
  BY <1>1, <1>t DEF ServedInv, ListedAsIs, PlacesStay, Snapped, RecExists
<1>3. ShownAreListed'
  BY <1>1 DEF ServedInv, ShownAreListed, ShownCome, Undisturbed
<1>4. FileIsAhead'
  BY <1>1 DEF ServedInv, FileIsAhead, FileIsServed, Content
<1>5. PlannedAreServed'
  BY <1>1, <1>t, ServedStays DEF ServedInv, PlannedAreServed, Update, RecExists
<1>6. ActiveIsServed'
  BY <1>1, ActivesServed
<1> QED BY <1>1, <1>2, <1>3, <1>4, <1>5, <1>6 DEF ServedInv

\* What a reconciliation plans to call active, it planned from a route that runs.
LEMMA ActivesPlanned ==
  ASSUME PortInv, ServedInv, NEW r \in Replicas, NEW read \in BOOLEAN, NEW up \in SUBSET Ports,
         Plan(r, read, up), NEW u \in rec'[r].plan, u.status = "active"
  PROVE  Served(u.slot)
<1>1. rec[r].step = "applied" /\ rec[r] \in RecType /\ rec \in [Replicas -> RecType]
  BY DEF Plan, PortInv, RowsInv, TypeOK, RecType
<1>2. rec'[r].plan = ReportedPlan(r, read, up)
  BY <1>1 DEF Plan, ReportedPlan, RecType
<1>3. u \notin Retired(r)
  BY DEF Retired, Transition
<1>4. PICK x \in rec[r].routable : u \in Settled(x, read, {c.port : c \in running}, up)
  BY <1>2, <1>3 DEF ReportedPlan
<1>5. u.slot = x.slot /\ x.row.port \in {c.port : c \in running}
  BY <1>4 DEF Settled, Transition
<1>6. running = Content(r)
  BY <1>1 DEF ServedInv, FileIsAhead
<1>7. Listed(x) \in running
  BY <1>4, <1>6 DEF Content
<1>8. x.row.port = ep[x.slot].port /\ x.row.host = ep[x.slot].host
  BY <1>1, <1>4 DEF ServedInv, ListedAsIs
<1> QED BY <1>5, <1>7, <1>8 DEF Served, Listed

\* A reload brings everything that is active or in error to the gateway.
LEMMA ReloadServes ==
  ASSUME ServedInv, NEW r \in Replicas, Reload(r), NEW s \in Slots, ep[s].status \in Shown
  PROVE  ep' = ep /\ \E c \in running' : c.port = ep[s].port /\ c.host = ep[s].host
<1>1. rec[r].step = "written" /\ running' = file /\ ep' = ep
  BY DEF Reload
<1>2. PICK x \in rec[r].routable : x.slot = s
  BY <1>1 DEF ServedInv, ShownAreListed
<1>3. Listed(x) \in running'
  BY <1>1 DEF ServedInv, FileIsAhead, Content
<1>4. x.row.port = ep[s].port /\ x.row.host = ep[s].host
  BY <1>1, <1>2 DEF ServedInv, ListedAsIs
<1> QED BY <1>1, <1>3, <1>4 DEF Listed

LEMMA ReconcilesKeepServed ==
  ASSUME PortInv, Undisturbed, ServedInv, NEW r \in Replicas,
         Reconcile(r) \/ \E loaded \in BOOLEAN : ReloadFails(r, loaded)
  PROVE  ServedInv'
<1>1. PlacesStay /\ ShownCome /\ transfer'.step = "idle"
  BY ReconcilesServed DEF ServedInv
<1>t. /\ rec \in [Replicas -> RecType] /\ ep \in [Slots -> Endpoint] /\ RecExists(r)
      /\ rec[r].routable \subseteq Snapped /\ rec[r].plan \subseteq Update
  BY DEF PortInv, RowsInv, TypeOK, ReferencesExist, RecType
<1>o. \A q \in Replicas : q = r
  BY DEF Undisturbed
<1>2. CASE ListRoutable(r)
  <2>1. /\ rec[r].step = "idle"
        /\ rec'[r].step = "routable" /\ rec'[r].routable = Snapshot(Routable)
        /\ UNCHANGED <<ep, file, running>>
    BY <1>2, <1>t DEF ListRoutable, RecType
  <2>2. \A x \in Snapshot(Routable) : x.row = ep[x.slot]
    BY DEF Snapshot
  <2>3. \A s \in Slots : ep[s].status \in Shown => \E x \in Snapshot(Routable) : x.slot = s
    <3> SUFFICES ASSUME NEW s \in Slots, ep[s].status \in Shown
                 PROVE  \E x \in Snapshot(Routable) : x.slot = s
      OBVIOUS
    <3>1. [slot |-> s, row |-> ep[s]] \in Snapshot(Routable)
      BY DEF Snapshot, Routable, Shown
    <3> QED BY <3>1
  <2>4. ListedAsIs' /\ ShownAreListed'
    BY <2>1, <2>2, <2>3, <1>o DEF ListedAsIs, ShownAreListed
  <2>5. FileIsAhead' /\ PlannedAreServed'
    BY <2>1, <1>o DEF ServedInv, FileIsAhead, FileIsServed, PlannedAreServed
  <2> QED BY <1>1, <2>1, <2>4, <2>5, ActivesServed DEF ServedInv
<1>3. CASE ListDisabling(r)
  <2>1. /\ rec[r].step = "routable"
        /\ rec'[r].step = "listed" /\ rec'[r].routable = rec[r].routable
        /\ UNCHANGED <<ep, file, running>>
    BY <1>3, <1>t DEF ListDisabling, RecType
  <2>4. ListedAsIs' /\ ShownAreListed'
    BY <2>1, <1>o DEF ServedInv, ListedAsIs, ShownAreListed
  <2>5. FileIsAhead' /\ PlannedAreServed'
    BY <2>1, <1>o DEF ServedInv, FileIsAhead, FileIsServed, PlannedAreServed
  <2> QED BY <1>1, <2>1, <2>4, <2>5, ActivesServed DEF ServedInv
<1>4. CASE Write(r)
  <2>1. /\ rec[r].step = "listed" /\ rec'[r].routable = rec[r].routable
        /\ UNCHANGED <<ep, running>>
    BY <1>4, <1>t DEF Write, RecType
  <2>2. \/ rec'[r].step = "applied" /\ file' = file /\ file = Content(r)
        \/ rec'[r].step = "written" /\ rec'[r].prev = file /\ file' = Content(r)
    BY <1>4, <1>t DEF Write, RecType
  <2>3. running = file
    BY <2>1, <1>o DEF ServedInv, FileIsAhead, FileIsServed
  <2>4. ListedAsIs' /\ ShownAreListed'
    BY <2>1, <2>2, <1>o DEF ServedInv, ListedAsIs, ShownAreListed
  <2>5. FileIsAhead' /\ PlannedAreServed'
    BY <2>1, <2>2, <2>3, <1>o DEF FileIsAhead, FileIsServed, PlannedAreServed, Content
  <2> QED BY <1>1, <2>1, <2>4, <2>5, ActivesServed DEF ServedInv
<1>5. CASE Reload(r)
  <2>1. /\ rec[r].step = "written" /\ rec'[r].step = "applied" /\ rec'[r].routable = rec[r].routable
        /\ running' = file /\ UNCHANGED <<ep, file>>
    BY <1>5, <1>t DEF Reload, RecType
  <2>2. running' = Content(r)
    BY <2>1 DEF ServedInv, FileIsAhead
  <2>4. ListedAsIs' /\ ShownAreListed'
    BY <2>1, <1>o DEF ServedInv, ListedAsIs, ShownAreListed
  <2>5. FileIsAhead' /\ PlannedAreServed'
    BY <2>1, <2>2, <1>o DEF FileIsAhead, FileIsServed, PlannedAreServed, Content
  <2>6. ASSUME NEW s \in Slots, ep[s].status = "active"
        PROVE  \E c \in running' : c.port = ep[s].port /\ c.host = ep[s].host
    BY <1>5, <2>6, ReloadServes DEF Shown
  <2>7. ActiveIsServed'
    BY <2>1, <2>6 DEF ActiveIsServed, Served
  <2> QED BY <1>1, <2>4, <2>5, <2>7 DEF ServedInv
<1>6. CASE \E loaded \in BOOLEAN : ReloadFails(r, loaded)
  <2>1. /\ rec[r].step = "written" /\ rec'[r].step = "refused" /\ rec'[r].routable = rec[r].routable
        /\ file' = rec[r].prev /\ running' \in {rec[r].prev, running} /\ UNCHANGED ep
    BY <1>6, <1>t DEF ReloadFails, RecType
  <2>2. running' = running /\ file' = running
    BY <2>1 DEF ServedInv, FileIsAhead
  <2>4. ListedAsIs' /\ ShownAreListed'
    BY <2>1, <1>o DEF ServedInv, ListedAsIs, ShownAreListed
  <2>5. FileIsAhead' /\ PlannedAreServed'
    BY <2>1, <2>2, <1>o DEF FileIsAhead, FileIsServed, PlannedAreServed
  <2> QED BY <1>1, <2>2, <2>4, <2>5, ActivesServed DEF ServedInv
<1>7. CASE PlanFailure(r) \/ \E read \in BOOLEAN, up \in SUBSET Ports : Plan(r, read, up)
  <2>1. /\ rec[r].step \in {"refused", "applied"}
        /\ rec'[r].step = "settling" /\ rec'[r].routable = rec[r].routable
        /\ UNCHANGED <<ep, file, running>>
    BY <1>7, <1>t DEF PlanFailure, Plan, RecType
  <2>2. ASSUME NEW u \in rec'[r].plan, u.status = "active" PROVE Served(u.slot)
    <3>1. CASE PlanFailure(r)
      <4>1. u \in FailurePlan(r)
        BY <3>1, <1>t, <2>2 DEF PlanFailure, FailurePlan, RecType
      <4> QED BY <4>1, <2>2 DEF FailurePlan, Transition
    <3>2. CASE \E read \in BOOLEAN, up \in SUBSET Ports : Plan(r, read, up)
      BY <3>2, <2>2, ActivesPlanned
    <3> QED BY <1>7, <3>1, <3>2
  <2>4. ListedAsIs' /\ ShownAreListed'
    BY <2>1, <1>o DEF ServedInv, ListedAsIs, ShownAreListed
  <2>5. FileIsAhead'
    BY <2>1, <1>o DEF ServedInv, FileIsAhead, FileIsServed
  <2>6. PlannedAreServed'
    BY <2>1, <2>2, <1>o DEF PlannedAreServed, Served
  <2> QED BY <1>1, <2>1, <2>4, <2>5, <2>6, ActivesServed DEF ServedInv
<1>8. CASE \E u \in rec[r].plan : Settle(r, u)
  <2>1. PICK u \in rec[r].plan : Settle(r, u)
    BY <1>8
  <2>2. /\ rec[r].step = "settling" /\ rec'[r].step = "settling" /\ rec'[r].routable = rec[r].routable
        /\ rec'[r].plan \subseteq rec[r].plan /\ UNCHANGED <<file, running>>
    BY <2>1, <1>t DEF Settle, RecType
  <2>4. ListedAsIs'
    <3> SUFFICES ASSUME NEW x \in rec[r].routable
                 PROVE  x.row.port = ep'[x.slot].port /\ x.row.host = ep'[x.slot].host
      BY <2>2, <1>o DEF ListedAsIs
    <3>1. x.slot \in Slots /\ Exists(x.slot)
      BY <1>t DEF RecExists, Snapped
    <3>2. x.row.port = ep[x.slot].port /\ x.row.host = ep[x.slot].host
      BY <2>2 DEF ServedInv, ListedAsIs
    <3> QED BY <1>1, <3>1, <3>2 DEF PlacesStay
  <2>5. ShownAreListed' /\ FileIsAhead'
    BY <2>2, <1>o DEF ServedInv, ShownAreListed, FileIsAhead, FileIsServed
  <2>6. PlannedAreServed'
    <3> SUFFICES ASSUME NEW v \in rec[r].plan, v.status = "active"
                 PROVE  Served(v.slot)'
      BY <2>2, <1>o DEF PlannedAreServed
    <3>1. v.slot \in Slots /\ Exists(v.slot)
      BY <1>t DEF RecExists, Update
    <3>2. Served(v.slot)
      BY <2>2 DEF ServedInv, PlannedAreServed
    <3> QED BY <1>1, <2>2, <3>1, <3>2, ServedStays
  <2> QED BY <1>1, <2>2, <2>4, <2>5, <2>6, ActivesServed DEF ServedInv
<1>9. CASE Finish(r)
  <2>1. rec[r].step = "settling" /\ rec'[r].step = "idle" /\ UNCHANGED <<ep, file, running>>
    BY <1>9, <1>t DEF Finish, Idle
  <2>4. ListedAsIs' /\ ShownAreListed'
    BY <2>1, <1>o DEF ListedAsIs, ShownAreListed
  <2>5. FileIsAhead' /\ PlannedAreServed'
    BY <2>1, <1>o DEF ServedInv, FileIsAhead, FileIsServed, PlannedAreServed
  <2> QED BY <1>1, <2>1, <2>4, <2>5, ActivesServed DEF ServedInv
<1> QED BY <1>2, <1>3, <1>4, <1>5, <1>6, <1>7, <1>8, <1>9 DEF Reconcile

LEMMA NextServed ==
  ASSUME PortInv, Undisturbed, ServedInv, [Next]_vars
  PROVE  ServedInv' /\ KeepsListeners
<1>1. ~(\E r \in Replicas : Crash(r)) /\ ~GatewayRestart
  BY DEF Undisturbed, Crash, GatewayRestart
<1>2. PlacesStay /\ running' = running => KeepsListeners
  BY ServedStays DEF KeepsListeners, Exists
<1>3. CASE UserStep
  <2>1. PlacesStay /\ running' = running
    BY <1>3, UsersServed DEF ServedInv
  <2> QED BY <1>2, <1>3, <2>1, UsersKeepServed
<1>4. CASE UNCHANGED vars
  <2>1. PlacesStay /\ running' = running
    BY <1>4 DEF vars, PlacesStay
  <2> QED BY <1>2, <1>4, <2>1, UsersKeepServed
<1>5. CASE \E r \in Replicas : Reconcile(r) \/ \E loaded \in BOOLEAN : ReloadFails(r, loaded)
  <2>1. PICK r \in Replicas : Reconcile(r) \/ \E loaded \in BOOLEAN : ReloadFails(r, loaded)
    BY <1>5
  <2>2. ServedInv'
    BY <2>1, ReconcilesKeepServed
  <2>3. CASE Reload(r)
    BY <2>2, <2>3, ReloadServes DEF KeepsListeners, Served, Shown
  <2>4. CASE ~Reload(r)
    <3>1. PlacesStay
      BY <2>1, ReconcilesServed
    <3>2. CASE \E loaded \in BOOLEAN : ReloadFails(r, loaded)
      <4>1. rec[r].step = "written" /\ running' \in {rec[r].prev, running}
        BY <3>2 DEF ReloadFails
      <4>2. running' = running
        BY <4>1 DEF ServedInv, FileIsAhead
      <4> QED BY <1>2, <2>2, <3>1, <4>2
    <3>3. CASE Reconcile(r)
      <4>1. running' = running
        BY <2>4, <3>3 DEF Reconcile, ListRoutable, ListDisabling, Write, PlanFailure, Plan, Settle, Finish
      <4> QED BY <1>2, <2>2, <3>1, <4>1
    <3> QED BY <2>1, <3>2, <3>3
  <2> QED BY <2>3, <2>4
<1> QED BY <1>1, <1>3, <1>4, <1>5 DEF Next, UserStep

\* With one replica, while no database moves, no process dies and the gateway
\* is not restarted: the file on disk is what HAProxy serves whenever no reload
\* is under way, a row that shows active is in the configuration that is
\* served, with its port and its server, and one in error keeps its listener;
\* whatever users enable, disable, edit and delete meanwhile, and however many
\* reloads fail.
THEOREM ShownIsServed ==
  Undisturbed => (Spec => [](FileIsServed /\ ActiveIsServed) /\ ListenerKept)
<1>1. Init => ServedInv
  BY DEF Init, ServedInv, Quiet, Idle, NoEndpoint, ListedAsIs, ShownAreListed, FileIsAhead,
     FileIsServed, PlannedAreServed, ActiveIsServed, Shown
<1>2. ServedInv => FileIsServed /\ ActiveIsServed
  BY DEF ServedInv, FileIsAhead
<1>3. Undisturbed /\ PortInv /\ ServedInv /\ [Next]_vars => ServedInv' /\ KeepsListeners
  BY NextServed
<1> SUFFICES ASSUME Undisturbed
             PROVE  Spec => [](FileIsServed /\ ActiveIsServed) /\ ListenerKept
  OBVIOUS
<1>4. PortInv /\ ServedInv /\ [Next]_vars => PortInv' /\ ServedInv' /\ KeepsListeners
  BY <1>3, NextPorts
<1> QED BY <1>1, <1>2, <1>4, InitPorts, PTL DEF Spec, ListenerKept, KeepsListeners
=============================================================================
