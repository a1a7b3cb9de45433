--------------------------- MODULE InstanceLogins ---------------------------
(***************************************************************************)
(* The logins of an external instance: its row, which says where it is and *)
(* through which bastion, and the secrets the row refers to (the admin's,  *)
(* the tunnel's and the data login's), which are stored by a service of    *)
(* their own.  A request registers or updates both, in several statements: *)
(* a secret the row does not have yet is put before the row is written,    *)
(* everything else after it.  A dial pins the key of the bastion.          *)
(*                                                                         *)
(* A secret is what it was entered for.  Abstracted: names, ports, TLS,    *)
(* the tunnel's user and method (with the bastion), the mode managed (as   *)
(* admin) and deletion.                                                    *)
(***************************************************************************)
EXTENDS Integers, Sequences, SequencesExt, FiniteSets, TLC

CONSTANTS
  Clients,      \* requests at once
  Dials,        \* connections being made at once
  Users, Hosts, Bastions,
  None,         \* no value, nothing entered
  Inputs,       \* what is entered in one update, among AllInputs
  MaxLoginTroubles   \* bound: requests that die, statements that fail

ASSUME LoginsAssumption ==
  /\ MaxLoginTroubles \in Nat
  /\ None \notin Users \cup Hosts \cup Bastions \cup {"", "new", "remove", "reset"}

Secrets == {"root", "ssh", "data"}

VARIABLES
  row,        \* the instance
  store,      \* the secrets: what each was entered for
  updates,    \* requests under way
  dialing,    \* connections being made
  loginTroubles

loginVars == <<row, store, updates, dialing, loginTroubles>>

Blank == [live |-> FALSE, host |-> None, user |-> None, bastion |-> None, pin |-> None, dataUser |-> None,
          root |-> FALSE, ssh |-> FALSE, data |-> FALSE]

\* UpdateInput: nil (None), "" or a value, by field; key: the tunnel's secret.
AllInputs == [host : Hosts \cup {None}, user : Users \cup {None, ""}, password : {None, "", "new"},
              tunnel : Bastions \cup {None, "remove", "reset"}, key : BOOLEAN,
              mode : {None, "admin", "login"}, dataUser : Users \cup {None}, dataPassword : BOOLEAN]

NoInput == [host |-> None, user |-> None, password |-> None, tunnel |-> None, key |-> FALSE,
            mode |-> None, dataUser |-> None, dataPassword |-> FALSE]

Idle == [todo |-> <<>>, put |-> {}, sets |-> <<>>, was |-> <<>>, failed |-> FALSE]

LoginsInit ==
  /\ row = Blank /\ store = [s \in Secrets |-> None]
  /\ updates = [c \in Clients |-> Idle] /\ dialing = [d \in Dials |-> None]
  /\ loginTroubles = 0

LoginTrouble == loginTroubles < MaxLoginTroubles /\ loginTroubles' = loginTroubles + 1

---------------------------------------------------------------------------
(* What an update is to do, from the row as read *)

Given(new, old) == IF new = None THEN old ELSE new

\* A plan: whether it is refused, the columns to set, and what to do to the secret.
Nothing == [bad |-> FALSE, sets |-> <<>>, secret |-> "keep"]
Bad == [Nothing EXCEPT !.bad = TRUE]
PutWhen(had) == IF had THEN "after" ELSE "before"

\* buildTunnel, planSSH
PlanSSH(r, in) ==
  CASE in.tunnel = None -> Nothing
    [] in.tunnel = "remove" ->
         IF r.bastion = None THEN Nothing
         ELSE [bad |-> FALSE, sets |-> ("bastion" :> None) @@ ("pin" :> None) @@ ("ssh" :> FALSE),
               secret |-> IF r.ssh THEN "delete" ELSE "keep"]
    [] in.tunnel = "reset" -> [Nothing EXCEPT !.bad = r.bastion = None, !.sets = "pin" :> None]
    [] in.tunnel \in Bastions ->
         LET same == r.bastion = in.tunnel
         IN  [bad |-> ~in.key /\ ~(same /\ r.ssh),
              sets |-> ("bastion" :> in.tunnel) @@ ("pin" :> IF same THEN r.pin ELSE None) @@ ("ssh" :> TRUE),
              secret |-> IF in.key THEN PutWhen(r.ssh) ELSE "keep"]

\* The path to the database changes.
Rerouted(r, in) ==
  \/ in.tunnel = "remove" /\ r.bastion # None
  \/ in.tunnel \in Bastions /\ in.tunnel # r.bastion
Moved(r, in) == in.host # None /\ in.host # r.host

\* The admin password must be entered again, or dropped with its user.
MustReenter(r, in) == (Moved(r, in) \/ Rerouted(r, in)) /\ r.root /\ in.password = None /\ in.user # ""

\* planCredentials
PlanCredentials(r, in) ==
  CASE in.user = None /\ in.password = None -> Nothing
    [] in.user = "" ->
         [bad |-> in.password = "new", sets |-> ("user" :> None) @@ ("root" :> FALSE),
          secret |-> IF r.root THEN "delete" ELSE "keep"]
    [] OTHER ->
         LET named == "user" :> Given(in.user, r.user)
         IN  CASE in.password = None -> [Nothing EXCEPT !.sets = named @@ ("root" :> r.root)]
               [] in.password = "" ->
                    [bad |-> FALSE, sets |-> named @@ ("root" :> FALSE), secret |-> IF r.root THEN "delete" ELSE "keep"]
               [] in.password = "new" ->
                    [bad |-> Given(in.user, r.user) = None, sets |-> named @@ ("root" :> TRUE), secret |-> PutWhen(r.root)]

\* planDataAccess
PlanDataAccess(r, in, elsewhere) ==
  LET mode == Given(in.mode, IF r.dataUser = None THEN "admin" ELSE "login")
      user == Given(in.dataUser, r.dataUser)
  IN  CASE mode = "admin" ->
             [bad |-> in.dataUser # None \/ in.dataPassword,
              sets |-> ("dataUser" :> None) @@ ("data" :> FALSE), secret |-> IF r.data THEN "delete" ELSE "keep"]
        [] in.dataPassword ->
             [bad |-> user = None, sets |-> ("dataUser" :> user) @@ ("data" :> TRUE), secret |-> PutWhen(r.data)]
        [] OTHER -> [Nothing EXCEPT !.bad = user = None \/ ~r.data \/ user # r.dataUser \/ elsewhere]

\* What a secret is entered for: the user and the route of the row it is entered with.
EnteredFor(s, r) ==
  [user |-> IF s = "root" THEN r.user ELSE IF s = "data" THEN r.dataUser ELSE None,
   host |-> IF s = "ssh" THEN None ELSE r.host, bastion |-> r.bastion]

Op(does, s, for) == [does |-> does, secret |-> s, for |-> for]
Write == Op("write", None, None)

Program(plan, before, after, new) ==
  LET puts == SelectSeq(before, LAMBDA s : plan[s].secret = "before")
      rest == SelectSeq(after, LAMBDA s : plan[s].secret \in {"after", "delete"})
  IN  [i \in 1..Len(puts) |-> Op("put", puts[i], EnteredFor(puts[i], new))] \o <<Write>>
      \o [i \in 1..Len(rest) |-> Op(IF plan[rest[i]].secret = "after" THEN "put" ELSE "delete", rest[i], EnteredFor(rest[i], new))]

Start(c, program, sets) ==
  updates' = [updates EXCEPT ![c] = [todo |-> program, put |-> {}, sets |-> sets, was |-> <<row, store>>, failed |-> FALSE]]

---------------------------------------------------------------------------
(* Requests *)

Free(c) == updates[c] = Idle

\* Register: all secrets first, the admin's reference in a statement of its own.
Register(c, in) ==
  /\ Free(c) /\ ~row.live /\ in.host # None /\ in.tunnel \in Bastions \cup {None} /\ in.user # "" /\ in.password # ""
  /\ in.password = "new" => in.user # None
  /\ LET ssh == PlanSSH(Blank, in)
         data == PlanDataAccess(Blank, in, FALSE)
         sets == ssh.sets @@ data.sets @@ [Blank EXCEPT !.live = TRUE, !.host = in.host, !.user = in.user]
         new == sets @@ Blank
         has == [root |-> in.password = "new", ssh |-> in.tunnel # None, data |-> "data" \in DOMAIN data.sets /\ data.sets.data]
         puts == SelectSeq(<<"root", "data", "ssh">>, LAMBDA s : has[s])
     IN  /\ ~ssh.bad /\ ~data.bad
         /\ Start(c, [i \in 1..Len(puts) |-> Op("put", puts[i], EnteredFor(puts[i], new))] \o <<Write>>
                     \o IF has.root THEN <<Op("refer", "root", None)>> ELSE <<>>, sets)
  /\ UNCHANGED <<row, store, dialing, loginTroubles>>

\* Update, as far as the first statement that writes.
Update(c, in) ==
  /\ Free(c) /\ row.live
  /\ LET plan == [root |-> PlanCredentials(row, in), ssh |-> PlanSSH(row, in),
                  data |-> PlanDataAccess(row, in, Moved(row, in) \/ Rerouted(row, in))]
         sets == plan.root.sets @@ plan.ssh.sets @@ plan.data.sets @@ ("host" :> Given(in.host, row.host))
     IN  /\ ~MustReenter(row, in)
         /\ \A s \in Secrets : ~plan[s].bad
         /\ Start(c, Program(plan, <<"root", "ssh", "data">>, <<"data", "ssh", "root">>, sets @@ row), sets)
  /\ UNCHANGED <<row, store, dialing, loginTroubles>>

Next1(c) == Head(updates[c].todo)
Ready(c, does) == updates[c].todo # <<>> /\ Next1(c).does = does

AdvanceUpdate(c) == updates' = [updates EXCEPT ![c] = IF Tail(@.todo) = <<>> /\ ~@.failed THEN Idle ELSE [@ EXCEPT !.todo = Tail(@)]]

StoreSecret(c) ==
  /\ Ready(c, "put")
  /\ store' = [store EXCEPT ![Next1(c).secret] = Next1(c).for]
  /\ updates' = [updates EXCEPT ![c] = IF Len(@.todo) = 1 THEN Idle
                                        ELSE [@ EXCEPT !.todo = Tail(@), !.put = @ \cup {Next1(c).secret}]]
  /\ UNCHANGED <<row, dialing, loginTroubles>>

\* A row that refers to a secret loses the reference with it.
DeleteSecret(c) ==
  /\ Ready(c, "delete")
  /\ store' = [store EXCEPT ![Next1(c).secret] = None]
  /\ row' = [row EXCEPT ![Next1(c).secret] = FALSE]
  /\ AdvanceUpdate(c)
  /\ UNCHANGED <<dialing, loginTroubles>>

\* The row can refer to secrets that are there, and its name be free.
Referable(sets) == \A s \in Secrets : s \in DOMAIN sets /\ sets[s] => store[s] # None

WriteRow(c) ==
  /\ Ready(c, "write") /\ Referable(updates[c].sets)
  /\ row' = updates[c].sets @@ row
  /\ AdvanceUpdate(c)
  /\ UNCHANGED <<store, dialing, loginTroubles>>

SetRootSecretRef(c) ==
  /\ Ready(c, "refer")
  /\ row' = IF store.root # None THEN [row EXCEPT !.root = TRUE] ELSE row
  /\ AdvanceUpdate(c)
  /\ UNCHANGED <<store, dialing, loginTroubles>>

\* What was put is deleted again, in the order it was put.
Compensation(c) ==
  LET put == SelectSeq(<<"root", "ssh", "data">>, LAMBDA s : s \in updates[c].put)
  IN  [i \in 1..Len(put) |-> Op("delete", put[i], None)]

\* Mutant: what was put stays.
RefuseLeaving(c) ==
  /\ Ready(c, "write")
  /\ updates' = [updates EXCEPT ![c] = [@ EXCEPT !.todo = <<>>, !.failed = TRUE]]
  /\ UNCHANGED <<row, store, dialing, loginTroubles>>

\* The row is not written: another instance has the name, or the row is gone.
RefuseUpdate(c) ==
  /\ Ready(c, "write")
  /\ updates' = [updates EXCEPT ![c] = [@ EXCEPT !.todo = Compensation(c), !.failed = TRUE]]
  /\ UNCHANGED <<row, store, dialing, loginTroubles>>

\* A refused request is answered.
AnswerUpdate(c) ==
  /\ updates[c].failed /\ updates[c].todo = <<>>
  /\ updates' = [updates EXCEPT ![c] = Idle]
  /\ UNCHANGED <<row, store, dialing, loginTroubles>>

\* A secret cannot be stored: before the row is written as a refusal; after
\* it the request ends there.
PutFails(c) ==
  /\ Ready(c, "put") /\ LoginTrouble
  /\ updates' = [updates EXCEPT ![c] = IF Write \in {updates[c].todo[i] : i \in 1..Len(updates[c].todo)}
                                        THEN [@ EXCEPT !.todo = Compensation(c), !.failed = TRUE] ELSE Idle]
  /\ UNCHANGED <<row, store, dialing>>

Dies(c) ==
  /\ ~Free(c) /\ LoginTrouble
  /\ updates' = [updates EXCEPT ![c] = Idle]
  /\ UNCHANGED <<row, store, dialing>>

---------------------------------------------------------------------------
(* Connections *)

\* Tunnel: the bastion and its key as the row has them.
Dial(d) ==
  /\ dialing[d] = None /\ row.live /\ row.bastion # None /\ row.ssh /\ row.pin = None
  /\ dialing' = [dialing EXCEPT ![d] = row.bastion]
  /\ UNCHANGED <<row, store, updates, loginTroubles>>

\* PinSSHHostKey: the key of the bastion that was dialled.
Pin(d) ==
  /\ dialing[d] # None
  /\ row' = IF row.bastion # None /\ row.pin = None THEN [row EXCEPT !.pin = dialing[d]] ELSE row
  /\ dialing' = [dialing EXCEPT ![d] = None]
  /\ UNCHANGED <<store, updates, loginTroubles>>

DialFails(d) ==
  /\ dialing[d] # None /\ dialing' = [dialing EXCEPT ![d] = None]
  /\ UNCHANGED <<row, store, updates, loginTroubles>>

---------------------------------------------------------------------------

LoginsNext ==
  \/ \E c \in Clients, in \in Inputs : Register(c, in) \/ Update(c, in)
  \/ \E c \in Clients : \/ StoreSecret(c) \/ DeleteSecret(c) \/ WriteRow(c) \/ SetRootSecretRef(c)
                        \/ RefuseUpdate(c) \/ AnswerUpdate(c) \/ PutFails(c) \/ Dies(c)
  \/ \E d \in Dials : Dial(d) \/ Pin(d) \/ DialFails(d)

LoginsSpec == LoginsInit /\ [][LoginsNext]_loginVars

---------------------------------------------------------------------------
(* Properties *)

NoUpdate == \A c \in Clients : Free(c)

\* A stored login is for the place the row names: nobody moves an instance, or
\* its tunnel, and has the old password presented at the new place.  (An
\* update that ends before it has stored a new password is LoginAfterFailure.)
LoginIsForRoute ==
  loginTroubles = 0 /\ NoUpdate /\ row.live =>
    /\ row.root => store.root.host = row.host /\ store.root.bastion = row.bastion
    /\ row.data => store.data = EnteredFor("data", row)
    /\ row.ssh => store.ssh = EnteredFor("ssh", row)

\* An update that is refused, or cannot store what the row is to refer to,
\* has changed nothing; a registration leaves no secret.
FailedChangesNothing ==
  \A c \in Clients : Cardinality(Clients) = 1 /\ updates[c].failed /\ updates[c].todo = <<>> =>
    LET before == updates[c].was
    IN  [row EXCEPT !.pin = None] = [before[1] EXCEPT !.pin = None] /\ \A s \in Secrets : row[s] => store[s] = before[2][s]

\* No secret is kept that nothing refers to, unless a request died on the way.
SecretsAreReferenced == loginTroubles = 0 /\ NoUpdate => \A s \in Secrets : store[s] # None => row[s]

\* A key is the key of the bastion.
PinIsOfBastion == row.pin # None => row.pin = row.bastion

\* "a failed update never leaves the row pointing at a deleted or replaced
\* password": also not at another request's.
FailedKeepsOthers ==
  [][\A c \in Clients : Ready(c, "delete") /\ updates[c].failed /\ updates'[c] # updates[c] =>
       \A s \in Secrets : row[s] => row'[s]]_loginVars

\* Also when a request ends in the middle.
LoginAfterFailure ==
  NoUpdate /\ row.live => (row.root => store.root.host = row.host /\ store.root.bastion = row.bastion)
=============================================================================
