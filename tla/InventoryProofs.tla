-------------------------- MODULE InventoryProofs --------------------------
(***************************************************************************)
(* Theorems about the inventory: what enrolls agents, what is shown of     *)
(* databases and of launched instances, and the tunnels and accounts that  *)
(* lead to them, for any servers, tokens, databases and credentials.       *)
(*                                                                         *)
(* That a registration token enrolls one server rests on MarkUsed, which   *)
(* succeeds once for a token: of the registrations that got past it, each  *)
(* names the server that the token's row names (Marked).                   *)
(*                                                                         *)
(* That a move loses nothing it dumped rests on its being in one place at  *)
(* a time (OneAtATime), on the source's record staying of another place    *)
(* than the target (SourceApart), and on the copy, which only the drop at  *)
(* the source could destroy unasked (Arrived, Elsewhere).                  *)
(*                                                                         *)
(* That a revoked credential stays out rests on an account having been     *)
(* made for one credential, of which nothing is made again (Made), and on  *)
(* a removal that has disabled or removed it before the row is marked      *)
(* (Disabling); a rotation at the same time changes the password only.     *)
(* That its sessions have ended, that what is active logs in and that no   *)
(* account is left over rests on who may still be at work on the account   *)
(* (Ended, Working, Left).                                                 *)
(*                                                                         *)
(* That a bastion is the one whose key was pinned rests on every dial      *)
(* wanting that key or having begun before there was one (Pinned); that a  *)
(* closed forwarder leaves nothing, on the wait group counting what is     *)
(* served (ForwardInv).                                                    *)
(*                                                                         *)
(* That the row of an instance tells what became of its container rests on *)
(* the agent having one answer to wait for (OneAnswer) and on what it did  *)
(* last being what it tells (Coherent); that a deletion leaves no          *)
(* container, on an instance being provisioned once, before anything else  *)
(* can be asked of it (ProvisionOnce), and on its row going with a removal *)
(* of the container the row knew of (RemovalsAgree, RemovedIsOut).         *)
(***************************************************************************)
EXTENDS AgentEnrollment, Databases, MCInstances, FiniteSetTheorems, TLAPS

---------------------------------------------------------------------------
(* Enrollment *)

AtMostOne(S) == \A s, t \in S : s = t

ServerRow == [status : {"none", "pending", "online", "offline", "deleted"}, token : SUBSET Bearer]
TokenRow  == [status : {"none", "unused", "expired", "used", "deleted"}, of : SUBSET Servers]
HostRow   == [env : SUBSET RegTokens, file : SUBSET Bearer, run : {"off", "waiting", "ready"}]

EnrollmentTypeOK ==
  /\ server \in [Servers -> ServerRow]
  /\ regToken \in [RegTokens -> TokenRow]
  /\ host \in [Machines -> HostRow]
  /\ calls \subseteq Call
  /\ rotating \subseteq Servers /\ beats \subseteq Servers

\* A registration names the server its token is bound to or has created.
OneServer ==
  /\ \A t \in RegTokens : AtMostOne(regToken[t].of)
  /\ \A c \in calls : AtMostOne(c.of)

\* After MarkUsed the row of the token names the server of the registration.
Registered(t, of) ==
  regToken[t].status \in {"used", "deleted"} /\ (regToken[t].status = "used" => regToken[t].of = of)

Marked == \A c \in calls : c.step \in {"issue", "answer"} => Registered(c.reg, c.of)

EnrollmentInv == EnrollmentTypeOK /\ OneServer /\ Marked /\ TokenEnrollsOnce

\* A token, once used, is not used by another registration.
TokensKeep ==
  \A t \in RegTokens :
    \/ regToken'[t] = regToken[t]
    \/ regToken[t].status \notin {"used", "deleted"}
    \/ regToken'[t].status = "deleted"

LEMMA RegisteredKeeps ==
  ASSUME TokensKeep, NEW t \in RegTokens, NEW of, Registered(t, of)
  PROVE  Registered(t, of)'
BY DEF TokensKeep, Registered

\* Agent tokens that stay where they were still name what their rows name.
LEMMA EnrolledKeeps ==
  ASSUME EnrollmentInv, TokensKeep, server' \in [Servers -> ServerRow],
         \A s \in Servers : server'[s].token \subseteq server[s].token
  PROVE  TokenEnrollsOnce'
<1> SUFFICES ASSUME NEW s \in Servers, NEW b \in server'[s].token
             PROVE  Registered(b.by, {s})'
  BY DEF TokenEnrollsOnce, Registered
<1>1. b \in server[s].token /\ b.by \in RegTokens
  BY DEF EnrollmentInv, EnrollmentTypeOK, ServerRow, Bearer
<1>2. Registered(b.by, {s})
  BY <1>1 DEF EnrollmentInv, TokenEnrollsOnce, Registered
<1> QED BY <1>1, <1>2, RegisteredKeeps

LEMMA MarkedKeeps ==
  ASSUME EnrollmentInv, TokensKeep, calls' \subseteq calls
  PROVE  Marked'
BY RegisteredKeeps DEF EnrollmentInv, EnrollmentTypeOK, Marked, Call

\* Steps that change no token's row but to bind, expire or delete it.
LEMMA RowsKeep ==
  ASSUME EnrollmentInv, NEW t \in RegTokens, NEW row \in TokenRow, AtMostOne(row.of),
         regToken' = [regToken EXCEPT ![t] = row],
         regToken[t].status \notin {"used", "deleted"} \/ row.status = "deleted",
         UNCHANGED <<server, host, calls, beats>>, rotating' \subseteq rotating
  PROVE  EnrollmentInv'
<1>1. regToken'[t] = row /\ \A u \in RegTokens \ {t} : regToken'[u] = regToken[u]
  BY DEF EnrollmentInv, EnrollmentTypeOK
<1>2. TokensKeep
  BY <1>1 DEF TokensKeep
<1>3. EnrollmentTypeOK' /\ OneServer'
  BY <1>1 DEF EnrollmentInv, EnrollmentTypeOK, OneServer, AtMostOne
<1>4. TokenEnrollsOnce'
  BY <1>2, EnrolledKeeps DEF EnrollmentInv, EnrollmentTypeOK
<1>5. Marked'
  BY <1>2, MarkedKeeps
<1> QED BY <1>3, <1>4, <1>5 DEF EnrollmentInv

\* What users do to tokens.
LEMMA TokenSteps ==
  ASSUME EnrollmentInv, NEW t \in RegTokens,
         \/ CreateToken(t) \/ ExpireToken(t) \/ RevokeToken(t)
         \/ \E s \in Servers : IssueBoundToken(s, t)
  PROVE  EnrollmentInv'
<1>1. regToken[t] \in TokenRow /\ AtMostOne(regToken[t].of)
  BY DEF EnrollmentInv, EnrollmentTypeOK, OneServer
<1>2. CASE CreateToken(t) \/ \E s \in Servers : IssueBoundToken(s, t)
  <2>1. PICK of \in SUBSET Servers :
          /\ AtMostOne(of) /\ regToken[t].status = "none"
          /\ regToken' = [regToken EXCEPT ![t] = [status |-> "unused", of |-> of]]
    BY <1>2 DEF CreateToken, IssueBoundToken, InsertToken, AtMostOne
  <2>2. [status |-> "unused", of |-> of] \in TokenRow /\ [status |-> "unused", of |-> of].of = of
    BY DEF TokenRow
  <2> QED BY <1>2, <2>1, <2>2, RowsKeep DEF CreateToken, IssueBoundToken
<1>3. CASE ExpireToken(t)
  <2> DEFINE row == [regToken[t] EXCEPT !.status = "expired"]
  <2>1. row \in TokenRow /\ row.of = regToken[t].of
    BY <1>1 DEF TokenRow
  <2>2. regToken' = [regToken EXCEPT ![t] = row] /\ regToken[t].status = "unused"
    BY <1>3 DEF ExpireToken
  <2> HIDE DEF row
  <2> QED BY <1>1, <1>3, <2>1, <2>2, RowsKeep DEF ExpireToken
<1>4. CASE RevokeToken(t)
  <2> DEFINE row == [status |-> "deleted", of |-> {}]
  <2>1. row \in TokenRow /\ row.status = "deleted" /\ AtMostOne(row.of)
    BY DEF TokenRow, AtMostOne
  <2>2. regToken' = [regToken EXCEPT ![t] = row]
    BY <1>4 DEF RevokeToken
  <2> HIDE DEF row
  <2> QED BY <1>4, <2>1, <2>2, RowsKeep DEF RevokeToken
<1> QED BY <1>2, <1>3, <1>4

\* Steps that write a server's row without giving it a token.
LEMMA ServersKeep ==
  ASSUME EnrollmentInv, server' \in [Servers -> ServerRow],
         \A s \in Servers : server'[s].token \subseteq server[s].token,
         UNCHANGED <<regToken, host>>, calls' \subseteq calls,
         rotating' \subseteq Servers, beats' \subseteq Servers
  PROVE  EnrollmentInv'
<1>1. TokensKeep
  BY DEF TokensKeep
<1> QED BY <1>1, EnrolledKeeps, MarkedKeeps DEF EnrollmentInv, EnrollmentTypeOK, OneServer

\* A row written with a status of its own and no new token.
LEMMA RowWritten ==
  ASSUME EnrollmentInv, NEW s \in Servers, NEW row \in ServerRow, row.token \subseteq server[s].token,
         server' = [server EXCEPT ![s] = row]
  PROVE  /\ server' \in [Servers -> ServerRow]
         /\ \A q \in Servers : server'[q].token \subseteq server[q].token
BY DEF EnrollmentInv, EnrollmentTypeOK

LEMMA ServerSteps ==
  ASSUME EnrollmentInv, NEW s \in Servers,
         RevokeAgentToken(s) \/ RotateAgentToken(s) \/ DeleteServer(s) \/ Heartbeat(s)
  PROVE  EnrollmentInv'
<1>1. server[s] \in ServerRow /\ rotating \subseteq Servers /\ beats \subseteq Servers
  BY DEF EnrollmentInv, EnrollmentTypeOK
<1>2. CASE server' = server
  BY <1>1, <1>2, ServersKeep DEF RevokeAgentToken, RotateAgentToken, DeleteServer, Heartbeat, EnrollmentInv,
     EnrollmentTypeOK
<1>3. CASE \E row \in ServerRow : row.token \subseteq server[s].token /\ server' = [server EXCEPT ![s] = row]
  <2>1. /\ server' \in [Servers -> ServerRow]
        /\ \A q \in Servers : server'[q].token \subseteq server[q].token
    BY <1>3, RowWritten
  <2> QED BY <1>1, <2>1, ServersKeep DEF RevokeAgentToken, RotateAgentToken, DeleteServer, Heartbeat
<1>4. CASE ClearAgentToken(s)
  <2> DEFINE row == [server[s] EXCEPT !.token = NoToken, !.status = "offline"]
  <2>1. row \in ServerRow /\ row.token = {}
    BY <1>1 DEF ServerRow, NoToken
  <2>2. server' = [server EXCEPT ![s] = row]
    BY <1>4 DEF ClearAgentToken, EnrollmentInv, EnrollmentTypeOK
  <2> HIDE DEF row
  <2> QED BY <1>3, <2>1, <2>2
<1>5. CASE DeleteServer(s)
  <2> DEFINE row == [status |-> "deleted", token |-> NoToken]
  <2>1. row \in ServerRow /\ row.token = {}
    BY DEF ServerRow, NoToken
  <2>2. server' = [server EXCEPT ![s] = row]
    BY <1>5 DEF DeleteServer
  <2> HIDE DEF row
  <2> QED BY <1>3, <2>1, <2>2
<1>6. CASE Heartbeat(s)
  <2> DEFINE row == [server[s] EXCEPT !.status = "online"]
  <2>1. row \in ServerRow /\ row.token = server[s].token
    BY <1>1 DEF ServerRow
  <2>2. server' = [server EXCEPT ![s] = row] \/ server' = server
    BY <1>6 DEF Heartbeat
  <2> HIDE DEF row
  <2> QED BY <1>2, <1>3, <2>1, <2>2
<1> QED BY <1>4, <1>5, <1>6 DEF RevokeAgentToken, RotateAgentToken

\* What agents do, and what changes nothing but a set of things to do.
LEMMA AgentKeeps ==
  ASSUME EnrollmentInv, UNCHANGED <<server, regToken>>, host' \in [Machines -> HostRow],
         calls' \subseteq calls, rotating' \subseteq Servers, beats' \subseteq Servers
  PROVE  EnrollmentInv'
<1>1. TokensKeep
  BY DEF TokensKeep
<1> QED BY <1>1, EnrolledKeeps, MarkedKeeps DEF EnrollmentInv, EnrollmentTypeOK, OneServer

\* What a refused registration does to the machine that waits for it.
LEMMA HostsKeep ==
  ASSUME EnrollmentInv, NEW h \in Machines, NEW row \in HostRow,
         host' = [host EXCEPT ![h] = row] \/ host' = host
  PROVE  host' \in [Machines -> HostRow]
BY DEF EnrollmentInv, EnrollmentTypeOK

LEMMA RefuseKeeps ==
  ASSUME EnrollmentInv, NEW c \in calls, RefuseCall(c)
  PROVE  host' \in [Machines -> HostRow] /\ calls' \subseteq calls
<1>1. c.host \in Machines /\ host[c.host] \in HostRow
  BY DEF EnrollmentInv, EnrollmentTypeOK, Call
<1>2. [host[c.host] EXCEPT !.run = "off"] \in HostRow
  BY <1>1 DEF HostRow
<1> QED BY <1>1, <1>2, HostsKeep DEF RefuseCall

LEMMA AgentStepsKeep ==
  ASSUME EnrollmentInv, NEW h \in Machines,
         \/ BootEnrolled(h) \/ Stop(h)
         \/ \E t \in RegTokens : BootRegister(h, t) \/ Install(h, t)
  PROVE  EnrollmentInv'
<1>1. host[h] \in HostRow /\ rotating \subseteq Servers /\ beats \subseteq Servers
  BY DEF EnrollmentInv, EnrollmentTypeOK
<1>2. /\ [host[h] EXCEPT !.run = "ready"] \in HostRow
      /\ [host[h] EXCEPT !.run = "off"] \in HostRow
      /\ [host[h] EXCEPT !.run = "waiting"] \in HostRow
  BY <1>1 DEF HostRow
<1>3. CASE BootEnrolled(h) \/ Stop(h)
  <2>1. host' \in [Machines -> HostRow]
    BY <1>2, <1>3, HostsKeep DEF BootEnrolled, Stop
  <2> QED BY <1>1, <1>3, <2>1, AgentKeeps DEF BootEnrolled, Stop
<1>4. CASE \E t \in RegTokens : Install(h, t)
  <2>1. PICK t \in RegTokens : Install(h, t)
    BY <1>4
  <2>2. [env |-> {t}, file |-> NoToken, run |-> "off"] \in HostRow
    BY DEF HostRow, NoToken
  <2>3. host' \in [Machines -> HostRow]
    BY <2>1, <2>2, HostsKeep DEF Install
  <2> QED BY <1>1, <2>1, <2>3, AgentKeeps DEF Install
<1>5. CASE \E t \in RegTokens : BootRegister(h, t)
  <2>1. PICK t \in RegTokens : BootRegister(h, t)
    BY <1>5
  <2> DEFINE c == [host |-> h, reg |-> t, of |-> regToken[t].of, step |-> "attach"]
  <2>2. c \in Call /\ AtMostOne(c.of) /\ c.step = "attach"
    BY DEF Call, EnrollmentInv, EnrollmentTypeOK, TokenRow, OneServer
  <2>3. /\ calls' = calls \cup {c} /\ UNCHANGED <<server, regToken, rotating, beats>>
        /\ host' \in [Machines -> HostRow]
    BY <1>2, <2>1, HostsKeep DEF BootRegister
  <2> HIDE DEF c
  <2>4. TokensKeep
    BY <2>3 DEF TokensKeep
  <2>5. TokenEnrollsOnce'
    BY <2>3, <2>4, EnrolledKeeps DEF EnrollmentInv, EnrollmentTypeOK
  <2>6. Marked'
    BY <2>2, <2>3 DEF EnrollmentInv, Marked, Registered
  <2> QED BY <2>2, <2>3, <2>5, <2>6 DEF EnrollmentInv, EnrollmentTypeOK, OneServer
<1> QED BY <1>3, <1>4, <1>5

\* A registration goes on, about a server of its own.
LEMMA Advanced ==
  ASSUME EnrollmentInv, NEW c \in calls, NEW step \in {"mark", "issue", "answer"},
         NEW of \in SUBSET Servers, AtMostOne(of), Advance(c, step, of),
         TokensKeep, step \in {"issue", "answer"} => Registered(c.reg, of)'
  PROVE  /\ calls' \subseteq Call
         /\ \A d \in calls' : AtMostOne(d.of)
         /\ Marked'
<1> DEFINE new == [c EXCEPT !.step = step, !.of = of]
<1>1. c \in Call
  BY DEF EnrollmentInv, EnrollmentTypeOK
<1>2. new \in Call /\ new.of = of /\ new.step = step /\ new.reg = c.reg
  BY <1>1 DEF Call
<1>3. calls' \subseteq calls \cup {new}
  BY DEF Advance
<1> HIDE DEF new
<1>4. ASSUME NEW d \in calls', d.step \in {"issue", "answer"} PROVE Registered(d.reg, d.of)'
  <2>1. CASE d = new
    BY <1>2, <1>4, <2>1
  <2>2. CASE d \in calls
    <3>1. Registered(d.reg, d.of) /\ d.reg \in RegTokens
      BY <1>4, <2>2 DEF EnrollmentInv, EnrollmentTypeOK, Marked, Call
    <3> QED BY <3>1, RegisteredKeeps
  <2> QED BY <1>3, <2>1, <2>2
<1>5. Marked'
  BY <1>4 DEF Marked
<1> QED BY <1>2, <1>3, <1>5 DEF EnrollmentInv, EnrollmentTypeOK, OneServer

LEMMA AttachKeeps ==
  ASSUME EnrollmentInv, NEW c \in calls, CreateServer(c) \/ FindServer(c)
  PROVE  EnrollmentInv'
<1>1. c \in Call /\ c.of \in SUBSET Servers /\ AtMostOne(c.of)
  BY DEF EnrollmentInv, EnrollmentTypeOK, OneServer, Call
<1>2. regToken' = regToken /\ UNCHANGED <<rotating, beats>> /\ TokensKeep
  BY DEF CreateServer, FindServer, TokensKeep
<1>3. CASE CreateServer(c)
  <2>1. NewServer \in Servers /\ server[NewServer] \in ServerRow
    BY <1>3 DEF CreateServer, NewServer, EnrollmentInv, EnrollmentTypeOK
  <2> DEFINE row == [server[NewServer] EXCEPT !.status = "pending"]
  <2>2. row \in ServerRow /\ row.token \subseteq server[NewServer].token
    BY <2>1 DEF ServerRow
  <2>3. server' = [server EXCEPT ![NewServer] = row]
    BY <1>3 DEF CreateServer
  <2> HIDE DEF row
  <2>4. /\ server' \in [Servers -> ServerRow]
        /\ \A q \in Servers : server'[q].token \subseteq server[q].token
    BY <2>1, <2>2, <2>3, RowWritten
  <2>5. TokenEnrollsOnce'
    BY <1>2, <2>4, EnrolledKeeps
  <2>6. {NewServer} \in SUBSET Servers /\ AtMostOne({NewServer}) /\ Advance(c, "mark", {NewServer})
    BY <1>3, <2>1 DEF CreateServer, AtMostOne
  <2>7. calls' \subseteq Call /\ (\A d \in calls' : AtMostOne(d.of)) /\ Marked'
    BY <1>2, <2>6, Advanced
  <2> QED BY <1>2, <1>3, <2>4, <2>5, <2>7
          DEF CreateServer, EnrollmentInv, EnrollmentTypeOK, OneServer
<1>4. CASE FindServer(c) /\ RefuseCall(c)
  BY <1>2, <1>4, RefuseKeeps, AgentKeeps DEF FindServer, EnrollmentInv, EnrollmentTypeOK
<1>5. CASE FindServer(c) /\ Advance(c, "mark", c.of) /\ UNCHANGED host
  <2>1. calls' \subseteq Call /\ (\A d \in calls' : AtMostOne(d.of)) /\ Marked'
    BY <1>1, <1>2, <1>5, Advanced
  <2>2. TokenEnrollsOnce'
    BY <1>2, <1>5, EnrolledKeeps DEF FindServer, EnrollmentInv, EnrollmentTypeOK
  <2> QED BY <1>2, <1>5, <2>1, <2>2 DEF FindServer, EnrollmentInv, EnrollmentTypeOK, OneServer
<1> QED BY <1>3, <1>4, <1>5 DEF FindServer

LEMMA MarkKeeps ==
  ASSUME EnrollmentInv, NEW c \in calls, MarkUsed(c)
  PROVE  EnrollmentInv'
<1>1. c.reg \in RegTokens /\ c.of \in SUBSET Servers /\ AtMostOne(c.of)
  BY DEF EnrollmentInv, EnrollmentTypeOK, OneServer, Call
<1>2. UNCHANGED <<server, rotating, beats>>
  BY DEF MarkUsed
<1>3. CASE regToken[c.reg].status \in {"unused", "expired"}
  <2> DEFINE row == [status |-> "used", of |-> c.of]
  <2>1. row \in TokenRow /\ row.status = "used" /\ row.of = c.of
    BY <1>1 DEF TokenRow
  <2>2. regToken' = [regToken EXCEPT ![c.reg] = row] /\ Advance(c, "issue", c.of) /\ UNCHANGED host
    BY <1>3 DEF MarkUsed
  <2> HIDE DEF row
  <2>3. /\ regToken'[c.reg] = row /\ \A t \in RegTokens \ {c.reg} : regToken'[t] = regToken[t]
        /\ regToken' \in [RegTokens -> TokenRow]
    BY <1>1, <2>1, <2>2 DEF EnrollmentInv, EnrollmentTypeOK
  <2>4. TokensKeep /\ Registered(c.reg, c.of)'
    BY <1>3, <2>1, <2>3 DEF TokensKeep, Registered
  <2>5. calls' \subseteq Call /\ (\A d \in calls' : AtMostOne(d.of)) /\ Marked'
    BY <1>1, <2>2, <2>4, Advanced
  <2>6. TokenEnrollsOnce'
    BY <1>2, <2>4, EnrolledKeeps DEF EnrollmentInv, EnrollmentTypeOK
  <2>7. \A t \in RegTokens : AtMostOne(regToken'[t].of)
    BY <1>1, <2>1, <2>3 DEF EnrollmentInv, OneServer
  <2> QED BY <1>2, <2>2, <2>3, <2>5, <2>6, <2>7 DEF EnrollmentInv, EnrollmentTypeOK, OneServer
<1>4. CASE regToken[c.reg].status \notin {"unused", "expired"}
  BY <1>2, <1>4, RefuseKeeps, AgentKeeps DEF MarkUsed, EnrollmentInv, EnrollmentTypeOK
<1> QED BY <1>3, <1>4

LEMMA IssueKeeps ==
  ASSUME EnrollmentInv, NEW c \in calls, SetAgentToken(c)
  PROVE  EnrollmentInv'
<1>1. /\ c.reg \in RegTokens /\ c.of \in SUBSET Servers /\ AtMostOne(c.of)
      /\ Registered(c.reg, c.of)
  BY DEF SetAgentToken, EnrollmentInv, EnrollmentTypeOK, OneServer, Marked, Call
<1>2. UNCHANGED <<regToken, rotating, beats>> /\ TokensKeep
  BY DEF SetAgentToken, TokensKeep
<1>3. PICK s \in c.of :
        IF Enrolled(s)
          THEN /\ server' = [server EXCEPT ![s] =
                     [status |-> "online", token |-> {[by |-> c.reg, of |-> s]}]]
               /\ Advance(c, "answer", c.of) /\ UNCHANGED host
          ELSE RefuseCall(c) /\ UNCHANGED server
  BY DEF SetAgentToken
<1>4. CASE Enrolled(s)
  <2> DEFINE b == [by |-> c.reg, of |-> s]
             row == [status |-> "online", token |-> {b}]
  <2>1. s \in Servers /\ c.of = {s}
    BY <1>1 DEF AtMostOne
  <2>2. b \in Bearer /\ b.by = c.reg /\ row \in ServerRow /\ row.token = {b}
    BY <1>1, <2>1 DEF Bearer, ServerRow
  <2>3. server' = [server EXCEPT ![s] = row]
    BY <1>3, <1>4
  <2> HIDE DEF b, row
  <2>4. /\ server' \in [Servers -> ServerRow]
        /\ server'[s].token = {b} /\ \A q \in Servers \ {s} : server'[q] = server[q]
    BY <2>1, <2>2, <2>3 DEF EnrollmentInv, EnrollmentTypeOK
  <2>5. TokenEnrollsOnce'
    <3> SUFFICES ASSUME NEW q \in Servers, NEW d \in server'[q].token
                 PROVE  Registered(d.by, {q})
      BY <1>2 DEF TokenEnrollsOnce, Registered
    <3>1. CASE q = s
      BY <1>1, <2>1, <2>2, <2>4, <3>1 DEF Registered
    <3>2. CASE q # s
      BY <2>4, <3>2 DEF EnrollmentInv, TokenEnrollsOnce, Registered
    <3> QED BY <3>1, <3>2
  <2>6. Registered(c.reg, c.of)'
    BY <1>1, <1>2 DEF Registered
  <2>7. calls' \subseteq Call /\ (\A d \in calls' : AtMostOne(d.of)) /\ Marked'
    BY <1>1, <1>2, <1>3, <1>4, <2>6, Advanced
  <2> QED BY <1>2, <1>3, <1>4, <2>4, <2>5, <2>7 DEF EnrollmentInv, EnrollmentTypeOK, OneServer
<1>5. CASE ~Enrolled(s)
  BY <1>2, <1>3, <1>5, RefuseKeeps, AgentKeeps DEF EnrollmentInv, EnrollmentTypeOK
<1> QED BY <1>4, <1>5

LEMMA AnswerKeeps ==
  ASSUME EnrollmentInv, NEW c \in calls, Answer(c)
  PROVE  EnrollmentInv'
<1>1. c.host \in Machines /\ c.reg \in RegTokens /\ c.of \in SUBSET Servers /\ host[c.host] \in HostRow
  BY DEF EnrollmentInv, EnrollmentTypeOK, Call
<1> DEFINE file == {[by |-> c.reg, of |-> s] : s \in c.of}
           row == [host[c.host] EXCEPT !.run = "ready", !.file = file]
<1>2. file \subseteq Bearer
  BY <1>1 DEF Bearer
<1>3. host' = [host EXCEPT ![c.host] = row] \/ host' = host
  BY <1>1 DEF Answer, EnrollmentInv, EnrollmentTypeOK
<1> HIDE DEF file
<1>4. row \in HostRow
  BY <1>1, <1>2 DEF HostRow
<1>5. host' \in [Machines -> HostRow]
  BY <1>1, <1>3, <1>4, HostsKeep
<1> QED BY <1>5, AgentKeeps DEF Answer, EnrollmentInv, EnrollmentTypeOK

LEMMA OfflineKeeps ==
  ASSUME EnrollmentInv, MarkOffline
  PROVE  EnrollmentInv'
<1>1. \A s \in Servers : [server[s] EXCEPT !.status = "offline"] \in ServerRow
                         /\ [server[s] EXCEPT !.status = "offline"].token = server[s].token
  BY DEF EnrollmentInv, EnrollmentTypeOK, ServerRow
<1>2. server' = [s \in Servers |-> IF s \in Stale THEN [server[s] EXCEPT !.status = "offline"] ELSE server[s]]
  BY DEF MarkOffline
<1>3. /\ server' \in [Servers -> ServerRow]
      /\ \A s \in Servers : server'[s].token \subseteq server[s].token
  BY <1>1, <1>2 DEF EnrollmentInv, EnrollmentTypeOK
<1> QED BY <1>3, ServersKeep DEF MarkOffline, EnrollmentInv, EnrollmentTypeOK

LEMMA NextEnrollment ==
  ASSUME EnrollmentInv, [EnrollmentNext]_enrollVars
  PROVE  EnrollmentInv'
<1>1. rotating \subseteq Servers /\ beats \subseteq Servers /\ host \in [Machines -> HostRow]
  BY DEF EnrollmentInv, EnrollmentTypeOK
<1>2. CASE \E c \in calls : CallLost(c)
  BY <1>1, <1>2, RefuseKeeps, AgentKeeps DEF CallLost
<1>3. CASE \E s \in Servers : RotationLost(s) \/ AuthenticateBeat(s)
  BY <1>1, <1>3, AgentKeeps DEF RotationLost, AuthenticateBeat
<1>4. CASE UNCHANGED enrollVars
  BY <1>1, <1>4, AgentKeeps DEF enrollVars
<1> QED BY <1>2, <1>3, <1>4, TokenSteps, ServerSteps, AgentStepsKeep, AttachKeeps, MarkKeeps, IssueKeeps,
           AnswerKeeps, OfflineKeeps DEF EnrollmentNext, UserSteps, AgentSteps, CallStep, BeatSteps

LEMMA InitEnrollment == EnrollmentInit => EnrollmentInv
BY DEF EnrollmentInit, EnrollmentInv, EnrollmentTypeOK, OneServer, AtMostOne, Marked, TokenEnrollsOnce,
       ServerRow, TokenRow, HostRow, NoToken

\* The registration handler's statements, whatever else runs between them and
\* wherever they are cut off: a registration token gives one server an agent.
THEOREM TokensEnrollOnce == EnrollmentSpec => []TokenEnrollsOnce
<1>1. EnrollmentInv => TokenEnrollsOnce
  BY DEF EnrollmentInv
<1> QED BY <1>1, InitEnrollment, NextEnrollment, PTL DEF EnrollmentSpec

\* Heartbeats, registrations and the marking of silent servers find a deleted
\* server by its status and leave it alone.
THEOREM DeletedServersStay == EnrollmentSpec => DeletedServerStays
<1>1. ASSUME EnrollmentInv, [EnrollmentNext]_enrollVars, NEW s \in Servers, server[s].status = "deleted"
      PROVE  server'[s].status = "deleted"
  <2>1. server \in [Servers -> ServerRow]
    BY <1>1 DEF EnrollmentInv, EnrollmentTypeOK
  <2>2. CASE server' = server
    BY <1>1, <2>2
  <2>3. ASSUME NEW q \in Servers, q # s, NEW row, server' = [server EXCEPT ![q] = row]
        PROVE  server'[s].status = "deleted"
    BY <1>1, <2>1, <2>3
  <2>4. ~Enrolled(s)
    BY <1>1 DEF Enrolled
  <2>5. CASE \E q \in Servers : RevokeAgentToken(q) \/ RotateAgentToken(q)
    <3>1. PICK q \in Servers : ClearAgentToken(q)
      BY <2>5 DEF RevokeAgentToken, RotateAgentToken
    <3>2. server' = [server EXCEPT ![q] = [server[q] EXCEPT !.token = NoToken, !.status = "offline"]] /\ Enrolled(q)
      BY <2>1, <3>1 DEF ClearAgentToken
    <3> QED BY <2>3, <2>4, <3>2
  <2>6. CASE \E q \in Servers : DeleteServer(q) \/ Heartbeat(q)
    BY <2>2, <2>3, <2>4, <2>6 DEF DeleteServer, Heartbeat
  <2>7. CASE \E c \in calls : CreateServer(c)
    <3>1. server[NewServer].status = "none" /\ NewServer \in Servers
      BY <2>7 DEF CreateServer, NewServer
    <3> QED BY <1>1, <2>3, <2>7, <3>1 DEF CreateServer
  <2>8. CASE \E c \in calls : SetAgentToken(c)
    <3>1. PICK c \in calls : SetAgentToken(c)
      BY <2>8
    <3>2. c.of \subseteq Servers
      BY <1>1 DEF EnrollmentInv, EnrollmentTypeOK, Call
    <3> QED BY <2>2, <2>3, <2>4, <3>1, <3>2 DEF SetAgentToken
  <2>9. CASE MarkOffline
    <3>1. s \notin Stale
      BY <1>1 DEF Stale
    <3>2. server'[s] = server[s]
      BY <2>9, <3>1 DEF MarkOffline
    <3> QED BY <1>1, <3>2
  <2> QED BY <1>1, <2>2, <2>5, <2>6, <2>7, <2>8, <2>9
          DEF EnrollmentNext, enrollVars, UserSteps, AgentSteps, CallStep, CallLost, BeatSteps, CreateToken,
              ExpireToken, RevokeToken, IssueBoundToken, Install, BootEnrolled, Stop, BootRegister, FindServer,
              MarkUsed, Answer, RotationLost, AuthenticateBeat
<1>2. EnrollmentInv /\ [EnrollmentNext]_enrollVars
        => [\A s \in Servers : server[s].status = "deleted" => server'[s].status = "deleted"]_enrollVars
  BY <1>1
<1> QED BY <1>2, InitEnrollment, NextEnrollment, PTL DEF EnrollmentSpec, DeletedServerStays

---------------------------------------------------------------------------
(* Probes *)

\* ReconcileDatabases: the record of a probe that is new is of a place from
\* which no user removed a record in the recovery window, also when the removal
\* came between the listing and the reconciling.
THEOREM RemovedNotRediscovered == DatabasesSpec => RemovedStaysRemoved
<1>1. ASSUME NEW i \in Instances, ReconcileDatabases(i),
             NEW d \in Dbs, dbRow[d].status = "none", dbRow'[d].status = "active"
      PROVE  ~RecentlyRemoved(dbRow'[d].at)
  <2> DEFINE known == [e \in Dbs |-> IF Live(e) /\ InstanceOf[dbRow[e].at] = i
                                       THEN Observed(e, listing[i].names) ELSE dbRow[e]]
  <2>1. known[d] = dbRow[d]
    BY <1>1 DEF Live
  <2>2. \/ dbRow' = known
        \/ \E p \in Undiscovered(i) :
             dbRow' = [known EXCEPT ![NewId] = [status |-> "active", at |-> p, seen |-> TRUE]]
    BY <1>1 DEF ReconcileDatabases
  <2>3. PICK p \in Undiscovered(i) :
          dbRow' = [known EXCEPT ![NewId] = [status |-> "active", at |-> p, seen |-> TRUE]]
    BY <1>1, <2>1, <2>2
  <2> HIDE DEF known
  <2>4. dbRow'[d] = [status |-> "active", at |-> p, seen |-> TRUE] \/ dbRow'[d] = known[d]
    BY <2>3 DEF known
  <2>5. dbRow'[d].at = p
    BY <1>1, <2>1, <2>4
  <2> QED BY <2>3, <2>5 DEF Undiscovered
<1>2. [DatabasesNext]_dbVars
        => [\A i \in Instances : ReconcileDatabases(i) =>
              \A d \in Dbs : dbRow[d].status = "none" /\ dbRow'[d].status = "active" =>
                ~RecentlyRemoved(dbRow'[d].at)]_dbVars
  BY <1>1
<1> QED BY <1>2, PTL DEF DatabasesSpec, RemovedStaysRemoved

---------------------------------------------------------------------------
(* Moves *)

\* One move in all, to another place than it comes from.
OneMove == MaxMoves <= 1 /\ ~InPlace

DbRow == [status : Status, at : Places \cup {NoRow.at}, seen : BOOLEAN]

DatabasesTypeOK ==
  /\ dbRow \in [Dbs -> DbRow]
  /\ there \subseteq Places
  /\ content \in [Places -> SUBSET Dbs]
  /\ errands \subseteq Errand /\ ended \subseteq Errand /\ cutting \subseteq Errand
  /\ listing \in [Instances -> [known : BOOLEAN, names : SUBSET Places]]
  /\ deleting \subseteq Dbs /\ moves \in Nat

\* Where there is no database there is nothing in it.
Vacant == \A p \in Places \ there : content[p] = {}

\* A live record is of a place.
Placed == \A d \in Dbs : Live(d) => dbRow[d].at \in Places

\* The source of a move has a record, which while it lives is of another place
\* than the move's target.
SourceApart(j) ==
  /\ dbRow[j.db].status # "none"
  /\ j.kind \in {"backup", "restore"} /\ Live(j.db) => dbRow[j.db].at # j.target
  /\ j.kind = "restore" => j.at = j.target

\* What a move dumped is at its target, or was destroyed on request.
Arrived(j) == \A x \in j.load : x \in discarded \/ x \in content[j.at]

\* It is elsewhere than where the move's last job drops.
Elsewhere(j) == \A x \in j.load : x \in discarded \/ \E p \in Places \ {j.at} : x \in content[p]

\* Jobs of moves: the dump, the restore and the drop.
OfMove(j) ==
  /\ j.kind \in {"backup", "restore"} => j.move
  /\ j.kind = "create" => ~j.move
  /\ j.move => SourceApart(j)

Queued(j)   == OfMove(j) /\ (j.kind = "drop" /\ j.move => Elsewhere(j))
Finished(j) == OfMove(j) /\ j.kind # "drop" /\ (j.kind = "restore" => Arrived(j))
Recorded(j) == OfMove(j) /\ j.kind = "restore" /\ Arrived(j)

\* The move is in one place at a time.
OneAtATime ==
  /\ \A j, k \in errands \cup ended \cup cutting : j.move /\ k.move => j = k
  /\ \A j \in errands \cup ended \cup cutting : j.move =>
       /\ ~(j \in errands /\ j \in ended) /\ ~(j \in errands /\ j \in cutting)
       /\ ~(j \in ended /\ j \in cutting)
       /\ moves # 0

MovesInv ==
  /\ DatabasesTypeOK /\ Vacant /\ Placed /\ OneAtATime
  /\ \A j \in errands : Queued(j)
  /\ \A j \in ended : Finished(j)
  /\ \A j \in cutting : Recorded(j)

\* What every step does to the records: ids are not used again, and a live
\* record keeps its place.
RecordsHold ==
  /\ dbRow' \in [Dbs -> DbRow] /\ Placed'
  /\ \A d \in Dbs : dbRow[d].status # "none" =>
       /\ dbRow'[d].status # "none"
       /\ Live(d)' => Live(d) /\ dbRow'[d].at = dbRow[d].at

\* What every step but the drop of a move does to the contents.
ContentsHold ==
  /\ there' \subseteq Places /\ content' \in [Places -> SUBSET Dbs] /\ Vacant'
  /\ discarded \subseteq discarded'
  /\ \A p \in Places : content[p] \subseteq content'[p] \cup discarded'

\* A record that is written.
LEMMA RecordWritten ==
  ASSUME DatabasesTypeOK, Placed, NEW d \in Dbs, NEW row \in DbRow,
         dbRow' = [dbRow EXCEPT ![d] = row],
         row.status \in {"none", "removed", "forgotten"} \/ row.at \in Places,
         dbRow[d].status # "none" =>
           /\ row.status # "none"
           /\ row.status \notin {"removed", "forgotten"} => Live(d) /\ row.at = dbRow[d].at
  PROVE  RecordsHold
<1>1. dbRow \in [Dbs -> DbRow]
  BY DEF DatabasesTypeOK
<1>2. dbRow' \in [Dbs -> DbRow] /\ \A e \in Dbs : dbRow'[e] = IF e = d THEN row ELSE dbRow[e]
  BY <1>1
<1> QED BY <1>2 DEF RecordsHold, Placed, Live

LEMMA StatusSet ==
  ASSUME DatabasesTypeOK, Placed, NEW d \in Dbs, NEW status \in Status \ {"none"}, SetStatus(d, status)
  PROVE  RecordsHold
<1>1. dbRow \in [Dbs -> DbRow]
  BY DEF DatabasesTypeOK
<1>2. CASE Live(d)
  <2>1. PICK row : row = [dbRow[d] EXCEPT !.status = status]
    OBVIOUS
  <2>2. row \in DbRow /\ row.status = status /\ row.at = dbRow[d].at
    BY <1>1, <2>1 DEF DbRow
  <2>3. dbRow' = [dbRow EXCEPT ![d] = row]
    BY <1>2, <2>1 DEF SetStatus
  <2> QED BY <1>2, <2>2, <2>3, RecordWritten DEF Placed
<1>3. CASE ~Live(d)
  BY <1>1, <1>3 DEF SetStatus, RecordsHold, Placed, Live
<1> QED BY <1>2, <1>3

LEMMA NewIds ==
  ASSUME Unused # {}
  PROVE  NewId \in Dbs /\ dbRow[NewId].status = "none"
BY DEF NewId, Unused

LEMMA RecordInserted ==
  ASSUME DatabasesTypeOK, Placed, Unused # {}, NEW p \in Places, NEW status \in Status \ {"none"},
         Insert(NewId, p, status)
  PROVE  RecordsHold
<1>1. NewId \in Dbs /\ dbRow[NewId].status = "none"
  BY NewIds
<1>2. PICK row : row = [status |-> status, at |-> p, seen |-> TRUE]
  OBVIOUS
<1>3. row \in DbRow /\ row.at \in Places
  BY <1>2 DEF DbRow
<1>4. dbRow' = [dbRow EXCEPT ![NewId] = row]
  BY <1>2 DEF Insert
<1> QED BY <1>1, <1>3, <1>4, RecordWritten

\* What a probe saw of a record changes its status between active and missing.
LEMMA ObservedKeeps ==
  ASSUME DatabasesTypeOK, NEW d \in Dbs, NEW seen
  PROVE  /\ Observed(d, seen) \in DbRow
         /\ Observed(d, seen).at = dbRow[d].at
         /\ Live(d) => Observed(d, seen).status \notin {"none", "removed", "forgotten"}
<1>1. dbRow[d] \in DbRow
  BY DEF DatabasesTypeOK
<1> QED BY <1>1 DEF Observed, DbRow, Status, Live

LEMMA ProbeHolds ==
  ASSUME DatabasesTypeOK, Placed, NEW i \in Instances, ReconcileDatabases(i)
  PROVE  RecordsHold
<1>1. PICK known : known = [d \in Dbs |-> IF Live(d) /\ InstanceOf[dbRow[d].at] = i
                                  THEN Observed(d, listing[i].names) ELSE dbRow[d]]
  OBVIOUS
<1>2. dbRow \in [Dbs -> DbRow] /\ listing[i].names \subseteq Places
  BY DEF DatabasesTypeOK
<1>3. \A d \in Dbs : \/ known[d] = dbRow[d]
                     \/ Live(d) /\ known[d] = Observed(d, listing[i].names)
  BY <1>1
<1>4. known \in [Dbs -> DbRow]
  BY <1>1, <1>2, ObservedKeeps
<1>5. \A d \in Dbs : \/ known[d] = dbRow[d]
                     \/ /\ Live(d) /\ known[d].at = dbRow[d].at
                        /\ known[d].status \notin {"none", "removed", "forgotten"}
  BY <1>3, ObservedKeeps
<1>6. CASE dbRow' = known
  BY <1>4, <1>5, <1>6 DEF RecordsHold, Placed, Live
<1>7. CASE /\ Unused # {}
           /\ \E p \in Undiscovered(i) : dbRow' = [known EXCEPT ![NewId] = [status |-> "active", at |-> p, seen |-> TRUE]]
  <2>1. PICK p \in Undiscovered(i) : dbRow' = [known EXCEPT ![NewId] = [status |-> "active", at |-> p, seen |-> TRUE]]
    BY <1>7
  <2>2. NewId \in Dbs /\ dbRow[NewId].status = "none" /\ p \in Places
    BY <1>2, <1>7, NewIds DEF Undiscovered
  <2>3. PICK row : row = [status |-> "active", at |-> p, seen |-> TRUE]
    OBVIOUS
  <2>4. row \in DbRow /\ row.at \in Places
    BY <2>2, <2>3 DEF DbRow, Status
  <2>5. dbRow' \in [Dbs -> DbRow] /\ \A d \in Dbs : dbRow'[d] = IF d = NewId THEN row ELSE known[d]
    BY <1>4, <2>1, <2>2, <2>3, <2>4
  <2>6. Placed'
    <3> SUFFICES ASSUME NEW d \in Dbs, Live(d)' PROVE dbRow'[d].at \in Places
      BY DEF Placed
    <3> QED BY <1>5, <2>4, <2>5 DEF Placed, Live
  <2> QED BY <1>5, <2>2, <2>5, <2>6 DEF RecordsHold, Live
<1> QED BY <1>1, <1>6, <1>7 DEF ReconcileDatabases

\* No step uses an id again or moves a live record.
LEMMA RecordsStep ==
  ASSUME DatabasesTypeOK, Placed, [DatabasesNext]_dbVars
  PROVE  RecordsHold
<1>1. CASE UNCHANGED dbRow
  BY <1>1 DEF DatabasesTypeOK, RecordsHold, Placed, Live
<1>2. CASE \E p \in Places : CreateDatabase(p)
  BY <1>2, RecordInserted DEF CreateDatabase, Status
<1>3. CASE \E d \in Dbs : LockDatabase(d) \/ UnlockDatabase(d)
  BY <1>3, StatusSet DEF LockDatabase, UnlockDatabase, Status
<1>4. CASE \E d \in Dbs : Unseen(d)
  <2>1. PICK d \in Dbs : Unseen(d)
    BY <1>4
  <2>2. PICK row : row = [dbRow[d] EXCEPT !.seen = FALSE]
    OBVIOUS
  <2>3. row \in DbRow /\ row.status = dbRow[d].status /\ row.at = dbRow[d].at
    BY <2>2 DEF DatabasesTypeOK, DbRow
  <2>4. dbRow' = [dbRow EXCEPT ![d] = row] /\ Live(d)
    BY <2>1, <2>2 DEF Unseen
  <2> QED BY <2>3, <2>4, RecordWritten DEF Placed
<1>5. CASE \E d \in Dbs : Forget(d)
  <2>1. PICK d \in Dbs : Forget(d)
    BY <1>5
  <2>2. PICK row : row = [NoRow EXCEPT !.status = "forgotten"]
    OBVIOUS
  <2>3. row \in DbRow /\ row.status = "forgotten"
    BY <2>2 DEF NoRow, DbRow, Status
  <2>4. dbRow' = [dbRow EXCEPT ![d] = row]
    BY <2>1, <2>2 DEF Forget
  <2> QED BY <2>3, <2>4, RecordWritten
<1>6. CASE \E d \in deleting : SoftDelete(d)
  <2>1. PICK d \in deleting : SoftDelete(d)
    BY <1>6
  <2>2. PICK row : row = [dbRow[d] EXCEPT !.status = "removed", !.seen = FALSE]
    OBVIOUS
  <2>3. d \in Dbs /\ row \in DbRow /\ row.status = "removed"
    BY <2>1, <2>2 DEF DatabasesTypeOK, DbRow, Status
  <2>4. dbRow' = dbRow \/ dbRow' = [dbRow EXCEPT ![d] = row]
    BY <2>1, <2>2 DEF SoftDelete
  <2> QED BY <1>1, <2>3, <2>4, RecordWritten
<1>7. CASE \E j \in errands : FailErrand(j)
  BY <1>1, <1>7, StatusSet DEF FailErrand, DatabasesTypeOK, Errand, Status
<1>8. CASE \E j \in ended : CompleteCreate(j)
  BY <1>8, StatusSet DEF CompleteCreate, DatabasesTypeOK, Errand, Status
<1>9. CASE \E j \in ended : RecordMoved(j)
  BY <1>1, <1>9, RecordInserted DEF RecordMoved, DatabasesTypeOK, Errand, Status
<1>10. CASE \E i \in Instances : ReconcileDatabases(i)
  BY <1>10, ProbeHolds
<1> QED BY <1>1, <1>2, <1>3, <1>4, <1>5, <1>6, <1>7, <1>8, <1>9, <1>10
        DEF DatabasesNext, dbVars, AppearsOutside, VanishesOutside, DeleteDatabase, StartMove, RunErrand,
            OnBackupComplete, CompletionLost, CutOver, ListDatabases, RequestDies

\* The drop that ends a move, and no other step, destroys what nobody asked to
\* destroy.
MoveDrop(j) == j \in errands /\ j.kind = "drop" /\ j.move /\ RunErrand(j)

LEMMA DropHolds ==
  ASSUME DatabasesTypeOK, Vacant, NEW j \in errands, DropDatabase(j)
  PROVE  /\ there' \subseteq Places /\ content' \in [Places -> SUBSET Dbs] /\ Vacant'
         /\ discarded \subseteq discarded'
         /\ \A p \in Places : p # j.at \/ ~j.move => content[p] \subseteq content'[p] \cup discarded'
<1>1. j.at \in Places /\ content \in [Places -> SUBSET Dbs] /\ there \subseteq Places
  BY DEF DatabasesTypeOK, Errand
<1>2. there' = there \ {j.at} /\ content' = [content EXCEPT ![j.at] = {}]
  BY DEF DropDatabase
<1>3. content' \in [Places -> SUBSET Dbs] /\ \A p \in Places : content'[p] = IF p = j.at THEN {} ELSE content[p]
  BY <1>1, <1>2
<1>4. discarded' = IF j.move THEN discarded ELSE discarded \cup content[j.at]
  BY DEF DropDatabase
<1> QED BY <1>1, <1>2, <1>3, <1>4 DEF Vacant

LEMMA ContentsStep ==
  ASSUME DatabasesTypeOK, Vacant, [DatabasesNext]_dbVars, \A j \in errands : ~MoveDrop(j)
  PROVE  ContentsHold
<1>t. content \in [Places -> SUBSET Dbs] /\ there \subseteq Places
  BY DEF DatabasesTypeOK
<1>1. CASE UNCHANGED <<there, content, discarded>>
  BY <1>1, <1>t DEF ContentsHold, Vacant
<1>2. CASE \E p \in Places : AppearsOutside(p)
  BY <1>2, <1>t DEF AppearsOutside, ContentsHold, Vacant
<1>3. CASE \E p \in Places : VanishesOutside(p)
  <2>1. PICK p \in Places : VanishesOutside(p)
    BY <1>3
  <2>2. content' = [content EXCEPT ![p] = {}] /\ there' = there \ {p} /\ discarded' = discarded \cup content[p]
    BY <2>1 DEF VanishesOutside
  <2>3. content' \in [Places -> SUBSET Dbs] /\ \A q \in Places : content'[q] = IF q = p THEN {} ELSE content[q]
    BY <1>t, <2>2
  <2> QED BY <1>t, <2>2, <2>3 DEF ContentsHold, Vacant
<1>4. ASSUME NEW j \in errands, RunErrand(j) PROVE ContentsHold
  <2>1. j \in Errand /\ j.at \in Places /\ j.db \in Dbs /\ j.load \subseteq Dbs
    BY DEF DatabasesTypeOK, Errand
  <2>2. CASE j.kind = "create"
    <3>1. MakeDatabase(j)
      BY <1>4, <2>2 DEF RunErrand
    <3>2. there' = there \cup {j.at} /\ discarded' = discarded
      BY <3>1 DEF MakeDatabase
    <3>3. content' \in [Places -> SUBSET Dbs]
          /\ \A q \in Places : content'[q] = IF q = j.at /\ q \notin there THEN {j.db} ELSE content[q]
      BY <1>t, <2>1, <3>1 DEF MakeDatabase
    <3> QED BY <1>t, <2>1, <3>2, <3>3 DEF ContentsHold, Vacant
  <2>3. CASE j.kind = "drop"
    <3>1. DropDatabase(j) /\ ~j.move
      BY <1>4, <2>3 DEF RunErrand, MoveDrop
    <3> QED BY <3>1, DropHolds DEF ContentsHold
  <2>4. CASE j.kind = "backup"
    BY <1>1, <1>4, <2>4 DEF RunErrand, DumpDatabase
  <2>5. CASE j.kind = "restore"
    <3>1. LoadDatabase(j)
      BY <1>4, <2>5 DEF RunErrand
    <3>2. there' = there \cup {j.at} /\ discarded' = discarded
      BY <3>1 DEF LoadDatabase
    <3>3. content' \in [Places -> SUBSET Dbs]
          /\ \A q \in Places : content'[q] = IF q = j.at THEN content[q] \cup j.load ELSE content[q]
      BY <1>t, <2>1, <3>1 DEF LoadDatabase
    <3> QED BY <1>t, <2>1, <3>2, <3>3 DEF ContentsHold, Vacant
  <2> QED BY <2>1, <2>2, <2>3, <2>4, <2>5 DEF Errand
<1> QED BY <1>1, <1>2, <1>3, <1>4
        DEF DatabasesNext, dbVars, CreateDatabase, LockDatabase, UnlockDatabase, Unseen, Forget, DeleteDatabase,
            StartMove, SoftDelete, FailErrand, CompleteCreate, OnBackupComplete, RecordMoved, CompletionLost,
            CutOver, ListDatabases, ReconcileDatabases, RequestDies

\* A job that is still there is as good as before.
LEMMA StaysSound ==
  ASSUME DatabasesTypeOK, RecordsHold, ContentsHold, NEW j \in Errand
  PROVE  /\ Queued(j) => Queued(j)'
         /\ Finished(j) => Finished(j)'
         /\ Recorded(j) => Recorded(j)'
<1>1. j.db \in Dbs /\ j.at \in Places
  BY DEF Errand
<1>2. SourceApart(j) => SourceApart(j)'
  BY <1>1 DEF SourceApart, RecordsHold
<1>3. Arrived(j) => Arrived(j)'
  BY <1>1 DEF Arrived, ContentsHold
<1>4. Elsewhere(j) => Elsewhere(j)'
  BY <1>1 DEF Elsewhere, ContentsHold
<1>5. OfMove(j) => OfMove(j)'
  BY <1>2 DEF OfMove
<1> QED BY <1>3, <1>4, <1>5 DEF Queued, Finished, Recorded

\* Jobs that are no move's, and what is done with them.
PlainJob(j) == j \in Errand /\ ~j.move /\ j.kind \in {"create", "drop"}

Ordinary ==
  /\ \A j \in errands' : j \in errands \/ PlainJob(j)
  /\ \A j \in ended' : j \in ended \/ (PlainJob(j) /\ j.kind = "create")
  /\ cutting' \subseteq cutting /\ moves' = moves

OtherTypes ==
  /\ errands' \subseteq Errand /\ ended' \subseteq Errand /\ cutting' \subseteq Errand
  /\ listing' \in [Instances -> [known : BOOLEAN, names : SUBSET Places]]
  /\ deleting' \subseteq Dbs /\ moves' \in Nat

LEMMA OrdinaryKeeps ==
  ASSUME MovesInv, Ordinary, OtherTypes, RecordsHold, ContentsHold
  PROVE  MovesInv'
<1>t. DatabasesTypeOK /\ errands \subseteq Errand /\ ended \subseteq Errand /\ cutting \subseteq Errand
  BY DEF MovesInv, DatabasesTypeOK
<1>1. DatabasesTypeOK' /\ Vacant' /\ Placed'
  BY DEF OtherTypes, RecordsHold, ContentsHold, DatabasesTypeOK
<1>2. OneAtATime'
  BY DEF MovesInv, OneAtATime, Ordinary, PlainJob
<1>3. \A j \in errands' : Queued(j)'
  <2>1. \A j : PlainJob(j) => Queued(j)'
    BY DEF PlainJob, Queued, OfMove
  <2> QED BY <1>t, <2>1, StaysSound DEF MovesInv, Ordinary
<1>4. \A j \in ended' : Finished(j)'
  <2>1. \A j : PlainJob(j) /\ j.kind = "create" => Finished(j)'
    BY DEF PlainJob, Finished, OfMove
  <2> QED BY <1>t, <2>1, StaysSound DEF MovesInv, Ordinary
<1>5. \A j \in cutting' : Recorded(j)'
  BY <1>t, StaysSound DEF MovesInv, Ordinary
<1> QED BY <1>1, <1>2, <1>3, <1>4, <1>5 DEF MovesInv

\* A step of the one move: nothing else of a move is there afterwards.
Follows(k) ==
  /\ \A j \in errands' : (j \in errands /\ ~j.move) \/ (j = k /\ Queued(j)')
  /\ \A j \in ended' : (j \in ended /\ ~j.move) \/ (j = k /\ Finished(j)')
  /\ \A j \in cutting' : (j \in cutting /\ ~j.move) \/ (j = k /\ Recorded(j)')
  /\ ~(k \in errands' /\ k \in ended') /\ ~(k \in errands' /\ k \in cutting')
  /\ ~(k \in ended' /\ k \in cutting')
  /\ moves' # 0

LEMMA FollowsKeeps ==
  ASSUME MovesInv, NEW k \in Errand, Follows(k), DatabasesTypeOK', Vacant', Placed'
  PROVE  MovesInv'
<1>1. OneAtATime'
  BY DEF OneAtATime, Follows
<1>2. \A j \in errands' : Queued(j)'
  BY DEF Follows, MovesInv, Queued, OfMove
<1>3. \A j \in ended' : Finished(j)'
  BY DEF Follows, MovesInv, Finished, OfMove
<1>4. \A j \in cutting' : Recorded(j)'
  BY DEF Follows, MovesInv, Recorded, OfMove
<1> QED BY <1>1, <1>2, <1>3, <1>4 DEF MovesInv

LEMMA MoveStarts ==
  ASSUME OneMove, MovesInv, NEW d \in Dbs, NEW p \in Places, NEW drop \in BOOLEAN, StartMove(d, p, drop)
  PROVE  OtherTypes /\ \E k \in Errand : Follows(k)
<1>0. PICK k : k = NewErrand("backup", d, dbRow[d].at, p, {}, TRUE, drop)
  OBVIOUS
<1>1. Live(d) /\ dbRow[d].at \in Places /\ p # dbRow[d].at
  BY DEF StartMove, OneMove, MovesInv, Placed
<1>2. k \in Errand /\ k.move /\ k.kind = "backup" /\ k.db = d /\ k.target = p
  BY <1>0, <1>1 DEF NewErrand, Errand
<1>3. /\ errands' = errands \cup {k} /\ moves' = moves + 1
      /\ UNCHANGED <<ended, cutting, listing, deleting, dbRow>>
  BY <1>0 DEF StartMove, Enqueue
<1>4. moves = 0
  BY DatabasesAssumption DEF StartMove, OneMove, MovesInv, DatabasesTypeOK
<1>5. \A j \in errands \cup ended \cup cutting : ~j.move
  BY <1>4 DEF MovesInv, OneAtATime
<1>6. Queued(k)'
  BY <1>1, <1>2, <1>3 DEF Queued, OfMove, SourceApart, Live
<1>7. OtherTypes
  BY <1>2, <1>3, <1>4 DEF MovesInv, DatabasesTypeOK, OtherTypes
<1>8. Follows(k)
  BY <1>2, <1>3, <1>4, <1>5, <1>6 DEF Follows
<1> QED BY <1>2, <1>7, <1>8

\* The move that is under way is the only one.
LEMMA TheOnlyOne ==
  ASSUME MovesInv, NEW k \in errands \cup ended \cup cutting, k.move
  PROVE  /\ \A j \in errands \cup ended \cup cutting : j = k \/ ~j.move
         /\ ~(k \in errands /\ k \in ended) /\ ~(k \in errands /\ k \in cutting)
         /\ ~(k \in ended /\ k \in cutting) /\ moves # 0
BY DEF MovesInv, OneAtATime

LEMMA MoveRuns ==
  ASSUME MovesInv, NEW j \in errands, RunErrand(j), j.kind \in {"backup", "restore"} \/ j.move
  PROVE  OtherTypes /\ \E k \in Errand : Follows(k)
<1>1. /\ j \in Errand /\ j.move /\ OfMove(j) /\ j.at \in Places
      /\ errands \subseteq Errand /\ ended \subseteq Errand
  BY DEF MovesInv, DatabasesTypeOK, Queued, OfMove, Errand
<1>2. /\ errands' = errands \ {j} /\ UNCHANGED <<dbRow, deleting, cutting, listing, moves>>
  BY DEF RunErrand
<1>3. /\ \A i \in errands \cup ended \cup cutting : i = j \/ ~i.move
      /\ j \notin ended /\ j \notin cutting /\ moves # 0
  BY <1>1, TheOnlyOne
<1>4. CASE j.kind = "backup"
  <2>0. PICK k : k = [j EXCEPT !.load = content[j.at]]
    OBVIOUS
  <2>1. content[j.at] \subseteq Dbs
    BY <1>1 DEF MovesInv, DatabasesTypeOK
  <2>2. k \in Errand /\ k.move /\ k.kind = "backup" /\ k.db = j.db /\ k.target = j.target
    BY <1>1, <1>4, <2>0, <2>1 DEF Errand
  <2>3. ended' = ended \cup {k}
    BY <1>4, <2>0 DEF RunErrand, DumpDatabase
  <2>4. Finished(k)'
    BY <1>1, <1>2, <1>4, <2>2 DEF Finished, OfMove, SourceApart, Live
  <2>5. Follows(k)
    BY <1>2, <1>3, <2>2, <2>3, <2>4 DEF Follows
  <2>6. OtherTypes
    BY <1>1, <1>2, <2>2, <2>3 DEF MovesInv, DatabasesTypeOK, OtherTypes
  <2> QED BY <2>2, <2>5, <2>6
<1>5. CASE j.kind = "restore"
  <2>1. /\ ended' = ended \cup {j} /\ discarded' = discarded
        /\ content' = [content EXCEPT ![j.at] = content[j.at] \cup j.load]
    BY <1>5 DEF RunErrand, LoadDatabase
  <2>2. j.load \subseteq content'[j.at]
    BY <1>1, <2>1 DEF MovesInv, DatabasesTypeOK
  <2>3. Finished(j)'
    BY <1>1, <1>2, <1>5, <2>2 DEF Finished, OfMove, SourceApart, Live, Arrived
  <2>4. Follows(j)
    BY <1>1, <1>2, <1>3, <2>1, <2>3 DEF Follows
  <2>5. OtherTypes
    BY <1>1, <1>2, <2>1 DEF MovesInv, DatabasesTypeOK, OtherTypes
  <2> QED BY <1>1, <2>4, <2>5
<1>6. CASE j.kind = "drop"
  <2>1. ended' = ended
    BY <1>6 DEF RunErrand, DropDatabase
  <2>2. Follows(j)
    BY <1>1, <1>2, <1>3, <2>1 DEF Follows
  <2>3. OtherTypes
    BY <1>1, <1>2, <2>1 DEF MovesInv, DatabasesTypeOK, OtherTypes
  <2> QED BY <1>1, <2>2, <2>3
<1>7. j.kind \in {"backup", "restore", "drop"}
  BY <1>1 DEF Errand, OfMove
<1> QED BY <1>4, <1>5, <1>6, <1>7

LEMMA MoveCompletes ==
  ASSUME MovesInv, RecordsHold, ContentsHold, NEW j \in ended, OnBackupComplete(j) \/ RecordMoved(j)
  PROVE  OtherTypes /\ \E k \in Errand : Follows(k)
<1>1. /\ j \in Errand /\ Finished(j) /\ DatabasesTypeOK
      /\ errands \subseteq Errand /\ ended \subseteq Errand /\ cutting \subseteq Errand
  BY DEF MovesInv, DatabasesTypeOK
<1>2. j.move /\ ended' = ended \ {j} /\ UNCHANGED <<deleting, listing, moves>>
  BY <1>1 DEF OnBackupComplete, RecordMoved, Finished, OfMove
<1>3. /\ \A i \in errands \cup ended \cup cutting : i = j \/ ~i.move
      /\ j \notin errands /\ j \notin cutting /\ moves # 0
  BY <1>2, TheOnlyOne
<1>4. CASE OnBackupComplete(j)
  <2>0. PICK k : k = NewErrand("restore", j.db, j.target, j.target, j.load, TRUE, j.drop)
    OBVIOUS
  <2>1. /\ k \in Errand /\ k.move /\ k.kind = "restore" /\ k.db = j.db
        /\ k.target = j.target /\ k.at = j.target
    BY <1>1, <2>0 DEF NewErrand, Errand
  <2>2. j.kind = "backup" /\ errands' = errands \cup {k} /\ UNCHANGED <<cutting, dbRow>>
    BY <1>4, <2>0 DEF OnBackupComplete
  <2>3. SourceApart(k)'
    BY <1>1, <1>2, <2>1, <2>2 DEF Finished, OfMove, SourceApart, Live
  <2>4. Queued(k)'
    BY <2>1, <2>3 DEF Queued, OfMove
  <2>5. Follows(k)
    BY <1>2, <1>3, <2>1, <2>2, <2>4 DEF Follows
  <2>6. OtherTypes
    BY <1>1, <1>2, <2>1, <2>2 DEF MovesInv, DatabasesTypeOK, OtherTypes
  <2> QED BY <2>1, <2>5, <2>6
<1>5. CASE RecordMoved(j)
  <2>1. j.kind = "restore" /\ cutting' = cutting \cup {j} /\ errands' = errands
    BY <1>5 DEF RecordMoved
  <2>2. Finished(j)'
    BY <1>1, StaysSound
  <2>3. Recorded(j)'
    BY <2>1, <2>2 DEF Finished, Recorded
  <2>4. Follows(j)
    BY <1>2, <1>3, <2>1, <2>3 DEF Follows
  <2>5. OtherTypes
    BY <1>1, <1>2, <2>1 DEF MovesInv, DatabasesTypeOK, OtherTypes
  <2> QED BY <1>1, <2>4, <2>5
<1> QED BY <1>4, <1>5

LEMMA MoveCutsOver ==
  ASSUME MovesInv, NEW c \in cutting, CutOver(c), c.drop /\ Live(c.db)
  PROVE  OtherTypes /\ \E k \in Errand : Follows(k)
<1>1. /\ c \in Errand /\ Recorded(c) /\ dbRow[c.db].at \in Places /\ c.at \in Places /\ c.db \in Dbs
      /\ errands \subseteq Errand /\ ended \subseteq Errand /\ cutting \subseteq Errand
  BY DEF MovesInv, DatabasesTypeOK, Errand, Placed
<1>2. c.move /\ c.at # dbRow[c.db].at /\ dbRow[c.db].status # "none"
  BY <1>1 DEF Recorded, OfMove, SourceApart
<1>3. /\ \A i \in errands \cup ended \cup cutting : i = c \/ ~i.move
      /\ c \notin errands /\ c \notin ended /\ moves # 0
  BY <1>2, TheOnlyOne
<1>k. PICK k : k = NewErrand("drop", c.db, dbRow[c.db].at, dbRow[c.db].at, c.load, TRUE, FALSE)
  OBVIOUS
<1>4. /\ k \in Errand /\ k.move /\ k.kind = "drop" /\ k.db = c.db /\ k.at = dbRow[c.db].at
      /\ k.load = c.load
  BY <1>k, <1>1 DEF NewErrand, Errand
<1>5. /\ errands' = errands \cup {k} /\ deleting' = deleting \cup {c.db} /\ cutting' = cutting \ {c}
      /\ UNCHANGED <<dbRow, content, ended, listing, discarded, moves>>
  BY <1>k DEF CutOver, BeginDelete, Enqueue
<1>6. Elsewhere(k)'
  BY <1>1, <1>2, <1>4, <1>5 DEF Recorded, Arrived, Elsewhere
<1>7. Queued(k)'
  BY <1>2, <1>4, <1>5, <1>6 DEF Queued, OfMove, SourceApart
<1>8. Follows(k)
  BY <1>2, <1>3, <1>4, <1>5, <1>7 DEF Follows
<1>9. OtherTypes
  BY <1>1, <1>4, <1>5 DEF MovesInv, DatabasesTypeOK, OtherTypes
<1> QED BY <1>4, <1>8, <1>9

\* The steps of moves.
MoveStep ==
  \/ \E d \in Dbs, p \in Places, drop \in BOOLEAN : StartMove(d, p, drop)
  \/ \E j \in errands : RunErrand(j) /\ (j.kind \in {"backup", "restore"} \/ j.move)
  \/ \E j \in ended : OnBackupComplete(j) \/ RecordMoved(j)
  \/ \E c \in cutting : CutOver(c) /\ c.drop /\ Live(c.db)

LEMMA MoveSteps ==
  ASSUME OneMove, MovesInv, RecordsHold, MoveStep,
         ContentsHold \/ \E j \in errands : MoveDrop(j)
  PROVE  OtherTypes /\ \E k \in Errand : Follows(k)
<1>1. CASE \E d \in Dbs, p \in Places, drop \in BOOLEAN : StartMove(d, p, drop)
  BY <1>1, MoveStarts
<1>2. CASE \E j \in errands : RunErrand(j) /\ (j.kind \in {"backup", "restore"} \/ j.move)
  BY <1>2, MoveRuns
<1>3. CASE \E j \in ended : OnBackupComplete(j) \/ RecordMoved(j)
  <2>1. UNCHANGED <<there, content, discarded>>
    BY <1>3 DEF OnBackupComplete, RecordMoved
  <2>2. ContentsHold
    BY <2>1 DEF MovesInv, DatabasesTypeOK, ContentsHold, Vacant
  <2> QED BY <1>3, <2>2, MoveCompletes
<1>4. CASE \E c \in cutting : CutOver(c) /\ c.drop /\ Live(c.db)
  BY <1>4, MoveCutsOver
<1> QED BY <1>1, <1>2, <1>3, <1>4 DEF MoveStep

\* A job that is enqueued without a move.
LEMMA PlainJobs ==
  ASSUME DatabasesTypeOK, Placed, NEW d \in Dbs, NEW p \in Places, NEW kind \in {"create", "drop"}
  PROVE  PlainJob(NewErrand(kind, d, p, p, {}, FALSE, FALSE))
BY DEF PlainJob, NewErrand, Errand

LEMMA OtherSteps ==
  ASSUME MovesInv, [DatabasesNext]_dbVars, ~MoveStep
  PROVE  Ordinary /\ OtherTypes
<1>t. /\ DatabasesTypeOK /\ Placed
      /\ errands \subseteq Errand /\ ended \subseteq Errand /\ cutting \subseteq Errand
      /\ listing \in [Instances -> [known : BOOLEAN, names : SUBSET Places]] /\ there \subseteq Places
      /\ deleting \subseteq Dbs /\ moves \in Nat
  BY DEF MovesInv, DatabasesTypeOK
<1>1. CASE UNCHANGED <<errands, ended, cutting, moves, listing, deleting>>
  BY <1>1, <1>t DEF Ordinary, OtherTypes
<1>2. CASE \E p \in Places : CreateDatabase(p)
  <2>1. PICK p \in Places : CreateDatabase(p)
    BY <1>2
  <2>2. PlainJob(NewErrand("create", NewId, p, p, {}, FALSE, FALSE))
    BY <1>t, <2>1, NewIds, PlainJobs DEF CreateDatabase
  <2>3. /\ errands' = errands \/ errands' = errands \cup {NewErrand("create", NewId, p, p, {}, FALSE, FALSE)}
        /\ UNCHANGED <<ended, cutting, moves, listing, deleting>>
    BY <2>1 DEF CreateDatabase, Enqueue
  <2> QED BY <1>t, <2>2, <2>3 DEF Ordinary, OtherTypes, PlainJob
<1>3. CASE \E d \in Dbs, drop \in BOOLEAN : DeleteDatabase(d, drop)
  <2>1. PICK d \in Dbs, drop \in BOOLEAN : DeleteDatabase(d, drop)
    BY <1>3
  <2>2. PlainJob(NewErrand("drop", d, dbRow[d].at, dbRow[d].at, {}, FALSE, FALSE))
    BY <1>t, <2>1, PlainJobs DEF DeleteDatabase, BeginDelete, Placed
  <2>3. /\ errands' = errands \/ errands' = errands \cup {NewErrand("drop", d, dbRow[d].at, dbRow[d].at, {}, FALSE, FALSE)}
        /\ deleting' = deleting \cup {d} /\ UNCHANGED <<ended, cutting, moves, listing>>
    BY <2>1 DEF DeleteDatabase, BeginDelete, Enqueue
  <2> QED BY <1>t, <2>2, <2>3 DEF Ordinary, OtherTypes, PlainJob
<1>4. CASE \E d \in deleting : SoftDelete(d)
  BY <1>4, <1>t DEF SoftDelete, Ordinary, OtherTypes
<1>5. CASE \E j \in errands : RunErrand(j)
  <2>1. PICK j \in errands : RunErrand(j)
    BY <1>5
  <2>2. j.kind \in {"create", "drop"} /\ ~j.move /\ PlainJob(j)
    BY <1>t, <2>1 DEF MoveStep, Errand, PlainJob
  <2>3. /\ errands' = errands \ {j} /\ UNCHANGED <<cutting, moves, listing, deleting>>
        /\ \/ j.kind = "create" /\ ended' = ended \cup {j}
           \/ ended' = ended
    BY <2>1, <2>2 DEF RunErrand, MakeDatabase, DropDatabase
  <2> QED BY <1>t, <2>2, <2>3 DEF Ordinary, OtherTypes
<1>6. CASE \E j \in errands : FailErrand(j)
  BY <1>6, <1>t DEF FailErrand, Ordinary, OtherTypes
<1>7. CASE \E j \in ended : CompleteCreate(j) \/ CompletionLost(j)
  BY <1>7, <1>t DEF CompleteCreate, CompletionLost, Ordinary, OtherTypes
<1>8. CASE \E c \in cutting : CutOver(c)
  <2>1. PICK c \in cutting : CutOver(c)
    BY <1>8
  <2>2. ~(c.drop /\ Live(c.db))
    BY <2>1 DEF MoveStep
  <2>3. cutting' = cutting \ {c} /\ UNCHANGED <<errands, ended, moves, listing, deleting>>
    BY <2>1, <2>2 DEF CutOver
  <2> QED BY <1>t, <2>3 DEF Ordinary, OtherTypes
<1>9. CASE \E i \in Instances : ListDatabases(i)
  <2>1. PICK i \in Instances : ListDatabases(i)
    BY <1>9
  <2>2. PICK seen : seen = [known |-> TRUE, names |-> {p \in there : InstanceOf[p] = i}]
    OBVIOUS
  <2>3. seen \in [known : BOOLEAN, names : SUBSET Places] /\ listing' = [listing EXCEPT ![i] = seen]
        /\ UNCHANGED <<errands, ended, cutting, moves, deleting>>
    BY <1>t, <2>1, <2>2 DEF ListDatabases
  <2> QED BY <1>t, <2>3 DEF Ordinary, OtherTypes
<1>10. CASE \E i \in Instances : ReconcileDatabases(i)
  <2>1. PICK i \in Instances : ReconcileDatabases(i)
    BY <1>10
  <2>2. listing' = [listing EXCEPT ![i] = Unlisted] /\ UNCHANGED <<errands, ended, cutting, moves, deleting>>
    BY <2>1 DEF ReconcileDatabases
  <2>3. Unlisted \in [known : BOOLEAN, names : SUBSET Places]
    BY DEF Unlisted
  <2> QED BY <1>t, <2>2, <2>3 DEF Ordinary, OtherTypes
<1>11. CASE RequestDies
  BY <1>11, <1>t DEF RequestDies, Ordinary, OtherTypes
<1> QED BY <1>1, <1>2, <1>3, <1>4, <1>5, <1>6, <1>7, <1>8, <1>9, <1>10, <1>11
        DEF DatabasesNext, dbVars, MoveStep, AppearsOutside, VanishesOutside, LockDatabase, UnlockDatabase,
            Unseen, Forget

LEMMA NextMoves ==
  ASSUME OneMove, MovesInv, [DatabasesNext]_dbVars
  PROVE  MovesInv'
<1>1. RecordsHold
  BY RecordsStep DEF MovesInv
<1>2. CASE \A j \in errands : ~MoveDrop(j)
  <2>1. ContentsHold
    BY <1>2, ContentsStep DEF MovesInv
  <2>2. CASE MoveStep
    <3>1. OtherTypes /\ \E k \in Errand : Follows(k)
      BY <1>1, <2>1, <2>2, MoveSteps
    <3>2. DatabasesTypeOK' /\ Vacant' /\ Placed'
      BY <1>1, <2>1, <3>1 DEF OtherTypes, RecordsHold, ContentsHold, DatabasesTypeOK
    <3> QED BY <3>1, <3>2, FollowsKeeps
  <2>3. CASE ~MoveStep
    BY <1>1, <2>1, <2>3, OtherSteps, OrdinaryKeeps
  <2> QED BY <2>2, <2>3
<1>3. CASE \E j \in errands : MoveDrop(j)
  <2>1. PICK j \in errands : MoveDrop(j)
    BY <1>3
  <2>2. OtherTypes /\ \E k \in Errand : Follows(k)
    BY <1>1, <1>3, <2>1, MoveSteps DEF MoveStep, MoveDrop
  <2>3. DropDatabase(j)
    BY <2>1 DEF MoveDrop, RunErrand
  <2>4. there' \subseteq Places /\ content' \in [Places -> SUBSET Dbs] /\ Vacant'
    BY <2>3, DropHolds DEF MovesInv
  <2>5. DatabasesTypeOK' /\ Placed'
    BY <1>1, <2>2, <2>4 DEF OtherTypes, RecordsHold, DatabasesTypeOK
  <2> QED BY <2>2, <2>4, <2>5, FollowsKeeps
<1> QED BY <1>2, <1>3

LEMMA InitMoves == DatabasesInit => MovesInv
<1> SUFFICES ASSUME DatabasesInit PROVE MovesInv
  OBVIOUS
<1>1. NoRow \in DbRow
  BY DEF NoRow, DbRow, Status
<1>2. NoRow.status = "none"
  BY DEF NoRow
<1>3. Unlisted \in [known : BOOLEAN, names : SUBSET Places]
  BY DEF Unlisted
<1>4. DatabasesTypeOK
  BY <1>1, <1>3 DEF DatabasesInit, DatabasesTypeOK
<1>5. Vacant /\ Placed /\ OneAtATime
  BY <1>2 DEF DatabasesInit, Vacant, Placed, OneAtATime, Live
<1> QED BY <1>4, <1>5 DEF DatabasesInit, MovesInv

\* The cutover of a move (OnRestoreComplete) leaves what the move dumped at its
\* target, unless a user or somebody outside destroyed it there: for one move
\* to another place, whatever jobs fail or are lost, whatever is created,
\* deleted, locked and discovered at the same time.
THEOREM MovedLivesOn == OneMove => (DatabasesSpec => LivesOn)
<1> SUFFICES ASSUME OneMove PROVE DatabasesSpec => LivesOn
  OBVIOUS
<1>1. MovesInv /\ [DatabasesNext]_dbVars => MovesInv'
  BY NextMoves
<1>2. ASSUME MovesInv, NEW j \in errands, j.kind = "drop", j.move, RunErrand(j)
      PROVE  (Stored \ Stored') \cap j.load \subseteq discarded
  <2>1. DropDatabase(j) /\ Elsewhere(j) /\ content \in [Places -> SUBSET Dbs]
    BY <1>2 DEF RunErrand, MovesInv, Queued, DatabasesTypeOK
  <2>2. \A p \in Places : p # j.at => content'[p] = content[p]
    BY <2>1 DEF DropDatabase
  <2>3. \A x \in j.load : x \in discarded \/ x \in Stored'
    BY <2>1, <2>2 DEF Elsewhere, Stored
  <2> QED BY <2>3
<1>3. MovesInv /\ [DatabasesNext]_dbVars =>
        [\A j \in errands : j.kind = "drop" /\ j.move /\ RunErrand(j) =>
           (Stored \ Stored') \cap j.load \subseteq discarded]_dbVars
  BY <1>2
<1> QED BY <1>1, <1>3, InitMoves, PTL DEF DatabasesSpec, LivesOn

---------------------------------------------------------------------------
(* Credentials *)

AccountRow == [login : {"none", "on", "off"}, password : Nat, grants : {"none", "some", "all"}]
CredentialRow ==
  [state : {"active", "revoked"}, user : Usernames, name : Names \cup {"none"}, expired : BOOLEAN]

\* What is left of a removal, and what a process is busy with.
Removals == {<<"remove">>, <<"terminate", "remove">>, <<"disable", "terminate", "remove">>}
AtTask == [does : {"create", "rotate", "revoke"},
         step : {"account", "grant", "secret", "row", "drop", "mark"},
         cred : Credential, user : Usernames, name : Names \cup {"none"},
         removal : Removals \cup {<<>>}, rest : SUBSET Credential]

CredentialsTypeOK ==
  /\ engine \in Engines
  /\ account \in [Usernames -> AccountRow]
  /\ owner \in [Usernames -> Credential \cup {"none", "lost"}]
  /\ rows \in [Credential -> CredentialRow \cup {NoCredential}]
  /\ proc \in [Processes -> AtTask \cup {Idle}]

\* The account is not the credential's, or does not log in any more.
Shut(c, u) == owner[u] = c => account[u].login # "on"

\* A process creates what there is no row of, and works on the account of the
\* row otherwise; it gets past the first statement of a removal, and to the
\* marking, with the account shut.
Sound(w) ==
  w # Idle =>
    /\ w.does = "create" => rows[w.cred].state = "none"
    /\ w.does # "create" => rows[w.cred].state # "none" /\ w.user = rows[w.cred].user
    /\ \A c \in w.rest : rows[c].state # "none"
    /\ w.step = "drop" => w.removal \in Removals /\ (w.removal = Removal(engine) \/ Shut(w.cred, w.user))
    /\ w.step = "mark" => w.does # "create" /\ Shut(w.cred, w.user)

Disabling == \A p \in Processes : Sound(proc[p])

OneCreator ==
  \A p, q \in Processes :
    proc[p].does = "create" /\ proc[q].does = "create" /\ proc[p].cred = proc[q].cred => p = q

\* An account is of the username its credential has, or is to have.
Made ==
  \A u \in Usernames, c \in Credential : owner[u] = c =>
    /\ rows[c].state # "none" => rows[c].user = u
    /\ \A p \in Processes : proc[p].does = "create" /\ proc[p].cred = c => proc[p].user = u

CredentialsInv == CredentialsTypeOK /\ Disabling /\ OneCreator /\ Made /\ RevokedStaysOut

\* No account comes to log in or changes hands.
AccountsShut ==
  /\ account' \in [Usernames -> AccountRow]
  /\ \A u \in Usernames : account'[u].login = "on" => account[u].login = "on"
  /\ owner' \in [Usernames -> Credential \cup {"none", "lost"}]
  /\ \A u \in Usernames : owner'[u] = owner[u] \/ owner'[u] = "lost"

LEMMA ShutKeeps ==
  ASSUME CredentialsTypeOK, AccountsShut, NEW c \in Credential, NEW u \in Usernames, Shut(c, u)
  PROVE  Shut(c, u)'
BY CredentialsAssumption DEF CredentialsAssumption, AccountsShut, Shut, CredentialsTypeOK, AccountRow

\* No row comes or goes; what comes to be revoked is shut.
RowsKept ==
  /\ rows' \in [Credential -> CredentialRow \cup {NoCredential}]
  /\ \A c \in Credential : (rows'[c].state = "none" <=> rows[c].state = "none") /\ rows'[c].user = rows[c].user
  /\ \A c \in Credential : rows'[c].state = "revoked" => rows[c].state = "revoked" \/ \A u \in Usernames : Shut(c, u)

LEMMA SoundKeeps ==
  ASSUME CredentialsTypeOK, AccountsShut, RowsKept, UNCHANGED engine,
         NEW w \in AtTask \cup {Idle}, Sound(w)
  PROVE  Sound(w)'
<1>1. CASE w # Idle
  <2>1. w.cred \in Credential /\ w.user \in Usernames /\ w.rest \subseteq Credential
    BY <1>1 DEF AtTask
  <2>2. Shut(w.cred, w.user) => Shut(w.cred, w.user)'
    BY <2>1, ShutKeeps
  <2> QED BY <1>1, <2>1, <2>2 DEF Sound, RowsKept
<1>2. CASE w = Idle
  BY <1>2 DEF Sound
<1> QED BY <1>1, <1>2

LEMMA OthersKeep ==
  ASSUME CredentialsTypeOK, Disabling, AccountsShut, RowsKept, UNCHANGED engine,
         \A q \in Processes : proc'[q] = proc[q] \/ Sound(proc[q])'
  PROVE  Disabling'
<1>1. ASSUME NEW q \in Processes, NEW v, v = proc'[q], proc'[q] = proc[q] PROVE Sound(v)'
  <2>1. v \in AtTask \cup {Idle} /\ Sound(v)
    BY <1>1 DEF CredentialsTypeOK, Disabling, Sound
  <2> QED BY <2>1, SoundKeeps
<1> QED BY <1>1 DEF Disabling, Sound

\* Processes go on with what they do, or take up what creates nothing.
LEMMA StepKeeps ==
  ASSUME CredentialsInv, AccountsShut, RowsKept, UNCHANGED engine,
         proc' \in [Processes -> AtTask \cup {Idle}],
         \A q \in Processes : proc'[q] = proc[q] \/ Sound(proc[q])',
         \A q \in Processes : proc'[q].does = "create" =>
           proc[q].does = "create" /\ proc'[q].cred = proc[q].cred /\ proc'[q].user = proc[q].user
  PROVE  CredentialsInv'
<1>1. CredentialsTypeOK'
  BY DEF CredentialsInv, CredentialsTypeOK, AccountsShut, RowsKept
<1>2. Disabling'
  BY OthersKeep DEF CredentialsInv
<1>3. OneCreator'
  BY DEF CredentialsInv, OneCreator
<1>4. \A u \in Usernames, c \in Credential : owner'[u] = c => owner[u] = c
  BY CredentialsAssumption DEF CredentialsAssumption, AccountsShut
<1>5. Made'
  BY <1>4 DEF CredentialsInv, Made, RowsKept
<1>6. RevokedStaysOut'
  BY <1>4 DEF CredentialsInv, RevokedStaysOut, AccountsShut, RowsKept, Shut
<1> QED BY <1>1, <1>2, <1>3, <1>5, <1>6 DEF CredentialsInv

LEMMA RowsStay ==
  ASSUME CredentialsTypeOK, UNCHANGED rows
  PROVE  RowsKept
BY DEF RowsKept, CredentialsTypeOK

LEMMA AccountsStay ==
  ASSUME CredentialsTypeOK, UNCHANGED <<account, owner>>
  PROVE  AccountsShut
BY DEF AccountsShut, CredentialsTypeOK

\* p goes on with the same credential.
Onward(p) ==
  /\ proc' \in [Processes -> AtTask \cup {Idle}] /\ \A q \in Processes \ {p} : proc'[q] = proc[q]
  /\ proc'[p] \in AtTask /\ proc'[p].does = proc[p].does /\ proc'[p].cred = proc[p].cred
  /\ proc'[p].user = proc[p].user /\ proc'[p].rest = proc[p].rest

LEMMA OnwardKeeps ==
  ASSUME CredentialsInv, AccountsShut, UNCHANGED <<engine, rows>>,
         NEW p \in Processes, proc[p] \in AtTask, Onward(p),
         proc'[p].step = "drop" =>
           /\ proc'[p].removal \in Removals
           /\ proc'[p].removal = Removal(engine) \/ Shut(proc[p].cred, proc[p].user)',
         proc'[p].step = "mark" => proc[p].does # "create" /\ Shut(proc[p].cred, proc[p].user)'
  PROVE  CredentialsInv'
<1>1. RowsKept
  BY RowsStay DEF CredentialsInv
<1>2. Sound(proc[p])
  BY DEF CredentialsInv, Disabling
<1>3. proc[p] # Idle /\ Removal(engine)' = Removal(engine)
  BY DEF AtTask, Idle, Removal
<1>4. Sound(proc[p])'
  BY <1>2, <1>3 DEF Sound, Onward
<1> QED BY <1>1, <1>4, StepKeeps DEF Onward

LEMMA RemovalSteps ==
  ASSUME engine \in Engines, NEW r \in Removals
  PROVE  /\ Removal(engine) \in Removals /\ Head(r) \in {"disable", "terminate", "remove"}
         /\ Head(r) \in {"disable", "terminate"} => Tail(r) \in Removals
         /\ r = Removal(engine) /\ Head(r) # "disable" => engine = "mysql" /\ Head(r) = "remove"
<1>1. CASE r = <<"remove">>
  <2>1. Head(r) = "remove"
    BY <1>1
  <2>2. r # <<"disable", "terminate", "remove">>
    BY <1>1
  <2> QED BY <2>1, <2>2 DEF Engines, Removals, Removal
<1>2. CASE r = <<"terminate", "remove">>
  <2>1. Head(r) = "terminate" /\ Tail(r) = <<"remove">>
    BY <1>2
  <2>2. r # <<"disable", "terminate", "remove">> /\ r # <<"remove">>
    BY <1>2
  <2> QED BY <2>1, <2>2 DEF Engines, Removals, Removal
<1>3. CASE r = <<"disable", "terminate", "remove">>
  <2>1. Head(r) = "disable" /\ Tail(r) = <<"terminate", "remove">>
    BY <1>3
  <2> QED BY <2>1 DEF Engines, Removals, Removal
<1> QED BY <1>1, <1>2, <1>3 DEF Removals

\* The next of a list has a row, and is not shut yet.
LEMMA GoesOnWell ==
  ASSUME CredentialsInv, AccountsShut, RowsKept, UNCHANGED engine,
         NEW p \in Processes, proc[p] \in AtTask, proc[p].does # "create", GoesOn(p)
  PROVE  CredentialsInv'
<1>1. CASE proc' = [proc EXCEPT ![p] = Idle]
  BY <1>1, StepKeeps DEF CredentialsInv, CredentialsTypeOK, Sound, Idle
<1>2. ASSUME NEW c \in proc[p].rest, NEW w,
             w = [proc[p] EXCEPT !.step = "drop", !.removal = Removal(engine),
                                 !.cred = c, !.user = rows[c].user, !.rest = @ \ {c}],
             proc' = [proc EXCEPT ![p] = w]
      PROVE  CredentialsInv'
  <2>1. Sound(proc[p]) /\ proc[p] # Idle
    BY DEF CredentialsInv, Disabling, AtTask, Idle
  <2>2. c \in Credential /\ rows[c].state # "none" /\ rows[c].user \in Usernames
    BY <2>1 DEF Sound, AtTask, CredentialsInv, CredentialsTypeOK, CredentialRow, NoCredential
  <2>3. Removal(engine) \in Removals
    BY DEF Removals, Removal
  <2>4. /\ w \in AtTask /\ w.does = proc[p].does /\ w.step = "drop" /\ w.cred = c
        /\ w.user = rows[c].user /\ w.removal = Removal(engine) /\ w.rest = proc[p].rest \ {c}
    BY <1>2, <2>2, <2>3 DEF AtTask
  <2>5. /\ proc'[p] = w /\ \A q \in Processes \ {p} : proc'[q] = proc[q]
        /\ proc' \in [Processes -> AtTask \cup {Idle}]
    BY <1>2, <2>4 DEF CredentialsInv, CredentialsTypeOK
  <2>6. /\ rows'[c].state # "none" /\ rows'[c].user = rows[c].user
        /\ \A d \in proc[p].rest \ {c} : rows'[d].state # "none"
        /\ Removal(engine)' = Removal(engine)
    BY <2>1, <2>2 DEF RowsKept, Sound, AtTask, Removal
  <2>7. Sound(proc[p])'
    BY <2>3, <2>4, <2>5, <2>6 DEF Sound
  <2> QED BY <2>4, <2>5, <2>7, StepKeeps
<1>3. PICK next \in Next1(p) : proc' = [proc EXCEPT ![p] = next]
  BY DEF GoesOn
<1>4. \/ next = Idle
      \/ \E c \in proc[p].rest :
           next = [proc[p] EXCEPT !.step = "drop", !.removal = Removal(engine),
                                  !.cred = c, !.user = rows[c].user, !.rest = @ \ {c}]
  BY <1>3, Zenon DEF Next1
<1> QED BY <1>1, <1>2, <1>3, <1>4, Zenon

LEMMA RestsWell ==
  ASSUME CredentialsInv, AccountsShut, RowsKept, UNCHANGED engine,
         NEW p \in Processes, proc' = [proc EXCEPT ![p] = Idle]
  PROVE  CredentialsInv'
<1>1. proc' \in [Processes -> AtTask \cup {Idle}] /\ proc'[p] = Idle /\ \A q \in Processes \ {p} : proc'[q] = proc[q]
  BY DEF CredentialsInv, CredentialsTypeOK
<1>2. Sound(proc[p])' /\ Idle.does # "create"
  BY <1>1 DEF Sound, Idle
<1> QED BY <1>1, <1>2, StepKeeps

LEMMA AtWork ==
  ASSUME CredentialsTypeOK, NEW p \in Processes, proc[p] # Idle
  PROVE  proc[p] \in AtTask
BY DEF CredentialsTypeOK

\* The statements of a creation and of a rotation.
LEMMA CreationSteps ==
  ASSUME CredentialsInv, NEW p \in Processes,
         Grant(p) \/ GrantFails(p) \/ PutSecret(p) \/ PutSecretFails(p) \/ InsertFails(p) \/ RotateAccount(p)
  PROVE  CredentialsInv'
<1>1. proc[p] # Idle
  BY DEF Grant, GrantFails, PutSecret, PutSecretFails, InsertFails, RotateAccount, At, Idle
<1>2. proc[p] \in AtTask /\ CredentialsTypeOK /\ Removal(engine) \in Removals
  BY <1>1, AtWork DEF CredentialsInv, Removals, Removal
<1>3. UNCHANGED <<engine, rows>>
  BY DEF Grant, GrantFails, PutSecret, PutSecretFails, InsertFails, RotateAccount
<1>4. AccountsShut
  <2>1. CASE Grant(p) \/ GrantFails(p) \/ RotateAccount(p)
    <3>1. /\ account[proc[p].user] \in AccountRow
          /\ \A v \in AccountRow : /\ Granted(v) \in AccountRow /\ Granted(v).login = v.login
                                   /\ Rotated(v, Password) \in AccountRow /\ Rotated(v, Password).login = v.login
                                   /\ \A g \in GrantedInPart(engine) : /\ [v EXCEPT !.grants = g] \in AccountRow
                                                                       /\ [v EXCEPT !.grants = g].login = v.login
      BY <1>2 DEF CredentialsTypeOK, AtTask, AccountRow, Granted, Rotated, Password, GrantedInPart
    <3>2. UNCHANGED owner /\ \/ account' = account
                             \/ \E v \in AccountRow : /\ v.login = account[proc[p].user].login
                                                      /\ account' = [account EXCEPT ![proc[p].user] = v]
      BY <2>1, <3>1 DEF Grant, GrantFails, RotateAccount
    <3> QED BY <1>2, <3>2 DEF AccountsShut, CredentialsTypeOK
  <2>2. CASE PutSecret(p) \/ PutSecretFails(p) \/ InsertFails(p)
    BY <1>2, <2>2, AccountsStay DEF PutSecret, PutSecretFails, InsertFails
  <2> QED BY <2>1, <2>2
<1>5. CASE proc' = [proc EXCEPT ![p] = Idle]
  BY <1>2, <1>3, <1>4, <1>5, RowsStay, RestsWell
<1>6. CASE \E s \in {"secret", "row"} : Step(p, s)
  <2>1. Onward(p) /\ proc'[p].step \notin {"drop", "mark"}
    BY <1>2, <1>6 DEF Step, Onward, CredentialsTypeOK, AtTask
  <2> QED BY <1>2, <1>3, <1>4, <2>1, OnwardKeeps
<1>7. CASE Undo(p)
  <2>1. Onward(p) /\ proc'[p].step = "drop" /\ proc'[p].removal = Removal(engine)
    BY <1>2, <1>7 DEF Undo, Onward, CredentialsTypeOK, AtTask
  <2> QED BY <1>2, <1>3, <1>4, <2>1, OnwardKeeps
<1> QED BY <1>5, <1>6, <1>7 DEF Grant, GrantFails, PutSecret, PutSecretFails, InsertFails, RotateAccount

\* A rotation or a revocation begins, with what has a row.
LEMMA BeginsWell ==
  ASSUME CredentialsInv, AccountsShut, UNCHANGED <<engine, rows>>,
         NEW p \in Processes, NEW w \in AtTask, proc' = [proc EXCEPT ![p] = w],
         w.does \in {"rotate", "revoke"}, w.step \in {"account", "drop"},
         rows[w.cred].state # "none", w.user = rows[w.cred].user,
         \A c \in w.rest : rows[c].state # "none",
         w.step = "drop" => w.removal = Removal(engine)
  PROVE  CredentialsInv'
<1>1. /\ proc' \in [Processes -> AtTask \cup {Idle}] /\ proc'[p] = w
      /\ \A q \in Processes \ {p} : proc'[q] = proc[q]
  BY DEF CredentialsInv, CredentialsTypeOK
<1>2. Removal(engine) \in Removals /\ Removal(engine)' = Removal(engine)
  BY DEF Removals, Removal
<1>3. Sound(proc[p])'
  BY <1>1, <1>2 DEF Sound
<1> QED BY <1>1, <1>3, RowsStay, StepKeeps DEF CredentialsInv

LEMMA Beginnings ==
  ASSUME CredentialsInv, NEW p \in Processes,
         Rotate(p) \/ Revoke(p) \/ ExpireDue(p) \/ RevokeAllForDatabase(p)
  PROVE  CredentialsInv'
<1>1. UNCHANGED <<engine, rows>> /\ AccountsShut
  BY AccountsStay DEF Rotate, Revoke, ExpireDue, RevokeAllForDatabase, RevokeListed, CredentialsInv
<1>2. \A c \in Credential : rows[c].state # "none" => rows[c].user \in Usernames
  BY DEF CredentialsInv, CredentialsTypeOK, CredentialRow, NoCredential
<1>3. Removal(engine) \in Removals
  BY DEF Removals, Removal
<1>4. ASSUME NEW c \in Credential, rows[c].state # "none", NEW rest \in SUBSET Credential,
             \A d \in rest : rows[d].state # "none", NEW w,
             \/ w = [Idle EXCEPT !.does = "rotate", !.step = "account", !.cred = c, !.user = rows[c].user] /\ rest = {}
             \/ /\ w = [Idle EXCEPT !.does = "revoke", !.step = "drop", !.removal = Removal(engine), !.cred = c,
                                    !.user = rows[c].user]
                /\ rest = {}
             \/ w = [Idle EXCEPT !.does = "revoke", !.step = "drop", !.removal = Removal(engine), !.cred = c,
                                 !.user = rows[c].user, !.rest = rest],
             proc' = [proc EXCEPT ![p] = w]
      PROVE  CredentialsInv'
  <2>1. /\ w \in AtTask /\ w.does \in {"rotate", "revoke"} /\ w.step \in {"account", "drop"} /\ w.cred = c
        /\ w.user = rows[c].user /\ w.rest = rest
        /\ w.step = "drop" => w.removal = Removal(engine)
    BY <1>2, <1>3, <1>4 DEF Idle, AtTask
  <2> QED BY <1>1, <1>4, <2>1, BeginsWell
<1>5. CASE Rotate(p)
  <2>1. PICK c \in Credential :
          /\ Active(c)
          /\ proc' = [proc EXCEPT ![p] = [Idle EXCEPT !.does = "rotate", !.step = "account", !.cred = c, !.user = rows[c].user]]
    BY <1>5 DEF Rotate
  <2> QED BY <1>4, <2>1 DEF Active
<1>6. CASE Revoke(p)
  <2>1. PICK c \in Credential :
          /\ rows[c].state # "none"
          /\ proc' = [proc EXCEPT ![p] = [Idle EXCEPT !.does = "revoke", !.step = "drop", !.removal = Removal(engine),
                                                      !.cred = c, !.user = rows[c].user]]
    BY <1>6 DEF Revoke
  <2> QED BY <1>4, <2>1
<1>7. ASSUME NEW list \in SUBSET Credential, \A d \in list : Active(d), RevokeListed(p, list)
      PROVE  CredentialsInv'
  <2>1. PICK c \in list :
          proc' = [proc EXCEPT ![p] = [Idle EXCEPT !.does = "revoke", !.step = "drop", !.removal = Removal(engine),
                                                   !.cred = c, !.user = rows[c].user, !.rest = list \ {c}]]
    BY <1>7 DEF RevokeListed
  <2>2. \A d \in list : rows[d].state # "none"
    BY <1>7 DEF Active
  <2>3. list \ {c} \in SUBSET Credential /\ c \in Credential
    OBVIOUS
  <2> QED BY <1>4, <2>1, <2>2, <2>3
<1> QED BY <1>5, <1>6, <1>7 DEF ExpireDue, RevokeAllForDatabase

\* Past its first statement a removal has shut the account.
LEMMA Removing ==
  ASSUME CredentialsInv, NEW p \in Processes, Disable(p) \/ Terminate(p) \/ RemoveAccount(p)
  PROVE  CredentialsInv'
<1>1. proc[p].step = "drop" /\ proc[p] # Idle
  BY DEF Disable, Terminate, RemoveAccount, Idle
<1>2. proc[p] \in AtTask /\ CredentialsTypeOK /\ Sound(proc[p])
  BY <1>1, AtWork DEF CredentialsInv, Disabling
<1>3. /\ proc[p].removal \in Removals /\ engine \in Engines
      /\ proc[p].removal = Removal(engine) \/ Shut(proc[p].cred, proc[p].user)
      /\ proc[p].cred \in Credential /\ proc[p].user \in Usernames
  BY <1>1, <1>2 DEF Sound, CredentialsTypeOK, AtTask
<1>4. UNCHANGED <<engine, rows, owner>>
  BY DEF Disable, Terminate, RemoveAccount
<1>5. RowsKept
  BY <1>2, <1>4, RowsStay
<1>6. CASE Disable(p)
  <2>1. \A v \in AccountRow : Disabled(v) \in AccountRow /\ Disabled(v).login # "on"
    BY DEF Disabled, Exists, AccountRow
  <2>2. AccountsShut /\ account'[proc[p].user].login # "on"
    BY <1>2, <1>3, <1>4, <1>6, <2>1 DEF Disable, AccountsShut, CredentialsTypeOK
  <2>3. \E r \in Removals : proc' = [proc EXCEPT ![p].removal = r]
    <3>1. Tail(proc[p].removal) \in Removals /\ <<"remove">> \in Removals
      BY <1>3, <1>6, RemovalSteps DEF Disable, Removals
    <3> QED BY <1>6, <3>1 DEF Disable
  <2>4. Onward(p) /\ proc'[p].step = "drop" /\ proc'[p].removal \in Removals
    BY <1>1, <1>2, <2>3 DEF Onward, CredentialsTypeOK, AtTask
  <2>5. Shut(proc[p].cred, proc[p].user)'
    BY <2>2, <2>4 DEF Shut, Onward
  <2> QED BY <1>2, <1>4, <2>2, <2>4, <2>5, OnwardKeeps
<1>7. CASE Terminate(p)
  <2>1. AccountsShut
    BY <1>2, <1>4, <1>7, AccountsStay DEF Terminate
  <2>2. Tail(proc[p].removal) \in Removals /\ proc[p].removal # Removal(engine)
    BY <1>3, <1>7, RemovalSteps DEF Terminate
  <2>3. Onward(p) /\ proc'[p].step = "drop" /\ proc'[p].removal \in Removals
    BY <1>1, <1>2, <1>7, <2>2 DEF Terminate, Onward, CredentialsTypeOK, AtTask
  <2>4. Shut(proc[p].cred, proc[p].user)'
    BY <1>3, <1>4, <1>7, <2>2, <2>3 DEF Terminate, Shut, Onward
  <2> QED BY <1>2, <1>4, <2>1, <2>3, <2>4, OnwardKeeps
<1>8. CASE RemoveAccount(p)
  <2>1. \A v \in AccountRow : /\ Removed(engine, v) \in AccountRow
                              /\ Removed(engine, v).login \in {v.login, "none"}
                              /\ engine = "mysql" => Removed(engine, v).login = "none"
    BY DEF Removed, NoAccount, AccountRow
  <2>2. AccountsShut /\ account'[proc[p].user] = Removed(engine, account[proc[p].user])
    BY <1>2, <1>3, <1>4, <1>8, <2>1 DEF RemoveAccount, AccountsShut, CredentialsTypeOK
  <2>3. Shut(proc[p].cred, proc[p].user) \/ engine = "mysql"
    BY <1>3, <1>8, RemovalSteps DEF RemoveAccount
  <2>4. owner'[proc[p].user] = proc[p].cred => account'[proc[p].user].login # "on"
    BY <1>2, <1>3, <1>4, <2>1, <2>2, <2>3 DEF Shut, CredentialsTypeOK
  <2>5. CASE proc' = [proc EXCEPT ![p] = Idle]
    BY <1>4, <1>5, <2>2, <2>5, RestsWell
  <2>6. CASE proc[p].does # "create" /\ Step(p, "mark")
    <3>1. Onward(p) /\ proc'[p].step = "mark"
      BY <1>2, <2>6 DEF Step, Onward, CredentialsTypeOK, AtTask
    <3>2. Shut(proc[p].cred, proc[p].user)'
      BY <2>4, <3>1 DEF Shut, Onward
    <3> QED BY <1>2, <1>4, <2>2, <2>6, <3>1, <3>2, OnwardKeeps
  <2> QED BY <1>8, <2>5, <2>6 DEF RemoveAccount, Dropped1
<1> QED BY <1>6, <1>7, <1>8

\* A failure shuts nothing and opens nothing; what is marked is shut.
LEMMA EndsOfRemovals ==
  ASSUME CredentialsInv, NEW p \in Processes, DropFails(p) \/ MarkRevoked(p) \/ MarkFails(p)
  PROVE  CredentialsInv'
<1>1. proc[p].step \in {"drop", "mark"} /\ proc[p] # Idle
  BY DEF DropFails, MarkRevoked, MarkFails, Idle
<1>2. proc[p] \in AtTask /\ CredentialsTypeOK /\ Sound(proc[p])
  BY <1>1, AtWork DEF CredentialsInv, Disabling
<1>3. UNCHANGED <<engine, account>>
  BY DEF DropFails, MarkRevoked, MarkFails
<1>4. CASE DropFails(p)
  <2>1. RowsKept
    BY <1>2, <1>4, RowsStay DEF DropFails
  <2>2. AccountsShut
    BY <1>2, <1>3, <1>4 DEF DropFails, AccountsShut, CredentialsTypeOK
  <2>3. CASE proc[p].does = "create"
    BY <1>3, <1>4, <2>1, <2>2, <2>3, RestsWell DEF DropFails
  <2>4. CASE proc[p].does # "create"
    BY <1>2, <1>3, <1>4, <2>1, <2>2, <2>4, GoesOnWell DEF DropFails
  <2> QED BY <2>3, <2>4
<1>5. CASE MarkFails(p)
  <2>1. RowsKept /\ AccountsShut
    BY <1>2, <1>5, RowsStay, AccountsStay DEF MarkFails
  <2> QED BY <1>1, <1>2, <1>3, <1>5, <2>1, GoesOnWell DEF MarkFails, Sound
<1>6. CASE MarkRevoked(p)
  <2>1. AccountsShut
    BY <1>2, <1>6, AccountsStay DEF MarkRevoked
  <2>2. /\ proc[p].does # "create" /\ Shut(proc[p].cred, proc[p].user)
        /\ rows[proc[p].cred].state # "none" /\ proc[p].user = rows[proc[p].cred].user
        /\ proc[p].cred \in Credential
    BY <1>1, <1>2, <1>6 DEF MarkRevoked, Sound, AtTask
  <2>3. \A u \in Usernames : Shut(proc[p].cred, u)
    BY <2>2 DEF CredentialsInv, Made, Shut
  <2>4. rows' = rows \/ (Active(proc[p].cred) /\ rows' = [rows EXCEPT ![proc[p].cred].state = "revoked"])
    BY <1>6 DEF MarkRevoked
  <2>5. RowsKept
    <3>1. CASE rows' = rows
      BY <1>2, <3>1, RowsStay
    <3>2. CASE Active(proc[p].cred) /\ rows' = [rows EXCEPT ![proc[p].cred].state = "revoked"]
      <4>1. rows[proc[p].cred] \in CredentialRow
        BY <1>2, <2>2, <3>2 DEF CredentialsTypeOK, Active, NoCredential
      <4> QED BY <1>2, <2>2, <2>3, <3>2, <4>1 DEF RowsKept, CredentialsTypeOK, CredentialRow, Active
    <3> QED BY <2>4, <3>1, <3>2
  <2> QED BY <1>2, <1>3, <1>6, <2>1, <2>2, <2>5, GoesOnWell DEF MarkRevoked
<1> QED BY <1>4, <1>5, <1>6

\* What is created has no row, no account and no other that creates it.
LEMMA CreationBegins ==
  ASSUME CredentialsInv, NEW p \in Processes, CreateCredential(p)
  PROVE  CredentialsInv'
<1>1. /\ UNCHANGED <<engine, rows, account, owner>> /\ CredentialsTypeOK
      /\ AccountsShut /\ RowsKept
  BY AccountsStay, RowsStay DEF CreateCredential, CredentialsInv
<1>2. PICK c \in Credential, u \in Usernames, n \in Names :
        /\ rows[c].state = "none" /\ ~InCreation(c) /\ \A x \in Usernames : owner[x] # c
        /\ proc' = [proc EXCEPT ![p] = [Idle EXCEPT !.does = "create", !.step = "account", !.cred = c, !.user = u, !.name = n]]
  BY DEF CreateCredential
<1>3. ASSUME NEW w,
             w = [Idle EXCEPT !.does = "create", !.step = "account", !.cred = c, !.user = u, !.name = n],
             proc' = [proc EXCEPT ![p] = w]
      PROVE  CredentialsInv'
  <2>1. w \in AtTask /\ w.does = "create" /\ w.step = "account" /\ w.cred = c /\ w.user = u /\ w.rest = {}
    BY <1>3 DEF Idle, AtTask
  <2>2. /\ proc' \in [Processes -> AtTask \cup {Idle}] /\ proc'[p] = w
        /\ \A q \in Processes \ {p} : proc'[q] = proc[q]
    BY <1>1, <1>3, <2>1 DEF CredentialsTypeOK
  <2>3. Sound(proc[p])'
    BY <1>1, <1>2, <2>1, <2>2 DEF Sound
  <2>4. Disabling'
    BY <1>1, <2>2, <2>3, OthersKeep DEF CredentialsInv
  <2>5. CredentialsTypeOK' /\ RevokedStaysOut'
    BY <1>1, <2>2 DEF CredentialsTypeOK, CredentialsInv, RevokedStaysOut
  <2>6. OneCreator'
    BY <1>2, <2>1, <2>2 DEF CredentialsInv, OneCreator, InCreation
  <2>7. Made'
    BY <1>1, <1>2, <2>1, <2>2 DEF CredentialsInv, Made
  <2> QED BY <2>4, <2>5, <2>6, <2>7 DEF CredentialsInv
<1> QED BY <1>2, <1>3

\* A process of another credential, or of a row, is not disturbed.
LEMMA OthersApart ==
  ASSUME CredentialsInv, NEW p \in Processes, proc[p] # Idle, proc[p].does = "create",
         NEW q \in Processes \ {p}, proc[q] # Idle
  PROVE  proc[q].cred # proc[p].cred /\ proc[p].cred \notin proc[q].rest
<1>1. rows[proc[p].cred].state = "none"
  BY DEF CredentialsInv, Disabling, Sound
<1>2. Sound(proc[q])
  BY DEF CredentialsInv, Disabling
<1> QED BY <1>1, <1>2 DEF CredentialsInv, OneCreator, Sound

LEMMA AccountCreated ==
  ASSUME CredentialsInv, NEW p \in Processes, CreateAccount(p)
  PROVE  CredentialsInv'
<1>1. proc[p] # Idle /\ proc[p].does = "create" /\ UNCHANGED <<engine, rows>>
  BY DEF CreateAccount, At, Idle
<1>2. /\ proc[p] \in AtTask /\ CredentialsTypeOK /\ Sound(proc[p])
      /\ proc[p].user \in Usernames /\ proc[p].cred \in Credential
      /\ rows[proc[p].cred].state = "none"
  BY <1>1, AtWork DEF CredentialsInv, Disabling, Sound, AtTask
<1>3. CASE Exists(account[proc[p].user])
  <2>1. AccountsShut /\ RowsKept
    BY <1>1, <1>2, <1>3, AccountsStay, RowsStay DEF CreateAccount
  <2> QED BY <1>1, <1>3, <2>1, RestsWell DEF CreateAccount
<1>4. CASE ~Exists(account[proc[p].user])
  <2>1. /\ account' = [account EXCEPT ![proc[p].user] = Created(Password)]
        /\ owner' = [owner EXCEPT ![proc[p].user] = proc[p].cred] /\ Step(p, "grant")
    BY <1>4 DEF CreateAccount
  <2>2. Onward(p) /\ proc'[p].step = "grant"
    BY <1>2, <2>1 DEF Step, Onward, CredentialsTypeOK, AtTask
  <2>3. Created(Password) \in AccountRow
    BY DEF Created, Password, AccountRow
  <2>4. CredentialsTypeOK'
    BY <1>1, <1>2, <2>1, <2>2, <2>3 DEF CredentialsTypeOK, Onward
  <2>5. /\ owner'[proc[p].user] = proc[p].cred
        /\ \A u \in Usernames \ {proc[p].user} : owner'[u] = owner[u] /\ account'[u] = account[u]
    BY <1>2, <2>1 DEF CredentialsTypeOK
  <2>6. Disabling'
    <3>1. Sound(proc[p])'
      BY <1>1, <1>2, <2>2 DEF Sound, Onward
    <3>2. ASSUME NEW q \in Processes \ {p} PROVE Sound(proc[q])'
      <4>1. Sound(proc[q]) /\ proc'[q] = proc[q] /\ Removal(engine)' = Removal(engine)
        BY <1>1, <2>2 DEF CredentialsInv, Disabling, Onward, Removal
      <4>2. CASE proc[q] # Idle
        <5>1. proc[q].cred # proc[p].cred /\ proc[q].user \in Usernames
          BY <1>1, <1>2, <4>2, OthersApart DEF CredentialsTypeOK, AtTask
        <5>2. Shut(proc[q].cred, proc[q].user) => Shut(proc[q].cred, proc[q].user)'
          BY <2>5, <4>1, <5>1 DEF Shut
        <5> QED BY <1>1, <4>1, <4>2, <5>2 DEF Sound
      <4>3. CASE proc[q] = Idle
        BY <4>1, <4>3 DEF Sound
      <4> QED BY <4>2, <4>3
    <3> QED BY <3>1, <3>2 DEF Disabling
  <2>7. OneCreator'
    BY <2>2 DEF CredentialsInv, OneCreator, Onward
  <2>8. Made'
    <3>1. \A q \in Processes : proc'[q].does = "create" /\ proc'[q].cred = proc[p].cred => q = p
      BY <1>1, <2>2 DEF Onward, CredentialsInv, OneCreator
    <3>2. \A q \in Processes : /\ proc'[q].does = proc[q].does /\ proc'[q].cred = proc[q].cred
                               /\ proc'[q].user = proc[q].user
      BY <2>2 DEF Onward
    <3> QED BY <1>1, <1>2, <2>5, <3>1, <3>2 DEF CredentialsInv, Made
  <2>9. RevokedStaysOut'
    BY <1>1, <1>2, <2>5 DEF CredentialsInv, RevokedStaysOut
  <2> QED BY <2>4, <2>6, <2>7, <2>8, <2>9 DEF CredentialsInv
<1> QED BY <1>3, <1>4

LEMMA RowInserted ==
  ASSUME CredentialsInv, NEW p \in Processes, InsertRow(p)
  PROVE  CredentialsInv'
<1>1. proc[p] # Idle /\ proc[p].does = "create" /\ UNCHANGED <<engine, account, owner>>
  BY DEF InsertRow, At, Idle
<1>2. /\ proc[p] \in AtTask /\ CredentialsTypeOK /\ Sound(proc[p])
      /\ proc[p].user \in Usernames /\ proc[p].cred \in Credential
      /\ proc[p].name \in Names \cup {"none"}
  BY <1>1, AtWork DEF CredentialsInv, Disabling, AtTask
<1>3. /\ proc' \in [Processes -> AtTask \cup {Idle}] /\ proc'[p] = Idle
      /\ \A q \in Processes \ {p} : proc'[q] = proc[q]
  BY <1>2 DEF InsertRow, CredentialsTypeOK
<1>4. /\ rows'[proc[p].cred] = [state |-> "active", user |-> proc[p].user, name |-> proc[p].name, expired |-> FALSE]
      /\ \A c \in Credential \ {proc[p].cred} : rows'[c] = rows[c]
  BY <1>2 DEF InsertRow, CredentialsTypeOK
<1>5. CredentialsTypeOK'
  <2>1. [state |-> "active", user |-> proc[p].user, name |-> proc[p].name, expired |-> FALSE] \in CredentialRow
    BY <1>2 DEF CredentialRow
  <2> QED BY <1>1, <1>2, <1>3, <2>1 DEF InsertRow, CredentialsTypeOK
<1>6. Disabling'
  <2>1. Sound(proc[p])'
    BY <1>3 DEF Sound
  <2>2. ASSUME NEW q \in Processes \ {p} PROVE Sound(proc[q])'
    <3>1. Sound(proc[q]) /\ proc'[q] = proc[q] /\ Removal(engine)' = Removal(engine)
      BY <1>1, <1>3 DEF CredentialsInv, Disabling, Removal
    <3>2. CASE proc[q] # Idle
      <4>1. /\ proc[q].cred # proc[p].cred /\ proc[p].cred \notin proc[q].rest
            /\ proc[q].cred \in Credential /\ proc[q].rest \subseteq Credential
        BY <1>1, <1>2, <3>2, OthersApart DEF CredentialsTypeOK, AtTask
      <4>2. Shut(proc[q].cred, proc[q].user)' <=> Shut(proc[q].cred, proc[q].user)
        BY <1>1, <3>1 DEF Shut
      <4> QED BY <1>1, <1>4, <3>1, <3>2, <4>1, <4>2 DEF Sound
    <3>3. CASE proc[q] = Idle
      BY <3>1, <3>3 DEF Sound
    <3> QED BY <3>2, <3>3
  <2> QED BY <2>1, <2>2 DEF Disabling
<1>7. OneCreator'
  BY <1>3 DEF CredentialsInv, OneCreator, Idle
<1>8. Made'
  BY <1>1, <1>2, <1>3, <1>4 DEF CredentialsInv, Made, Idle
<1>9. RevokedStaysOut'
  BY <1>1, <1>4 DEF CredentialsInv, RevokedStaysOut
<1> QED BY <1>5, <1>6, <1>7, <1>8, <1>9 DEF CredentialsInv

\* Processes aside: credentials expire, sessions open, the server dies.
LEMMA AroundThem ==
  ASSUME CredentialsInv,
         \/ \E c \in Credential : Expires(c) \/ Connects(c)
         \/ ServerDies
         \/ UNCHANGED credentialVars
  PROVE  CredentialsInv'
<1>1. CredentialsTypeOK /\ UNCHANGED <<engine, account, owner>>
  BY DEF CredentialsInv, Expires, Connects, ServerDies, credentialVars
<1>2. AccountsShut
  BY <1>1, AccountsStay
<1>3. RowsKept
  <2>1. CASE UNCHANGED rows
    BY <1>1, <2>1, RowsStay
  <2>2. ASSUME NEW c \in Credential, Expires(c) PROVE RowsKept
    <3>1. rows[c] \in CredentialRow
      BY <1>1, <2>2 DEF Expires, Active, CredentialsTypeOK, NoCredential
    <3> QED BY <1>1, <2>2, <3>1 DEF Expires, RowsKept, CredentialsTypeOK, CredentialRow
  <2> QED BY <2>1, <2>2 DEF Connects, ServerDies, credentialVars
<1>4. CASE UNCHANGED proc
  BY <1>1, <1>2, <1>3, <1>4, StepKeeps DEF CredentialsTypeOK
<1>5. CASE ServerDies
  <2>1. /\ proc' \in [Processes -> AtTask \cup {Idle}]
        /\ \A q \in Processes : proc'[q] = Idle
    BY <1>5 DEF ServerDies
  <2>2. \A q \in Processes : Sound(proc[q])' /\ proc'[q].does # "create"
    BY <2>1 DEF Sound, Idle
  <2> QED BY <1>1, <1>2, <1>3, <2>1, <2>2, StepKeeps
<1> QED BY <1>4, <1>5 DEF Expires, Connects, credentialVars

LEMMA InitCredentials == CredentialsInit => CredentialsInv
<1> SUFFICES ASSUME CredentialsInit PROVE CredentialsInv
  OBVIOUS
<1>1. /\ engine \in Engines
      /\ account = [u \in Usernames |-> NoAccount] /\ owner = [u \in Usernames |-> "none"]
      /\ rows = [c \in Credential |-> NoCredential] /\ proc = [p \in Processes |-> Idle]
  BY DEF CredentialsInit
<1>2. NoAccount \in AccountRow /\ "none" \notin Credential
  BY CredentialsAssumption DEF CredentialsAssumption, NoAccount, AccountRow
<1>3. CredentialsTypeOK
  BY <1>1, <1>2 DEF CredentialsTypeOK
<1>4. Disabling /\ OneCreator
  BY <1>1 DEF Disabling, Sound, OneCreator, Idle
<1>5. Made /\ RevokedStaysOut
  BY <1>1, <1>2 DEF Made, RevokedStaysOut, NoCredential
<1> QED BY <1>3, <1>4, <1>5 DEF CredentialsInv

LEMMA NextCredentials == CredentialsInv /\ [CredentialsNext]_credentialVars => CredentialsInv'
BY CreationBegins, Beginnings, AccountCreated, CreationSteps, RowInserted, Removing, EndsOfRemovals, AroundThem
   DEF CredentialsNext, GoOn, Fails

\* Made, and Disabling: who is past the first statement of a removal, or marks,
\* has the account shut, and no one opens it, because only a creation does and
\* what is created has no row yet.
THEOREM RevokedCredentialsStayOut == CredentialsSpec => []RevokedStaysOut
<1>1. CredentialsInv => RevokedStaysOut
  BY DEF CredentialsInv
<1> QED BY <1>1, InitCredentials, NextCredentials, PTL DEF CredentialsSpec

---------------------------------------------------------------------------
(* Sessions that end, accounts that log in, and none that is left *)

Holds(c, u) == owner[u] = c /\ Exists(account[u])

\* Creating a credential, past its account.
Making(w) == w.does = "create" /\ w.step # "account"

\* PostgreSQL keeps a role that has privileges: what has a row has its account.
Kept ==
  /\ \A c \in Credential : rows[c].state # "none" => Holds(c, rows[c].user) /\ account[rows[c].user].grants = "all"
  /\ \A p \in Processes : Making(proc[p]) =>
       /\ Holds(proc[p].cred, proc[p].user)
       /\ proc[p].step \in {"secret", "row"} => account[proc[p].user].grants = "all"

\* A removal past the terminating has ended the sessions.
Terminated(w) == w.does # "create" /\ ((w.step = "drop" /\ w.removal = <<"remove">>) \/ w.step = "mark")

Ended ==
  /\ \A p \in Processes : Terminated(proc[p]) => proc[p].cred \notin sessions
  /\ \A c \in Credential : rows[c].state = "revoked" => c \notin sessions

SessionsInv == engine = "postgres" => Kept /\ Ended

\* What p does next concerns a credential that has a row.
Takes(p) ==
  /\ \A q \in Processes \ {p} : proc'[q] = proc[q]
  /\ \/ proc'[p] = Idle
     \/ /\ proc'[p].does \in {"rotate", "revoke"} /\ proc'[p].cred \in Credential
        /\ rows[proc'[p].cred].state # "none" /\ proc'[p].user = rows[proc'[p].cred].user
        /\ \/ proc'[p].step = "drop" /\ proc'[p].removal = Removal(engine)
           \/ proc'[p].step = "account" /\ proc'[p].removal = <<>>

LEMMA ProcessAt ==
  ASSUME CredentialsInv, NEW p \in Processes, proc[p] # Idle
  PROVE  /\ proc[p] \in AtTask /\ Sound(proc[p]) /\ CredentialsTypeOK
         /\ proc[p].user \in Usernames /\ proc[p].cred \in Credential /\ proc[p].rest \subseteq Credential
BY AtWork DEF CredentialsInv, Disabling, AtTask

LEMMA GoesOnTakes ==
  ASSUME CredentialsInv, NEW p \in Processes, proc[p] # Idle, proc[p].does # "create", GoesOn(p)
  PROVE  Takes(p)
<1>1. proc[p] \in AtTask /\ Sound(proc[p]) /\ CredentialsTypeOK /\ proc[p].rest \subseteq Credential
  BY ProcessAt
<1>2. CASE proc' = [proc EXCEPT ![p] = Idle]
  BY <1>1, <1>2 DEF Takes, CredentialsTypeOK
<1>3. ASSUME NEW c \in proc[p].rest, NEW w,
             w = [proc[p] EXCEPT !.step = "drop", !.removal = Removal(engine),
                                 !.cred = c, !.user = rows[c].user, !.rest = @ \ {c}],
             proc' = [proc EXCEPT ![p] = w]
      PROVE  Takes(p)
  <2>1. w.does = proc[p].does /\ w.step = "drop" /\ w.removal = Removal(engine) /\ w.cred = c /\ w.user = rows[c].user
    BY <1>1, <1>3 DEF AtTask
  <2>2. proc'[p] = w /\ \A q \in Processes \ {p} : proc'[q] = proc[q]
    BY <1>1, <1>3 DEF CredentialsTypeOK
  <2>3. c \in Credential /\ rows[c].state # "none" /\ proc[p].does \in {"rotate", "revoke"}
    BY <1>1 DEF Sound, AtTask
  <2> QED BY <2>1, <2>2, <2>3 DEF Takes
<1>4. PICK next \in Next1(p) : proc' = [proc EXCEPT ![p] = next]
  BY DEF GoesOn
<1>5. \/ next = Idle
      \/ \E c \in proc[p].rest :
           next = [proc[p] EXCEPT !.step = "drop", !.removal = Removal(engine),
                                  !.cred = c, !.user = rows[c].user, !.rest = @ \ {c}]
  BY <1>4, Zenon DEF Next1
<1> QED BY <1>2, <1>3, <1>4, <1>5, Zenon

LEMMA BeginningTakes ==
  ASSUME CredentialsInv, NEW p \in Processes,
         Rotate(p) \/ Revoke(p) \/ ExpireDue(p) \/ RevokeAllForDatabase(p)
  PROVE  Takes(p) /\ UNCHANGED <<engine, account, owner, sessions, rows, failures, deaths>>
<1>1. CredentialsTypeOK
  BY DEF CredentialsInv
<1>2. ASSUME NEW c \in Credential, rows[c].state # "none", NEW rest, NEW w,
             \/ w = [Idle EXCEPT !.does = "rotate", !.step = "account", !.cred = c, !.user = rows[c].user]
             \/ w = [Idle EXCEPT !.does = "revoke", !.step = "drop", !.removal = Removal(engine), !.cred = c,
                                 !.user = rows[c].user]
             \/ w = [Idle EXCEPT !.does = "revoke", !.step = "drop", !.removal = Removal(engine), !.cred = c,
                                 !.user = rows[c].user, !.rest = rest],
             proc' = [proc EXCEPT ![p] = w]
      PROVE  Takes(p)
  <2>1. /\ w.cred = c /\ w.user = rows[c].user /\ w.does \in {"rotate", "revoke"}
        /\ \/ w.step = "drop" /\ w.removal = Removal(engine)
           \/ w.step = "account" /\ w.removal = <<>>
    BY <1>2 DEF Idle
  <2>2. proc'[p] = w /\ \A q \in Processes \ {p} : proc'[q] = proc[q]
    BY <1>1, <1>2 DEF CredentialsTypeOK
  <2> QED BY <1>2, <2>1, <2>2 DEF Takes
<1>3. ASSUME NEW list \in SUBSET Credential, \A d \in list : Active(d), RevokeListed(p, list) PROVE Takes(p)
  <2>1. PICK c \in list :
          proc' = [proc EXCEPT ![p] = [Idle EXCEPT !.does = "revoke", !.step = "drop", !.removal = Removal(engine),
                                                   !.cred = c, !.user = rows[c].user, !.rest = list \ {c}]]
    BY <1>3 DEF RevokeListed
  <2>2. c \in Credential /\ rows[c].state # "none"
    BY <1>3 DEF Active
  <2> QED BY <1>2, <2>1, <2>2
<1>4. Takes(p)
  BY <1>2, <1>3 DEF Rotate, Revoke, ExpireDue, RevokeAllForDatabase, Active
<1> QED BY <1>4 DEF Rotate, Revoke, ExpireDue, RevokeAllForDatabase, RevokeListed

RowsSame ==
  \A c \in Credential : (rows'[c].state = "none" <=> rows[c].state = "none") /\ rows'[c].user = rows[c].user

LEMMA MarkingRows ==
  ASSUME CredentialsInv, NEW p \in Processes, MarkRevoked(p)
  PROVE  RowsSame /\ \A c \in Credential \ {proc[p].cred} : rows'[c] = rows[c]
<1>1. proc[p] # Idle
  BY DEF MarkRevoked, Idle
<1>2. CredentialsTypeOK /\ proc[p].cred \in Credential
  BY <1>1, ProcessAt
<1>3. CASE rows' = rows
  BY <1>3 DEF RowsSame
<1>4. CASE Active(proc[p].cred) /\ rows' = [rows EXCEPT ![proc[p].cred].state = "revoked"]
  <2>1. rows[proc[p].cred] \in CredentialRow
    BY <1>2, <1>4 DEF CredentialsTypeOK, Active, NoCredential
  <2> QED BY <1>2, <1>4, <2>1 DEF RowsSame, CredentialsTypeOK, CredentialRow, Active
<1> QED BY <1>3, <1>4 DEF MarkRevoked

LEMMA KeptKeeps ==
  ASSUME CredentialsInv, Kept, RowsSame, UNCHANGED owner,
         \A u \in Usernames : Exists(account[u]) => Exists(account'[u]) /\ account'[u].grants = account[u].grants,
         \A p \in Processes : Making(proc[p])' =>
           /\ Making(proc[p]) /\ proc'[p].cred = proc[p].cred /\ proc'[p].user = proc[p].user
           /\ proc'[p].step \in {"secret", "row"} => account[proc[p].user].grants = "all"
  PROVE  Kept'
<1>1. \A c \in Credential : rows[c].state # "none" => rows[c].user \in Usernames
  BY DEF CredentialsInv, CredentialsTypeOK, CredentialRow, NoCredential
<1>2. \A p \in Processes : Making(proc[p]) => proc[p].user \in Usernames
  BY ProcessAt DEF Making, Idle
<1> QED BY <1>1, <1>2 DEF Kept, RowsSame, Holds, Exists, Making

\* An account that is being made is not that of a row, or of another.
LEMMA MakingItsOwn ==
  ASSUME CredentialsInv, Kept, NEW p \in Processes, Making(proc[p])
  PROVE  /\ \A c \in Credential : rows[c].state # "none" => rows[c].user # proc[p].user
         /\ \A q \in Processes \ {p} : Making(proc[q]) => proc[q].user # proc[p].user
<1>1. proc[p] # Idle /\ proc[p].does = "create"
  BY DEF Making, Idle
<1>2. rows[proc[p].cred].state = "none" /\ owner[proc[p].user] = proc[p].cred
  BY <1>1, ProcessAt DEF Sound, Kept, Holds
<1> QED BY <1>1, <1>2 DEF Kept, Holds, Making, CredentialsInv, OneCreator

\* What is taken up makes no account.
LEMMA KeptTakes ==
  ASSUME CredentialsInv, Kept, RowsSame, UNCHANGED owner,
         \A u \in Usernames : Exists(account[u]) => Exists(account'[u]) /\ account'[u].grants = account[u].grants,
         NEW p \in Processes, Takes(p)
  PROVE  Kept'
<1>1. \A q \in Processes : Making(proc[q])' => q # p
  BY DEF Takes, Making, Idle
<1>2. \A q \in Processes : Making(proc[q])' =>
        /\ Making(proc[q]) /\ proc'[q].cred = proc[q].cred /\ proc'[q].user = proc[q].user
        /\ proc'[q].step \in {"secret", "row"} => account[proc[q].user].grants = "all"
  BY <1>1 DEF Takes, Making, Kept
<1> QED BY <1>2, KeptKeeps

\* p goes on: what of its state does not change, and who else stays.
LEMMA GoesOnward ==
  ASSUME CredentialsInv, NEW p \in Processes, proc[p] # Idle, NEW step \in {"account", "grant", "secret", "row", "drop", "mark"},
         NEW removal,
         \/ proc' = [proc EXCEPT ![p].step = step] /\ removal = proc[p].removal
         \/ proc' = [proc EXCEPT ![p].step = step, ![p].removal = removal]
         \/ proc' = [proc EXCEPT ![p].removal = removal] /\ step = proc[p].step
  PROVE  /\ \A q \in Processes \ {p} : proc'[q] = proc[q]
         /\ proc'[p].does = proc[p].does /\ proc'[p].cred = proc[p].cred /\ proc'[p].user = proc[p].user
         /\ proc'[p].step = step /\ proc'[p].removal = removal /\ proc'[p].rest = proc[p].rest
BY ProcessAt DEF CredentialsTypeOK, AtTask

LEMMA Ends ==
  ASSUME CredentialsInv, NEW p \in Processes, proc' = [proc EXCEPT ![p] = Idle]
  PROVE  Takes(p) /\ proc'[p] = Idle /\ \A q \in Processes \ {p} : proc'[q] = proc[q]
BY DEF Takes, CredentialsInv, CredentialsTypeOK

\* The statements that change no account's existence or privileges.
LEMMA KeptOnward ==
  ASSUME CredentialsInv, Kept, RowsSame, UNCHANGED owner,
         \A u \in Usernames : Exists(account[u]) => Exists(account'[u]) /\ account'[u].grants = account[u].grants,
         NEW p \in Processes, proc[p] # Idle, proc[p].does = "create" => proc[p].step # "account",
         \A q \in Processes \ {p} : proc'[q] = proc[q],
         proc'[p].does = proc[p].does, proc'[p].cred = proc[p].cred, proc'[p].user = proc[p].user,
         proc'[p].step \in {"secret", "row"} => proc[p].step \in {"secret", "row"} \/ proc[p].does # "create"
  PROVE  Kept'
<1>1. \A q \in Processes : Making(proc[q])' =>
        /\ Making(proc[q]) /\ proc'[q].cred = proc[q].cred /\ proc'[q].user = proc[q].user
        /\ proc'[q].step \in {"secret", "row"} => account[proc[q].user].grants = "all"
  BY DEF Making, Kept
<1> QED BY <1>1, KeptKeeps

LEMMA KeptPlain ==
  ASSUME CredentialsInv, Kept, NEW p \in Processes,
         \/ PutSecret(p) \/ PutSecretFails(p) \/ InsertFails(p) \/ RotateAccount(p)
         \/ Disable(p) \/ Terminate(p) \/ MarkRevoked(p) \/ MarkFails(p)
         \/ DropFails(p) /\ proc[p].does # "create"
  PROVE  Kept'
<1>1. proc[p] # Idle
  BY DEF PutSecret, PutSecretFails, InsertFails, RotateAccount, Disable, Terminate, MarkRevoked, MarkFails, DropFails, At, Idle
<1>2. proc[p] \in AtTask /\ Sound(proc[p]) /\ CredentialsTypeOK /\ proc[p].user \in Usernames
  BY <1>1, ProcessAt
<1>3. RowsSame
  BY MarkingRows DEF RowsSame, PutSecret, PutSecretFails, InsertFails, RotateAccount, Disable, Terminate, MarkFails, DropFails
<1>4. UNCHANGED owner
  BY DEF PutSecret, PutSecretFails, InsertFails, RotateAccount, Disable, Terminate, MarkRevoked, MarkFails, DropFails
<1>5. \A u \in Usernames : Exists(account[u]) => Exists(account'[u]) /\ account'[u].grants = account[u].grants
  <2>1. account[proc[p].user] \in AccountRow
    BY <1>2 DEF CredentialsTypeOK
  <2>2. \/ account' = account
        \/ account' = [account EXCEPT ![proc[p].user] = Rotated(account[proc[p].user], Password)]
        \/ account' = [account EXCEPT ![proc[p].user] = Disabled(account[proc[p].user])]
    BY DEF PutSecret, PutSecretFails, InsertFails, RotateAccount, Disable, Terminate, MarkRevoked, MarkFails, DropFails
  <2>3. /\ \A u \in Usernames \ {proc[p].user} : account'[u] = account[u]
        /\ account'[proc[p].user] \in {account[proc[p].user], Rotated(account[proc[p].user], Password), Disabled(account[proc[p].user])}
    BY <1>2, <2>2 DEF CredentialsTypeOK
  <2>4. Exists(account[proc[p].user]) =>
          Exists(account'[proc[p].user]) /\ account'[proc[p].user].grants = account[proc[p].user].grants
    <3>1. CASE account'[proc[p].user] = account[proc[p].user]
      BY <3>1
    <3>2. CASE account'[proc[p].user] = Rotated(account[proc[p].user], Password)
      BY <2>1, <3>2 DEF Exists, Rotated, AccountRow
    <3>3. CASE account'[proc[p].user] = Disabled(account[proc[p].user])
      BY <2>1, <3>3 DEF Exists, Disabled, AccountRow
    <3> QED BY <2>3, <3>1, <3>2, <3>3
  <2> QED BY <2>3, <2>4
<1>6. CASE MarkRevoked(p) \/ MarkFails(p) \/ (DropFails(p) /\ proc[p].does # "create")
  <2>1. proc[p].does # "create" /\ GoesOn(p)
    BY <1>1, <1>2, <1>6 DEF MarkRevoked, MarkFails, DropFails, Sound
  <2> QED BY <1>1, <1>3, <1>4, <1>5, <2>1, GoesOnTakes, KeptTakes
<1>7. CASE PutSecret(p) \/ PutSecretFails(p) \/ InsertFails(p) \/ RotateAccount(p) \/ Disable(p) \/ Terminate(p)
  <2>1. \/ proc' = [proc EXCEPT ![p] = Idle]
        \/ /\ \A q \in Processes \ {p} : proc'[q] = proc[q]
           /\ proc'[p].does = proc[p].does /\ proc'[p].cred = proc[p].cred /\ proc'[p].user = proc[p].user
           /\ proc'[p].step \in {"secret", "row"} => proc[p].step \in {"secret", "row"} \/ proc[p].does # "create"
    BY <1>1, <1>2, <1>7 DEF PutSecret, PutSecretFails, InsertFails, RotateAccount, Disable, Terminate, At, Step, Undo, CredentialsTypeOK, AtTask
  <2>2. proc[p].does = "create" => proc[p].step # "account"
    BY <1>7 DEF PutSecret, PutSecretFails, InsertFails, RotateAccount, Disable, Terminate, At
  <2> QED BY <1>1, <1>3, <1>4, <1>5, <2>1, <2>2, Ends, KeptTakes, KeptOnward
<1> QED BY <1>6, <1>7

\* One that creates changes its own account.
LEMMA KeptMaking ==
  ASSUME CredentialsInv, Kept, NEW p \in Processes,
         \/ Grant(p) \/ GrantFails(p)
         \/ proc[p].does = "create" /\ (RemoveAccount(p) \/ DropFails(p))
  PROVE  Kept'
<1>1. proc[p] # Idle /\ Making(proc[p])
  BY DEF Grant, GrantFails, RemoveAccount, DropFails, Making, At, Idle
<1>2. proc[p] \in AtTask /\ CredentialsTypeOK /\ proc[p].user \in Usernames /\ Holds(proc[p].cred, proc[p].user)
  BY <1>1, ProcessAt DEF Kept
<1>3. \A u \in Usernames \ {proc[p].user} : account'[u] = account[u] /\ owner'[u] = owner[u]
  BY <1>2 DEF Grant, GrantFails, RemoveAccount, DropFails, CredentialsTypeOK
<1>4. UNCHANGED rows /\ \A q \in Processes \ {p} : proc'[q] = proc[q]
  BY <1>2 DEF Grant, GrantFails, RemoveAccount, DropFails, Dropped1, Step, Undo, CredentialsTypeOK
<1>5. Making(proc[p])' =>
        /\ Holds(proc[p].cred, proc[p].user)'
        /\ proc'[p].step \in {"secret", "row"} => account'[proc'[p].user].grants = "all"
  <2>1. CASE RemoveAccount(p) \/ DropFails(p)
    <3>1. proc'[p] = Idle
      BY <1>1, <1>2, <2>1 DEF RemoveAccount, DropFails, Dropped1, Making, CredentialsTypeOK, Grant, GrantFails, At
    <3> QED BY <3>1 DEF Making, Idle
  <2>2. CASE Grant(p)
    <3>1. proc'[p].cred = proc[p].cred /\ proc'[p].user = proc[p].user /\ UNCHANGED owner
      BY <1>1, <2>2, GoesOnward DEF Grant, Step
    <3>2. account'[proc[p].user] = Granted(account[proc[p].user]) /\ account[proc[p].user] \in AccountRow
      BY <1>2, <2>2 DEF Grant, CredentialsTypeOK
    <3> QED BY <1>2, <3>1, <3>2 DEF Holds, Exists, Granted, AccountRow
  <2>3. CASE GrantFails(p)
    <3>1. proc'[p].cred = proc[p].cred /\ proc'[p].user = proc[p].user /\ proc'[p].step = "drop" /\ UNCHANGED owner
      BY <1>1, <2>3, GoesOnward DEF GrantFails, Undo
    <3>2. account'[proc[p].user].login = account[proc[p].user].login
      BY <1>2, <2>3 DEF GrantFails, CredentialsTypeOK, AccountRow
    <3> QED BY <1>2, <3>1, <3>2 DEF Holds, Exists
  <2> QED BY <2>1, <2>2, <2>3
<1>6. \A c \in Credential : rows[c].state # "none" => rows[c].user \in Usernames \ {proc[p].user}
  BY <1>1, MakingItsOwn DEF CredentialsInv, CredentialsTypeOK, CredentialRow, NoCredential
<1>7. \A q \in Processes \ {p} : Making(proc[q]) => proc[q].user \in Usernames \ {proc[p].user}
  BY <1>1, MakingItsOwn, ProcessAt DEF Making, Idle
<1> QED BY <1>3, <1>4, <1>5, <1>6, <1>7 DEF Kept, Holds, Making

\* PostgreSQL does not remove the account of what has a row.
LEMMA KeptRemoved ==
  ASSUME CredentialsInv, Kept, engine = "postgres", NEW p \in Processes, proc[p].does # "create", RemoveAccount(p)
  PROVE  Kept' /\ UNCHANGED account
<1>1. proc[p] # Idle
  BY DEF RemoveAccount, Idle
<1>2. proc[p] \in AtTask /\ Sound(proc[p]) /\ CredentialsTypeOK /\ proc[p].user \in Usernames /\ proc[p].cred \in Credential
  BY <1>1, ProcessAt
<1>3. account[proc[p].user].grants = "all"
  BY <1>1, <1>2 DEF Kept, Sound
<1>4. UNCHANGED <<account, owner, rows>>
  BY <1>2, <1>3 DEF RemoveAccount, Removed, CredentialsTypeOK
<1>5. RowsSame
  BY <1>4 DEF RowsSame
<1>6. /\ \A q \in Processes \ {p} : proc'[q] = proc[q]
      /\ proc'[p].does = proc[p].does /\ proc'[p].cred = proc[p].cred /\ proc'[p].user = proc[p].user
      /\ proc'[p].step = "mark"
  BY <1>1, GoesOnward DEF RemoveAccount, Dropped1, Step
<1>7. Kept'
  BY <1>1, <1>4, <1>5, <1>6, KeptOnward
<1> QED BY <1>4, <1>7

LEMMA KeptCreated ==
  ASSUME CredentialsInv, Kept, NEW p \in Processes, CreateAccount(p)
  PROVE  Kept'
<1>1. proc[p] # Idle /\ UNCHANGED rows
  BY DEF CreateAccount, At, Idle
<1>2. CredentialsTypeOK /\ proc[p].user \in Usernames /\ proc[p].cred \in Credential /\ RowsSame
  BY <1>1, ProcessAt DEF RowsSame
<1>3. CASE Exists(account[proc[p].user])
  BY <1>1, <1>2, <1>3, Ends, KeptTakes DEF CreateAccount
<1>4. CASE ~Exists(account[proc[p].user])
  <2>1. /\ \A q \in Processes \ {p} : proc'[q] = proc[q]
        /\ proc'[p].cred = proc[p].cred /\ proc'[p].user = proc[p].user /\ proc'[p].step = "grant"
    BY <1>1, <1>4, GoesOnward DEF CreateAccount, Step
  <2>2. /\ account'[proc[p].user].login = "on" /\ owner'[proc[p].user] = proc[p].cred
        /\ \A u \in Usernames \ {proc[p].user} : account'[u] = account[u] /\ owner'[u] = owner[u]
    BY <1>2, <1>4 DEF CreateAccount, CredentialsTypeOK, Created
  <2>3. \A c \in Credential : rows[c].state # "none" => rows[c].user \in Usernames \ {proc[p].user}
    BY <1>4 DEF Kept, Holds, CredentialsInv, CredentialsTypeOK, CredentialRow, NoCredential
  <2>4. \A q \in Processes \ {p} : Making(proc[q]) => proc[q].user \in Usernames \ {proc[p].user}
    BY <1>4, ProcessAt DEF Kept, Holds, Making, Idle
  <2> QED BY <1>1, <2>1, <2>2, <2>3, <2>4 DEF Kept, Holds, Exists, Making
<1> QED BY <1>3, <1>4

LEMMA KeptInserted ==
  ASSUME CredentialsInv, Kept, NEW p \in Processes, InsertRow(p)
  PROVE  Kept'
<1>1. proc[p] # Idle /\ Making(proc[p]) /\ proc[p].step = "row" /\ UNCHANGED <<account, owner>>
  BY DEF InsertRow, At, Making, Idle
<1>2. CredentialsTypeOK /\ proc[p].cred \in Credential
  BY <1>1, ProcessAt
<1>3. proc'[p] = Idle /\ \A q \in Processes \ {p} : proc'[q] = proc[q]
  BY Ends DEF InsertRow
<1>4. /\ rows'[proc[p].cred].user = proc[p].user
      /\ \A c \in Credential \ {proc[p].cred} : rows'[c] = rows[c]
  BY <1>2 DEF InsertRow, CredentialsTypeOK
<1> QED BY <1>1, <1>2, <1>3, <1>4 DEF Kept, Holds, Making, Idle

LEMMA KeptBeginnings ==
  ASSUME CredentialsInv, Kept, NEW p \in Processes,
         CreateCredential(p) \/ Rotate(p) \/ Revoke(p) \/ ExpireDue(p) \/ RevokeAllForDatabase(p)
  PROVE  Kept'
<1>1. CASE CreateCredential(p)
  <2>1. UNCHANGED <<account, owner, rows>> /\ RowsSame
    BY <1>1 DEF CreateCredential, RowsSame
  <2>2. ~Making(proc[p])' /\ \A q \in Processes \ {p} : proc'[q] = proc[q]
    BY <1>1 DEF CreateCredential, CredentialsInv, CredentialsTypeOK, Making, Idle
  <2>3. \A q \in Processes : Making(proc[q])' =>
          /\ Making(proc[q]) /\ proc'[q].cred = proc[q].cred /\ proc'[q].user = proc[q].user
          /\ proc'[q].step \in {"secret", "row"} => account[proc[q].user].grants = "all"
    BY <2>2 DEF Making, Kept
  <2> QED BY <2>1, <2>3, KeptKeeps
<1>2. CASE Rotate(p) \/ Revoke(p) \/ ExpireDue(p) \/ RevokeAllForDatabase(p)
  <2>1. Takes(p) /\ UNCHANGED <<account, owner, rows>> /\ RowsSame
    BY <1>2, BeginningTakes DEF RowsSame
  <2> QED BY <2>1, KeptTakes
<1> QED BY <1>1, <1>2

LEMMA KeptAround ==
  ASSUME CredentialsInv, Kept,
         (\E c \in Credential : Expires(c) \/ Connects(c)) \/ ServerDies \/ UNCHANGED credentialVars
  PROVE  Kept'
<1>1. UNCHANGED <<account, owner>>
  BY DEF Expires, Connects, ServerDies, credentialVars
<1>2. RowsSame
  <2>1. CASE UNCHANGED rows
    BY <2>1 DEF RowsSame
  <2>2. ASSUME NEW c \in Credential, Expires(c) PROVE RowsSame
    <3>1. rows[c] \in CredentialRow
      BY <2>2 DEF Expires, Active, CredentialsInv, CredentialsTypeOK, NoCredential
    <3> QED BY <2>2, <3>1 DEF Expires, RowsSame, CredentialsInv, CredentialsTypeOK, CredentialRow
  <2> QED BY <2>1, <2>2 DEF Connects, ServerDies, credentialVars
<1>3. \A q \in Processes : Making(proc[q])' => proc'[q] = proc[q]
  BY DEF Expires, Connects, ServerDies, credentialVars, Making, Idle
<1> QED BY <1>1, <1>2, <1>3, KeptKeeps DEF Kept, Making

LEMMA KeptSteps ==
  ASSUME CredentialsInv, Kept, engine = "postgres", [CredentialsNext]_credentialVars
  PROVE  Kept'
BY KeptPlain, KeptMaking, KeptRemoved, KeptCreated, KeptInserted, KeptBeginnings, KeptAround
   DEF CredentialsNext, GoOn, Fails

LEMMA EndedKeeps ==
  ASSUME Ended, sessions' \subseteq sessions,
         \A p \in Processes : Terminated(proc[p])' =>
           (Terminated(proc[p]) /\ proc'[p].cred = proc[p].cred) \/ proc'[p].cred \notin sessions',
         \A c \in Credential : rows'[c].state = "revoked" => rows[c].state = "revoked" \/ c \notin sessions
  PROVE  Ended'
BY DEF Ended

LEMMA TakesUnended ==
  ASSUME engine = "postgres", NEW p \in Processes, Takes(p)
  PROVE  ~Terminated(proc[p])'
<1>1. Removal(engine) # <<"remove">>
  BY DEF Removal
<1>2. Idle.step = "none"
  BY DEF Idle
<1>3. proc'[p].step = "none" \/ proc'[p].step = "account" \/ (proc'[p].step = "drop" /\ proc'[p].removal = Removal(engine))
  BY <1>2 DEF Takes
<1> QED BY <1>1, <1>3 DEF Terminated

LEMMA EndedTakes ==
  ASSUME Ended, engine = "postgres", UNCHANGED sessions, NEW p \in Processes, Takes(p),
         \A c \in Credential : rows'[c].state = "revoked" => rows[c].state = "revoked" \/ c \notin sessions
  PROVE  Ended'
<1>1. \A q \in Processes : Terminated(proc[q])' => Terminated(proc[q]) /\ proc'[q].cred = proc[q].cred
  BY TakesUnended DEF Takes, Terminated
<1> QED BY <1>1, EndedKeeps

LEMMA EndedCreating ==
  ASSUME CredentialsInv, Ended, engine = "postgres", NEW p \in Processes,
         \/ CreateCredential(p) \/ CreateAccount(p) \/ Grant(p) \/ GrantFails(p) \/ InsertRow(p) \/ InsertFails(p)
         \/ PutSecret(p) \/ PutSecretFails(p) \/ RotateAccount(p)
         \/ proc[p].does = "create" /\ (Disable(p) \/ RemoveAccount(p) \/ DropFails(p))
  PROVE  Ended'
<1>1. UNCHANGED sessions /\ \A c \in Credential : rows'[c].state = "revoked" => rows[c].state = "revoked"
  <2>1. CASE InsertRow(p)
    BY <2>1 DEF InsertRow, CredentialsInv, CredentialsTypeOK
  <2>2. CASE ~InsertRow(p)
    BY <2>2 DEF CreateCredential, CreateAccount, Grant, GrantFails, InsertFails, PutSecret, PutSecretFails, RotateAccount,
                Disable, RemoveAccount, DropFails
  <2> QED BY <2>1, <2>2
<1>2. /\ \A q \in Processes \ {p} : proc'[q] = proc[q]
      /\ proc'[p].does = "create" \/ proc'[p].step \in {"none", "secret"}
  <2>1. CASE CreateCredential(p)
    BY <2>1 DEF CreateCredential, CredentialsInv, CredentialsTypeOK, Idle
  <2>2. CASE ~CreateCredential(p)
    <3>1. proc[p] # Idle
      BY <2>2 DEF CreateAccount, Grant, GrantFails, InsertRow, InsertFails, PutSecret, PutSecretFails, RotateAccount,
                  Disable, RemoveAccount, DropFails, At, Idle
    <3>2. Idle.step = "none"
      BY DEF Idle
    <3>3. CASE proc' = [proc EXCEPT ![p] = Idle]
      BY <3>2, <3>3, Ends
    <3>4. CASE Disable(p) /\ proc[p].does = "create"
      BY <3>1, <3>4, GoesOnward DEF Disable
    <3>5. ASSUME NEW step \in {"grant", "secret", "row"}, Step(p, step), proc[p].does = "create" \/ step = "secret"
          PROVE  /\ \A q \in Processes \ {p} : proc'[q] = proc[q]
                 /\ proc'[p].does = "create" \/ proc'[p].step \in {"none", "secret"}
      BY <3>1, <3>5, GoesOnward DEF Step
    <3>6. CASE Undo(p) /\ proc[p].does = "create"
      BY <3>1, <3>6, GoesOnward DEF Undo
    <3> QED BY <2>2, <3>3, <3>4, <3>5, <3>6
            DEF CreateAccount, Grant, GrantFails, InsertRow, InsertFails, PutSecret, PutSecretFails, RotateAccount,
                RemoveAccount, DropFails, Dropped1, At
  <2> QED BY <2>1, <2>2
<1>3. \A q \in Processes : Terminated(proc[q])' => Terminated(proc[q]) /\ proc'[q].cred = proc[q].cred
  BY <1>2 DEF Terminated
<1> QED BY <1>1, <1>3, EndedKeeps

\* A removal of what has a row: it is disabled, terminated, and there.
LEMMA EndedRemoving ==
  ASSUME CredentialsInv, Kept, Ended, engine = "postgres", NEW p \in Processes, proc[p].does # "create",
         Disable(p) \/ Terminate(p) \/ RemoveAccount(p)
  PROVE  Ended'
<1>1. proc[p] # Idle /\ proc[p].step = "drop" /\ UNCHANGED rows
  BY DEF Disable, Terminate, RemoveAccount, Idle
<1>2. /\ proc[p] \in AtTask /\ Sound(proc[p]) /\ CredentialsTypeOK /\ proc[p].user \in Usernames /\ proc[p].cred \in Credential
      /\ proc[p].removal \in Removals
  BY <1>1, ProcessAt DEF Sound
<1>3. Exists(account[proc[p].user]) /\ owner[proc[p].user] = proc[p].cred
  BY <1>1, <1>2 DEF Kept, Holds, Sound
<1>4. CASE Disable(p)
  <2>1. Tail(proc[p].removal) # <<"remove">> /\ UNCHANGED sessions
    <3>1. proc[p].removal = <<"disable", "terminate", "remove">>
      BY <1>2, <1>4 DEF Disable, Removals
    <3> QED BY <1>4, <3>1 DEF Disable
  <2>2. /\ \A q \in Processes \ {p} : proc'[q] = proc[q]
        /\ proc'[p].step = "drop" /\ proc'[p].removal = Tail(proc[p].removal)
    BY <1>1, <1>3, <1>4, GoesOnward DEF Disable
  <2> QED BY <1>1, <2>1, <2>2, EndedKeeps DEF Terminated
<1>5. CASE Terminate(p)
  <2>1. sessions' = sessions \ {proc[p].cred}
    BY <1>3, <1>5 DEF Terminate
  <2>2. (\A q \in Processes \ {p} : proc'[q] = proc[q]) /\ proc'[p].cred = proc[p].cred
    BY <1>1, <1>5, GoesOnward DEF Terminate
  <2> QED BY <1>1, <2>1, <2>2, EndedKeeps
<1>6. CASE RemoveAccount(p)
  <2>1. Terminated(proc[p]) /\ UNCHANGED sessions
    <3>1. proc[p].removal = <<"remove">>
      BY <1>2, <1>6 DEF RemoveAccount, Removals
    <3> QED BY <1>1, <1>6, <3>1 DEF Terminated, RemoveAccount
  <2>2. (\A q \in Processes \ {p} : proc'[q] = proc[q]) /\ proc'[p].cred = proc[p].cred
    BY <1>1, <1>6, GoesOnward DEF RemoveAccount, Dropped1, Step
  <2>3. \A q \in Processes : Terminated(proc[q])' => Terminated(proc[q]) /\ proc'[q].cred = proc[q].cred
    BY <2>1, <2>2
  <2> QED BY <1>1, <2>1, <2>3, EndedKeeps
<1> QED BY <1>4, <1>5, <1>6

LEMMA EndedMarking ==
  ASSUME CredentialsInv, Ended, engine = "postgres", NEW p \in Processes,
         MarkRevoked(p) \/ MarkFails(p) \/ (DropFails(p) /\ proc[p].does # "create")
  PROVE  Ended'
<1>1. proc[p] # Idle /\ UNCHANGED sessions
  BY DEF MarkRevoked, MarkFails, DropFails, Idle
<1>2. Sound(proc[p])
  BY <1>1, ProcessAt
<1>3. proc[p].does # "create" /\ GoesOn(p)
  BY <1>1, <1>2 DEF MarkRevoked, MarkFails, DropFails, Sound
<1>4. Takes(p)
  BY <1>1, <1>3, GoesOnTakes
<1>5. \A c \in Credential : rows'[c].state = "revoked" => rows[c].state = "revoked" \/ c \notin sessions
  BY <1>3, MarkingRows DEF Ended, Terminated, MarkRevoked, MarkFails, DropFails
<1> QED BY <1>1, <1>4, <1>5, EndedTakes

LEMMA EndedAround ==
  ASSUME CredentialsInv, Ended, Kept, engine = "postgres",
         (\E c \in Credential : Expires(c) \/ Connects(c)) \/ ServerDies \/ UNCHANGED credentialVars
  PROVE  Ended'
<1>1. CASE ServerDies
  BY <1>1, EndedKeeps DEF ServerDies, Terminated, Idle
<1>2. CASE UNCHANGED credentialVars
  BY <1>2, EndedKeeps DEF credentialVars, Terminated
<1>3. ASSUME NEW c \in Credential, Expires(c) PROVE Ended'
  <2>1. rows[c] \in CredentialRow
    BY <1>3 DEF Expires, Active, CredentialsInv, CredentialsTypeOK, NoCredential
  <2>2. UNCHANGED <<sessions, proc>> /\ \A d \in Credential : rows'[d].state = rows[d].state
    BY <1>3, <2>1 DEF Expires, CredentialsInv, CredentialsTypeOK, CredentialRow
  <2> QED BY <2>2, EndedKeeps DEF Terminated
<1>4. ASSUME NEW c \in Credential, Connects(c) PROVE Ended'
  <2>1. /\ rows[c].user \in Usernames /\ account[rows[c].user].login = "on" /\ owner[rows[c].user] = c
        /\ sessions' = sessions \cup {c} /\ UNCHANGED <<proc, rows>>
    BY <1>4 DEF Connects, CredentialsInv, CredentialsTypeOK, CredentialRow, NoCredential
  <2>2. rows[c].state # "revoked"
    BY <2>1 DEF CredentialsInv, RevokedStaysOut
  <2>3. ASSUME NEW q \in Processes, Terminated(proc[q]) PROVE proc[q].cred # c
    <3>1. proc[q] # Idle
      BY <2>3 DEF Terminated, Idle
    <3>2. Sound(proc[q]) /\ Removal(engine) # <<"remove">>
      BY <3>1, ProcessAt DEF Removal
    <3>3. Shut(proc[q].cred, proc[q].user) /\ proc[q].user = rows[proc[q].cred].user
      BY <2>3, <3>1, <3>2 DEF Sound, Terminated
    <3> QED BY <2>1, <3>3 DEF Shut
  <2> QED BY <2>1, <2>2, <2>3 DEF Ended, Terminated
<1> QED BY <1>1, <1>2, <1>3, <1>4

LEMMA EndedSteps ==
  ASSUME CredentialsInv, Kept, Ended, engine = "postgres", [CredentialsNext]_credentialVars
  PROVE  Ended'
<1>1. ASSUME NEW p \in Processes, Rotate(p) \/ Revoke(p) \/ ExpireDue(p) \/ RevokeAllForDatabase(p)
      PROVE  Ended'
  BY <1>1, BeginningTakes, EndedTakes
<1>2. ASSUME NEW p \in Processes, Terminate(p), proc[p].does = "create" PROVE Ended'
  <2>1. proc[p] # Idle
    BY <1>2 DEF Idle
  <2>2. (\A q \in Processes \ {p} : proc'[q] = proc[q]) /\ proc'[p].does = "create"
    BY <1>2, <2>1, GoesOnward DEF Terminate
  <2>3. sessions' \subseteq sessions /\ UNCHANGED rows
    BY <1>2 DEF Terminate
  <2> QED BY <2>2, <2>3, EndedKeeps DEF Terminated
<1> QED BY <1>1, <1>2, EndedCreating, EndedRemoving, EndedMarking, EndedAround DEF CredentialsNext, GoOn, Fails

LEMMA InitSessions == CredentialsInit => SessionsInv
<1> SUFFICES ASSUME CredentialsInit PROVE SessionsInv
  OBVIOUS
<1>1. \A c \in Credential : rows[c].state = "none"
  BY DEF CredentialsInit, NoCredential
<1>2. \A p \in Processes : proc[p].does = "nothing" /\ proc[p].step = "none"
  BY DEF CredentialsInit, Idle
<1> QED BY <1>1, <1>2 DEF SessionsInv, Kept, Ended, Making, Terminated, CredentialsInit

LEMMA NextSessions == CredentialsInv /\ SessionsInv /\ [CredentialsNext]_credentialVars => SessionsInv'
<1>1. [CredentialsNext]_credentialVars => UNCHANGED engine
  BY DEF CredentialsNext, GoOn, Fails, CreateCredential, Rotate, Revoke, ExpireDue, RevokeAllForDatabase, RevokeListed,
         CreateAccount, Grant, PutSecret, InsertRow, RotateAccount, Disable, Terminate, RemoveAccount, MarkRevoked,
         GrantFails, PutSecretFails, InsertFails, DropFails, MarkFails, Expires, Connects, ServerDies, credentialVars
<1> QED BY <1>1, KeptSteps, EndedSteps DEF SessionsInv

\* Where the account of a creation is not there yet, or is the process's own.
Left ==
  /\ failures \in Nat /\ deaths \in Nat
  /\ \A u \in Usernames : account[u].login = "on" => owner[u] # "none"
  /\ \A p \in Processes : At(p, "create", "account") => \A u \in Usernames : owner[u] # proc[p].cred
  /\ deaths = 0 => \A u \in Usernames, c \in Credential :
       account[u].login = "on" /\ owner[u] = c /\ rows[c].state = "none" => InCreation(c)

\* No account is made to log in, or given to another.
NoneOpened ==
  \A u \in Usernames : /\ account'[u].login = "on" => account[u].login = "on"
                       /\ owner'[u] = owner[u] \/ owner'[u] = "lost"

\* Of the statements of p only CREATE USER lets an account log in.
LEMMA OnlyCreationOpens ==
  ASSUME CredentialsInv, NEW p \in Processes,
         \/ Grant(p) \/ GrantFails(p) \/ RotateAccount(p) \/ Disable(p) \/ RemoveAccount(p) \/ DropFails(p)
  PROVE  NoneOpened
<1>1. proc[p] # Idle
  BY DEF Grant, GrantFails, RotateAccount, Disable, RemoveAccount, DropFails, At, Idle
<1>2. CredentialsTypeOK /\ proc[p].user \in Usernames /\ account[proc[p].user] \in AccountRow
  BY <1>1, ProcessAt DEF CredentialsTypeOK
<1>3. CASE DropFails(p)
  BY <1>2, <1>3 DEF DropFails, NoneOpened, CredentialsTypeOK
<1>4. CASE ~DropFails(p)
  <2>1. UNCHANGED owner /\ \A u \in Usernames \ {proc[p].user} : account'[u] = account[u]
    BY <1>2, <1>4 DEF Grant, GrantFails, RotateAccount, Disable, RemoveAccount, CredentialsTypeOK
  <2>2. account'[proc[p].user].login = "on" => account[proc[p].user].login = "on"
    <3>1. CASE Grant(p)
      BY <1>2, <3>1 DEF Grant, Granted, CredentialsTypeOK, AccountRow
    <3>2. CASE GrantFails(p)
      BY <1>2, <3>2 DEF GrantFails, CredentialsTypeOK, AccountRow
    <3>3. CASE RotateAccount(p)
      BY <1>2, <3>3 DEF RotateAccount, Rotated, CredentialsTypeOK, AccountRow
    <3>4. CASE Disable(p)
      BY <1>2, <3>4 DEF Disable, Disabled, CredentialsTypeOK, AccountRow
    <3>5. CASE RemoveAccount(p)
      BY <1>2, <3>5 DEF RemoveAccount, Removed, NoAccount, CredentialsTypeOK, AccountRow
    <3> QED BY <1>4, <3>1, <3>2, <3>3, <3>4, <3>5
  <2> QED BY <2>1, <2>2 DEF NoneOpened
<1> QED BY <1>3, <1>4

LEMMA LeftKeeps ==
  ASSUME Left, CredentialsInv, NoneOpened, failures' \in Nat, UNCHANGED deaths,
         \A c \in Credential : rows'[c].state = "none" => rows[c].state = "none",
         \A q \in Processes : At(q, "create", "account")' =>
           \/ At(q, "create", "account") /\ proc'[q].cred = proc[q].cred
           \/ \A u \in Usernames : owner[u] # proc'[q].cred,
         \A q \in Processes : At(q, "create", "account")' => proc'[q].cred \in Credential,
         \A c \in Credential : InCreation(c) =>
           \/ InCreation(c)' \/ rows'[c].state # "none"
           \/ \A u \in Usernames : owner'[u] = c => account'[u].login # "on"
  PROVE  Left'
<1>1. "lost" \notin Credential
  BY CredentialsAssumption DEF CredentialsAssumption
<1> QED BY <1>1 DEF Left, NoneOpened

\* p has not created, and does not.
LEMMA LeftTakes ==
  ASSUME Left, CredentialsInv, NoneOpened, failures' \in Nat, UNCHANGED deaths,
         \A c \in Credential : rows'[c].state = "none" => rows[c].state = "none",
         NEW p \in Processes, Takes(p),
         proc[p].does = "create" =>
           \/ rows'[proc[p].cred].state # "none"
           \/ \A u \in Usernames : owner'[u] = proc[p].cred => account'[u].login # "on"
  PROVE  Left'
<1>1. \A q \in Processes : At(q, "create", "account")' =>
        q # p /\ proc'[q] = proc[q] /\ At(q, "create", "account") /\ proc'[q].cred \in Credential
  <2>1. \A q \in Processes : At(q, "create", "account")' => q # p /\ proc'[q] = proc[q]
    BY DEF Takes, At, Idle
  <2>2. \A q \in Processes : At(q, "create", "account") => proc[q].cred \in Credential
    BY ProcessAt DEF At, Idle
  <2> QED BY <2>1, <2>2 DEF At
<1>2. \A c \in Credential : InCreation(c) => InCreation(c)' \/ (proc[p].does = "create" /\ proc[p].cred = c)
  BY DEF InCreation, Takes
<1> QED BY <1>1, <1>2, LeftKeeps

\* p goes on with its credential.
LEMMA LeftOnward ==
  ASSUME Left, CredentialsInv, NoneOpened, failures' \in Nat, UNCHANGED deaths,
         \A c \in Credential : rows'[c].state = "none" => rows[c].state = "none",
         NEW p \in Processes, \A q \in Processes \ {p} : proc'[q] = proc[q],
         proc'[p].does = proc[p].does, proc'[p].cred = proc[p].cred, proc'[p].step # "account"
  PROVE  Left'
<1>1. \A q \in Processes : At(q, "create", "account")' =>
        q # p /\ proc'[q] = proc[q] /\ At(q, "create", "account") /\ proc'[q].cred \in Credential
  <2>1. \A q \in Processes : At(q, "create", "account")' => q # p /\ proc'[q] = proc[q]
    BY DEF At
  <2>2. \A q \in Processes : At(q, "create", "account") => proc[q].cred \in Credential
    BY ProcessAt DEF At, Idle
  <2> QED BY <2>1, <2>2 DEF At
<1>2. \A c \in Credential : InCreation(c) => InCreation(c)'
  BY DEF InCreation
<1> QED BY <1>1, <1>2, LeftKeeps

LEMMA LeftCreating ==
  ASSUME CredentialsInv, Left, NEW p \in Processes,
         \/ Grant(p) \/ GrantFails(p) \/ PutSecret(p) \/ PutSecretFails(p) \/ InsertRow(p) \/ InsertFails(p)
         \/ RotateAccount(p)
  PROVE  Left'
<1>1. proc[p] # Idle
  BY DEF Grant, GrantFails, PutSecret, PutSecretFails, InsertRow, InsertFails, RotateAccount, At, Idle
<1>2. CredentialsTypeOK /\ proc[p].cred \in Credential
  BY <1>1, ProcessAt
<1>3. NoneOpened
  BY OnlyCreationOpens DEF NoneOpened, PutSecret, PutSecretFails, InsertRow, InsertFails
<1>4. failures' \in Nat /\ UNCHANGED deaths
  BY DEF Left, Failure, Grant, GrantFails, PutSecret, PutSecretFails, InsertRow, InsertFails, RotateAccount
<1>5. CASE InsertRow(p)
  <2>1. Takes(p) /\ rows'[proc[p].cred].state = "active" /\ \A c \in Credential \ {proc[p].cred} : rows'[c] = rows[c]
    BY <1>2, <1>5, Ends DEF InsertRow, CredentialsTypeOK
  <2> QED BY <1>3, <1>4, <2>1, LeftTakes
<1>6. CASE ~InsertRow(p)
  <2>1. UNCHANGED rows
    BY <1>6 DEF Grant, GrantFails, PutSecret, PutSecretFails, InsertFails, RotateAccount
  <2>2. CASE proc[p].does = "rotate" /\ proc' = [proc EXCEPT ![p] = Idle]
    BY <1>3, <1>4, <2>1, <2>2, Ends, LeftTakes
  <2>3. ASSUME NEW step \in {"secret", "row"}, Step(p, step) PROVE Left'
    <3>1. /\ \A q \in Processes \ {p} : proc'[q] = proc[q]
          /\ proc'[p].does = proc[p].does /\ proc'[p].cred = proc[p].cred /\ proc'[p].step # "account"
      BY <1>1, <2>3, GoesOnward DEF Step
    <3> QED BY <1>3, <1>4, <2>1, <3>1, LeftOnward
  <2>4. CASE Undo(p)
    <3>1. /\ \A q \in Processes \ {p} : proc'[q] = proc[q]
          /\ proc'[p].does = proc[p].does /\ proc'[p].cred = proc[p].cred /\ proc'[p].step # "account"
      BY <1>1, <2>4, GoesOnward DEF Undo
    <3> QED BY <1>3, <1>4, <2>1, <3>1, LeftOnward
  <2> QED BY <1>6, <2>2, <2>3, <2>4 DEF Grant, GrantFails, PutSecret, PutSecretFails, InsertFails, RotateAccount, At
<1> QED BY <1>5, <1>6

\* A removal that ends a creation has shut the account, or says that it is lost.
LEMMA LeftRemoving ==
  ASSUME CredentialsInv, Left, NEW p \in Processes,
         Disable(p) \/ Terminate(p) \/ RemoveAccount(p) \/ DropFails(p) \/ MarkRevoked(p) \/ MarkFails(p)
  PROVE  Left'
<1>1. proc[p] # Idle /\ proc[p].step \in {"drop", "mark"}
  BY DEF Disable, Terminate, RemoveAccount, DropFails, MarkRevoked, MarkFails, Idle
<1>2. /\ Sound(proc[p]) /\ CredentialsTypeOK /\ proc[p].cred \in Credential /\ proc[p].user \in Usernames
      /\ account[proc[p].user] \in AccountRow
  BY <1>1, ProcessAt DEF CredentialsTypeOK
<1>3. NoneOpened
  BY OnlyCreationOpens DEF NoneOpened, Terminate, MarkRevoked, MarkFails
<1>4. failures' \in Nat /\ UNCHANGED deaths
  BY DEF Left, Failure, Disable, Terminate, RemoveAccount, DropFails, MarkRevoked, MarkFails
<1>5. \A c \in Credential : rows'[c].state = "none" => rows[c].state = "none"
  BY MarkingRows DEF RowsSame, Disable, Terminate, RemoveAccount, DropFails, MarkFails
<1>6. CASE Disable(p) \/ Terminate(p)
  <2>1. /\ \A q \in Processes \ {p} : proc'[q] = proc[q]
        /\ proc'[p].does = proc[p].does /\ proc'[p].cred = proc[p].cred /\ proc'[p].step = "drop"
    <3>1. proc[p].step = "drop" /\ \E r : proc' = [proc EXCEPT ![p].removal = r]
      BY <1>6 DEF Disable, Terminate
    <3> QED BY <1>1, <3>1, GoesOnward
  <2> QED BY <1>3, <1>4, <1>5, <2>1, LeftOnward
<1>7. CASE MarkRevoked(p) \/ MarkFails(p) \/ (DropFails(p) /\ proc[p].does # "create")
  <2>1. proc[p].does # "create" /\ GoesOn(p)
    BY <1>1, <1>2, <1>7 DEF MarkRevoked, MarkFails, DropFails, Sound
  <2> QED BY <1>1, <1>3, <1>4, <1>5, <2>1, GoesOnTakes, LeftTakes
<1>8. CASE DropFails(p) /\ proc[p].does = "create"
  <2>1. Takes(p) /\ owner'[proc[p].user] = "lost" /\ \A u \in Usernames \ {proc[p].user} : owner'[u] = owner[u]
    BY <1>2, <1>8, Ends DEF DropFails, CredentialsTypeOK
  <2>2. \A u \in Usernames : owner'[u] # proc[p].cred
    BY <1>2, <1>8, <2>1, CredentialsAssumption DEF CredentialsAssumption, CredentialsInv, Made
  <2> QED BY <1>3, <1>4, <1>5, <2>1, <2>2, LeftTakes
<1>9. CASE RemoveAccount(p)
  <2>1. CASE proc[p].does # "create"
    <3>1. /\ \A q \in Processes \ {p} : proc'[q] = proc[q]
          /\ proc'[p].does = proc[p].does /\ proc'[p].cred = proc[p].cred /\ proc'[p].step = "mark"
      BY <1>1, <1>9, <2>1, GoesOnward DEF RemoveAccount, Dropped1, Step
    <3> QED BY <1>3, <1>4, <1>5, <3>1, LeftOnward
  <2>2. CASE proc[p].does = "create"
    <3>1. Takes(p) /\ UNCHANGED owner
      BY <1>9, <2>2, Ends DEF RemoveAccount, Dropped1
    <3>2. Shut(proc[p].cred, proc[p].user) \/ engine = "mysql"
      BY <1>1, <1>2, <1>9, RemovalSteps DEF RemoveAccount, Sound, CredentialsTypeOK
    <3>3. engine = "mysql" => account'[proc[p].user].login # "on"
      BY <1>2, <1>9 DEF RemoveAccount, Removed, NoAccount, CredentialsTypeOK
    <3>4. \A u \in Usernames : owner'[u] = proc[p].cred => account'[u].login # "on"
      BY <1>2, <1>3, <2>2, <3>1, <3>2, <3>3 DEF NoneOpened, Shut, CredentialsInv, Made
    <3> QED BY <1>3, <1>4, <1>5, <3>1, <3>4, LeftTakes
  <2> QED BY <2>1, <2>2
<1> QED BY <1>6, <1>7, <1>8, <1>9

LEMMA LeftCreated ==
  ASSUME CredentialsInv, Left, NEW p \in Processes, CreateAccount(p)
  PROVE  Left'
<1>1. proc[p] # Idle /\ proc[p].does = "create" /\ UNCHANGED <<rows, failures, deaths>>
  BY DEF CreateAccount, At, Idle
<1>2. CredentialsTypeOK /\ proc[p].user \in Usernames /\ proc[p].cred \in Credential
  BY <1>1, ProcessAt
<1>3. CASE Exists(account[proc[p].user])
  <2>1. Takes(p) /\ UNCHANGED <<account, owner>>
    BY <1>3, Ends DEF CreateAccount
  <2>2. NoneOpened /\ \A u \in Usernames : owner'[u] # proc[p].cred
    BY <2>1 DEF NoneOpened, Left, CreateAccount
  <2> QED BY <1>1, <2>1, <2>2, LeftTakes DEF Left
<1>4. CASE ~Exists(account[proc[p].user])
  <2>1. /\ \A q \in Processes \ {p} : proc'[q] = proc[q]
        /\ proc'[p].does = "create" /\ proc'[p].cred = proc[p].cred /\ proc'[p].step = "grant"
    BY <1>1, <1>4, GoesOnward DEF CreateAccount, Step
  <2>2. /\ owner'[proc[p].user] = proc[p].cred
        /\ \A u \in Usernames \ {proc[p].user} : account'[u] = account[u] /\ owner'[u] = owner[u]
    BY <1>2, <1>4 DEF CreateAccount, CredentialsTypeOK, Created
  <2>3. \A q \in Processes : At(q, "create", "account")' =>
          q # p /\ proc'[q] = proc[q] /\ At(q, "create", "account") /\ proc[q].cred # proc[p].cred
    <3>1. \A q \in Processes : At(q, "create", "account")' => q # p /\ proc'[q] = proc[q]
      BY <2>1 DEF At
    <3> QED BY <1>1, <3>1 DEF At, CredentialsInv, OneCreator
  <2>4. \A c \in Credential : InCreation(c) => InCreation(c)'
    BY <2>1 DEF InCreation
  <2>5. \A c \in Credential : c = proc[p].cred => InCreation(c)'
    BY <2>1 DEF InCreation
  <2>6. "none" \notin Credential
    BY CredentialsAssumption DEF CredentialsAssumption
  <2>7. \A u \in Usernames : account'[u].login = "on" => owner'[u] # "none"
    BY <1>2, <2>2, <2>6 DEF Left
  <2>8. \A q \in Processes : At(q, "create", "account")' => \A u \in Usernames : owner'[u] # proc'[q].cred
    BY <2>2, <2>3 DEF Left
  <2>9. deaths = 0 => \A u \in Usernames, c \in Credential :
          account'[u].login = "on" /\ owner'[u] = c /\ rows[c].state = "none" => InCreation(c)'
    BY <2>2, <2>4, <2>5 DEF Left
  <2> QED BY <1>1, <2>7, <2>8, <2>9 DEF Left
<1> QED BY <1>3, <1>4

LEMMA LeftBeginnings ==
  ASSUME CredentialsInv, Left, NEW p \in Processes,
         CreateCredential(p) \/ Rotate(p) \/ Revoke(p) \/ ExpireDue(p) \/ RevokeAllForDatabase(p)
  PROVE  Left'
<1>1. CASE CreateCredential(p)
  <2>1. UNCHANGED <<account, owner, rows, failures, deaths>> /\ proc[p] = Idle
    BY <1>1 DEF CreateCredential
  <2>2. /\ \A q \in Processes \ {p} : proc'[q] = proc[q]
        /\ proc'[p].cred \in Credential /\ \A u \in Usernames : owner[u] # proc'[p].cred
    BY <1>1 DEF CreateCredential, CredentialsInv, CredentialsTypeOK, Idle
  <2>3. \A q \in Processes : At(q, "create", "account")' => proc'[q].cred \in Credential
    BY <2>2, ProcessAt DEF At, Idle
  <2>4. \A q \in Processes : At(q, "create", "account")' =>
          \/ At(q, "create", "account") /\ proc'[q].cred = proc[q].cred
          \/ \A u \in Usernames : owner[u] # proc'[q].cred
    BY <2>2 DEF At
  <2>5. \A c \in Credential : InCreation(c) => InCreation(c)'
    BY <2>1, <2>2 DEF InCreation, Idle
  <2> QED BY <2>1, <2>3, <2>4, <2>5, LeftKeeps DEF Left, NoneOpened
<1>2. CASE ~CreateCredential(p)
  <2>1. Takes(p) /\ UNCHANGED <<account, owner, rows, failures, deaths>>
    BY <1>2, BeginningTakes
  <2>2. proc[p] = Idle
    BY <1>2 DEF Rotate, Revoke, ExpireDue, RevokeAllForDatabase, RevokeListed
  <2>3. Idle.does # "create"
    BY DEF Idle
  <2> QED BY <2>1, <2>2, <2>3, LeftTakes DEF Left, NoneOpened
<1> QED BY <1>1, <1>2

LEMMA LeftAround ==
  ASSUME CredentialsInv, Left,
         (\E c \in Credential : Expires(c) \/ Connects(c)) \/ ServerDies \/ UNCHANGED credentialVars
  PROVE  Left'
<1>1. CASE ServerDies
  <2>1. UNCHANGED <<account, owner, failures>> /\ \A q \in Processes : ~At(q, "create", "account")'
    BY <1>1 DEF ServerDies, At, Idle
  <2>2. deaths' \in Nat /\ deaths' # 0
    BY <1>1 DEF ServerDies, Left
  <2> QED BY <2>1, <2>2 DEF Left
<1>2. CASE UNCHANGED credentialVars
  BY <1>2 DEF credentialVars, Left, At, InCreation
<1>3. ASSUME NEW c \in Credential, Expires(c) \/ Connects(c) PROVE Left'
  <2>1. UNCHANGED <<account, owner, proc, failures, deaths>>
    BY <1>3 DEF Expires, Connects
  <2>2. \A d \in Credential : rows'[d].state = rows[d].state
    <3>1. CASE Expires(c)
      <4>1. rows[c] \in CredentialRow
        BY <3>1 DEF Expires, Active, CredentialsInv, CredentialsTypeOK, NoCredential
      <4> QED BY <3>1, <4>1 DEF Expires, CredentialsInv, CredentialsTypeOK, CredentialRow
    <3> QED BY <1>3, <3>1 DEF Connects
  <2> QED BY <2>1, <2>2 DEF Left, At, InCreation
<1> QED BY <1>1, <1>2, <1>3

LEMMA LeftSteps == CredentialsInv /\ Left /\ [CredentialsNext]_credentialVars => Left'
BY LeftCreating, LeftRemoving, LeftCreated, LeftBeginnings, LeftAround DEF CredentialsNext, GoOn, Fails

LEMMA InitLeft == CredentialsInit => Left
<1> SUFFICES ASSUME CredentialsInit PROVE Left
  OBVIOUS
<1>1. \A p \in Processes : proc[p].does = "nothing"
  BY DEF CredentialsInit, Idle
<1>2. \A u \in Usernames : account[u].login = "none"
  BY DEF CredentialsInit, NoAccount
<1> QED BY <1>1, <1>2 DEF Left, At, CredentialsInit

LEMMA NothingIsLeftOver == CredentialsInv /\ Left => NothingLeft
<1> SUFFICES ASSUME CredentialsInv, Left, deaths = 0,
                    NEW u \in Usernames, account[u].login = "on", owner[u] # "lost"
             PROVE  Active(owner[u]) \/ \E p \in Processes : proc[p].cred = owner[u]
  BY DEF NothingLeft
<1>1. owner[u] \in Credential
  BY DEF Left, CredentialsInv, CredentialsTypeOK
<1>2. rows[owner[u]].state # "revoked"
  BY <1>1 DEF CredentialsInv, RevokedStaysOut
<1>3. rows[owner[u]].state \in {"none", "active", "revoked"}
  BY <1>1 DEF CredentialsInv, CredentialsTypeOK, CredentialRow, NoCredential
<1>4. rows[owner[u]].state = "none" => \E p \in Processes : proc[p].cred = owner[u]
  BY <1>1 DEF Left, InCreation
<1> QED BY <1>2, <1>3, <1>4 DEF Active

\* Who revokes c has begun; the account of u is, or may be, gone with what was revoked.
Withdrawn(c) ==
  \E p \in Processes : proc[p].does # "create" /\ proc[p].step \in {"drop", "mark"} /\ proc[p].cred = c

GivenUp(u) ==
  \E c \in Credential :
    rows[c].user = u /\ (rows[c].state = "revoked" \/ (Active(c) /\ Withdrawn(c)))

OneInUse == \A c, d \in Credential : Active(c) /\ Active(d) /\ rows[c].user = rows[d].user => c = d

Working ==
  /\ \A c \in Credential : Active(c) =>
       GivenUp(rows[c].user) \/ (owner[rows[c].user] = c /\ account[rows[c].user].login = "on")
  /\ \A p \in Processes : Making(proc[p]) =>
       \/ GivenUp(proc[p].user)
       \/ /\ Holds(proc[p].cred, proc[p].user)
          /\ proc[p].step # "drop" => account[proc[p].user].login = "on"

LoginsInv == OneInUse /\ (failures = 0 /\ deaths = 0 => Working)

\* What is in use was so before, and what was given up remains so.
InUseBefore == \A c \in Credential : Active(c)' => Active(c) /\ rows'[c].user = rows[c].user
GivenUpBefore == \A u \in Usernames : GivenUp(u) => GivenUp(u)'

\* Who makes an account made it before.
MakingBefore(q) ==
  Making(proc[q])' =>
    /\ Making(proc[q]) /\ proc'[q].cred = proc[q].cred /\ proc'[q].user = proc[q].user
    /\ proc'[q].step # "drop" => proc[q].step # "drop"

Untouched(u) == owner'[u] = owner[u] /\ account'[u].login = account[u].login

LEMMA InUseOnce ==
  ASSUME OneInUse, InUseBefore
  PROVE  OneInUse'
BY DEF OneInUse, InUseBefore

LEMMA UsersKnown ==
  ASSUME CredentialsInv
  PROVE  /\ \A c \in Credential : rows[c].state # "none" => rows[c].user \in Usernames
         /\ \A c \in Credential : Active(c) => rows[c].user \in Usernames
         /\ \A q \in Processes : Making(proc[q]) => proc[q].user \in Usernames /\ proc[q].cred \in Credential
<1>1. \A c \in Credential : rows[c].state # "none" => rows[c].user \in Usernames
  BY DEF CredentialsInv, CredentialsTypeOK, CredentialRow, NoCredential
<1>2. \A q \in Processes : Making(proc[q]) => proc[q] # Idle
  BY DEF Making, Idle
<1> QED BY <1>1, <1>2, ProcessAt DEF Active

LEMMA WorkingKeeps ==
  ASSUME CredentialsInv, Working, GivenUpBefore, InUseBefore,
         \A u \in Usernames : GivenUp(u)' \/ Untouched(u),
         \A q \in Processes : MakingBefore(q)
  PROVE  Working'
<1>1. ASSUME NEW c \in Credential, Active(c)', NEW u, u = rows'[c].user
      PROVE  GivenUp(u)' \/ (owner'[u] = c /\ account'[u].login = "on")
  <2>1. Active(c) /\ rows[c].user = u /\ u \in Usernames
    BY <1>1, UsersKnown DEF InUseBefore
  <2> QED BY <2>1 DEF Working, GivenUpBefore, Untouched
<1>2. ASSUME NEW q \in Processes, Making(proc[q])', NEW u, u = proc'[q].user
      PROVE  \/ GivenUp(u)'
             \/ /\ Holds(proc[q].cred, proc[q].user)'
                /\ proc'[q].step # "drop" => account'[u].login = "on"
  <2>1. Making(proc[q]) /\ proc[q].user = u /\ u \in Usernames /\ proc'[q].cred = proc[q].cred
    BY <1>2, UsersKnown DEF MakingBefore
  <2> QED BY <1>2, <2>1 DEF Working, GivenUpBefore, Untouched, MakingBefore, Holds, Exists
<1>3. ASSUME NEW c \in Credential, Active(c)'
      PROVE  (GivenUp(rows[c].user) \/ (owner[rows[c].user] = c /\ account[rows[c].user].login = "on"))'
  BY <1>1, <1>3
<1>4. ASSUME NEW q \in Processes, Making(proc[q])'
      PROVE  (\/ GivenUp(proc[q].user)
              \/ /\ Holds(proc[q].cred, proc[q].user)
                 /\ proc[q].step # "drop" => account[proc[q].user].login = "on")'
  BY <1>2, <1>4
<1> QED BY <1>3, <1>4 DEF Working

\* Revocations go on until the row is marked.
LEMMA GivenUpKeeps ==
  ASSUME \A c \in Credential : rows[c].state = "revoked" => rows'[c].state = "revoked" /\ rows'[c].user = rows[c].user,
         \A c \in Credential : Active(c) =>
           rows'[c].user = rows[c].user /\ (rows'[c].state = "revoked" \/ (Active(c)' /\ (Withdrawn(c) => Withdrawn(c)')))
  PROVE  GivenUpBefore
BY DEF GivenUpBefore, GivenUp

LEMMA WithdrawnStays ==
  ASSUME NEW p \in Processes, \A q \in Processes \ {p} : proc'[q] = proc[q],
         \/ proc[p].does = "create" \/ proc[p].step \notin {"drop", "mark"}
         \/ proc'[p].does = proc[p].does /\ proc'[p].cred = proc[p].cred /\ proc'[p].step \in {"drop", "mark"}
  PROVE  \A c \in Credential : Withdrawn(c) => Withdrawn(c)'
BY DEF Withdrawn

\* Steps that change no login and no row.
LEMMA WorkingPlain ==
  ASSUME CredentialsInv, OneInUse, Working, UNCHANGED rows, \A u \in Usernames : Untouched(u),
         NEW p \in Processes, \A q \in Processes \ {p} : proc'[q] = proc[q],
         \/ proc[p].does = "create" \/ proc[p].step \notin {"drop", "mark"}
         \/ proc'[p].does = proc[p].does /\ proc'[p].cred = proc[p].cred /\ proc'[p].step \in {"drop", "mark"},
         MakingBefore(p)
  PROVE  OneInUse' /\ Working'
<1>1. \A c \in Credential : Active(c)' <=> Active(c)
  BY DEF Active
<1>2. GivenUpBefore
  BY <1>1, WithdrawnStays, GivenUpKeeps
<1>3. InUseBefore /\ \A q \in Processes : MakingBefore(q)
  BY <1>1 DEF InUseBefore, MakingBefore, Making
<1> QED BY <1>2, <1>3, WorkingKeeps, InUseOnce

LEMMA LoginsOfCreations ==
  ASSUME CredentialsInv, OneInUse, Working, failures = 0, failures' = 0, NEW p \in Processes,
         Grant(p) \/ GrantFails(p) \/ PutSecret(p) \/ PutSecretFails(p) \/ InsertFails(p) \/ RotateAccount(p)
  PROVE  OneInUse' /\ Working'
<1>1. proc[p] # Idle
  BY DEF Grant, GrantFails, PutSecret, PutSecretFails, InsertFails, RotateAccount, At, Idle
<1>2. CredentialsTypeOK /\ proc[p].user \in Usernames /\ account[proc[p].user] \in AccountRow /\ proc[p] \in AtTask
  BY <1>1, ProcessAt DEF CredentialsTypeOK
<1>3. UNCHANGED rows /\ ~GrantFails(p) /\ ~PutSecretFails(p)
  BY DEF Failure, Grant, GrantFails, PutSecret, PutSecretFails, InsertFails, RotateAccount
<1>4. \A u \in Usernames : Untouched(u)
  <2>1. CASE Grant(p)
    BY <1>2, <2>1 DEF Grant, Granted, Untouched, CredentialsTypeOK, AccountRow
  <2>2. CASE RotateAccount(p)
    BY <1>2, <2>2 DEF RotateAccount, Rotated, Untouched, CredentialsTypeOK, AccountRow
  <2>3. CASE PutSecret(p) \/ InsertFails(p)
    BY <2>3 DEF PutSecret, InsertFails, Untouched
  <2> QED BY <1>3, <2>1, <2>2, <2>3
<1>5. proc[p].step \in {"account", "grant", "secret", "row"} /\ (proc[p].does = "create" => Making(proc[p]))
  BY DEF Grant, GrantFails, PutSecret, PutSecretFails, InsertFails, RotateAccount, At, Making
<1>6. CASE proc' = [proc EXCEPT ![p] = Idle]
  <2>1. (\A q \in Processes \ {p} : proc'[q] = proc[q]) /\ MakingBefore(p)
    BY <1>6, Ends DEF MakingBefore, Making, Idle
  <2> QED BY <1>3, <1>4, <1>5, <2>1, WorkingPlain
<1>7. ASSUME NEW step \in {"secret", "row"}, Step(p, step) PROVE OneInUse' /\ Working'
  <2>1. (\A q \in Processes \ {p} : proc'[q] = proc[q]) /\ MakingBefore(p)
    BY <1>1, <1>5, <1>7, GoesOnward DEF Step, MakingBefore, Making
  <2> QED BY <1>3, <1>4, <1>5, <2>1, WorkingPlain
<1>8. CASE Undo(p)
  <2>1. (\A q \in Processes \ {p} : proc'[q] = proc[q]) /\ MakingBefore(p)
    BY <1>1, <1>5, <1>8, GoesOnward DEF Undo, MakingBefore, Making
  <2> QED BY <1>3, <1>4, <1>5, <2>1, WorkingPlain
<1> QED BY <1>3, <1>6, <1>7, <1>8 DEF Grant, PutSecret, InsertFails, RotateAccount

LEMMA LoginsBegin ==
  ASSUME CredentialsInv, OneInUse, Working, NEW p \in Processes,
         CreateCredential(p) \/ Rotate(p) \/ Revoke(p) \/ ExpireDue(p) \/ RevokeAllForDatabase(p)
  PROVE  OneInUse' /\ Working'
<1>1. UNCHANGED <<account, owner, rows>> /\ proc[p] = Idle
  BY DEF CreateCredential, Rotate, Revoke, ExpireDue, RevokeAllForDatabase, RevokeListed
<1>2. (\A q \in Processes \ {p} : proc'[q] = proc[q]) /\ MakingBefore(p)
  <2>1. CASE CreateCredential(p)
    BY <2>1 DEF CreateCredential, CredentialsInv, CredentialsTypeOK, MakingBefore, Making, Idle
  <2>2. CASE ~CreateCredential(p)
    BY <2>2, BeginningTakes DEF Takes, MakingBefore, Making, Idle
  <2> QED BY <2>1, <2>2
<1>3. proc[p].step \notin {"drop", "mark"} /\ \A u \in Usernames : Untouched(u)
  BY <1>1 DEF Idle, Untouched
<1> QED BY <1>1, <1>2, <1>3, WorkingPlain

\* A removal touches the account of what is given up, or of the creation it undoes.
LEMMA LoginsRemove ==
  ASSUME CredentialsInv, OneInUse, Working, NEW p \in Processes,
         Disable(p) \/ Terminate(p) \/ RemoveAccount(p)
  PROVE  OneInUse' /\ Working'
<1>1. proc[p] # Idle /\ proc[p].step = "drop" /\ UNCHANGED <<rows, owner>>
  BY DEF Disable, Terminate, RemoveAccount, Idle
<1>2. /\ Sound(proc[p]) /\ CredentialsTypeOK /\ proc[p].cred \in Credential /\ proc[p].user \in Usernames
      /\ account[proc[p].user] \in AccountRow
  BY <1>1, ProcessAt DEF CredentialsTypeOK
<1>3. \A u \in Usernames \ {proc[p].user} : Untouched(u)
  BY <1>1, <1>2 DEF Disable, Terminate, RemoveAccount, Untouched, CredentialsTypeOK
<1>4. \A q \in Processes \ {p} : proc'[q] = proc[q]
  BY <1>2 DEF Disable, Terminate, RemoveAccount, Dropped1, Step, CredentialsTypeOK
<1>5. \/ proc[p].does = "create" /\ proc'[p] = Idle /\ RemoveAccount(p)
      \/ /\ proc'[p].does = proc[p].does /\ proc'[p].cred = proc[p].cred /\ proc'[p].user = proc[p].user
         /\ proc'[p].step = "drop" \/ (proc[p].does # "create" /\ proc'[p].step = "mark")
         /\ RemoveAccount(p) => proc[p].does # "create"
  <2>1. CASE Disable(p) \/ Terminate(p)
    <3>1. \E r : proc' = [proc EXCEPT ![p].removal = r]
      BY <2>1 DEF Disable, Terminate
    <3>2. ~RemoveAccount(p)
      BY <2>1 DEF Disable, Terminate, RemoveAccount
    <3> QED BY <1>1, <3>1, <3>2, GoesOnward
  <2>2. CASE RemoveAccount(p) /\ proc[p].does = "create"
    BY <2>2, Ends DEF RemoveAccount, Dropped1
  <2>3. CASE RemoveAccount(p) /\ proc[p].does # "create"
    BY <1>1, <2>3, GoesOnward DEF RemoveAccount, Dropped1, Step
  <2> QED BY <2>1, <2>2, <2>3
<1>6. MakingBefore(p) /\ \A q \in Processes \ {p} : MakingBefore(q)
  BY <1>1, <1>4, <1>5 DEF MakingBefore, Making, Idle
<1>7. InUseBefore
  BY <1>1 DEF InUseBefore, Active
<1>8. \A c \in Credential : Withdrawn(c) => Withdrawn(c)'
  BY <1>4, <1>5, WithdrawnStays
<1>9. GivenUpBefore
  BY <1>1, <1>8, GivenUpKeeps DEF Active
<1>10. CASE proc[p].does # "create"
  <2>1. Withdrawn(proc[p].cred) /\ rows[proc[p].cred].user = proc[p].user
    BY <1>1, <1>2, <1>10 DEF Withdrawn, Sound
  <2>2. rows[proc[p].cred].state \in {"active", "revoked"}
    BY <1>1, <1>2, <1>10 DEF Sound, CredentialsTypeOK, CredentialRow, NoCredential
  <2>3. GivenUp(proc[p].user)
    BY <1>2, <2>1, <2>2 DEF GivenUp, Active
  <2>4. \A u \in Usernames : u = proc[p].user => GivenUp(u)'
    BY <1>9, <2>3 DEF GivenUpBefore
  <2> QED BY <1>3, <1>6, <1>7, <1>9, <2>4, WorkingKeeps, InUseOnce
<1>11. CASE proc[p].does = "create" /\ GivenUp(proc[p].user)
  <2>1. \A u \in Usernames : u = proc[p].user => GivenUp(u)'
    BY <1>2, <1>9, <1>11 DEF GivenUpBefore
  <2> QED BY <1>3, <1>6, <1>7, <1>9, <2>1, WorkingKeeps, InUseOnce
<1>12. CASE proc[p].does = "create" /\ ~GivenUp(proc[p].user)
  <2>1. Making(proc[p])
    BY <1>1, <1>12 DEF Making
  <2>2. Holds(proc[p].cred, proc[p].user) /\ rows[proc[p].cred].state = "none"
    BY <1>1, <1>2, <1>12, <2>1 DEF Working, Sound
  <2>3. ASSUME NEW c \in Credential, Active(c)', NEW u, u = rows'[c].user
        PROVE  GivenUp(u)' \/ (owner'[u] = c /\ account'[u].login = "on")
    <3>1. Active(c) /\ rows[c].user = u /\ u \in Usernames /\ c # proc[p].cred
      BY <1>7, <2>2, <2>3, UsersKnown DEF InUseBefore, Active
    <3>2. GivenUp(u) \/ (owner[u] = c /\ account[u].login = "on")
      BY <3>1 DEF Working
    <3>3. GivenUp(u) => GivenUp(u)'
      BY <1>9, <3>1 DEF GivenUpBefore
    <3>4. owner[u] = c => u # proc[p].user
      BY <2>2, <3>1 DEF Holds
    <3> QED BY <1>3, <3>1, <3>2, <3>3, <3>4 DEF Untouched
  <2>4. ASSUME NEW q \in Processes, Making(proc[q])', NEW u, u = proc'[q].user
        PROVE  \/ GivenUp(u)'
               \/ /\ Holds(proc[q].cred, proc[q].user)'
                  /\ proc'[q].step # "drop" => account'[u].login = "on"
    <3>1. Making(proc[q]) /\ proc[q].user = u /\ u \in Usernames /\ proc'[q].cred = proc[q].cred
      BY <1>6, <2>4, UsersKnown DEF MakingBefore
    <3>2. GivenUp(u) => GivenUp(u)'
      BY <1>9, <3>1 DEF GivenUpBefore
    <3>3. CASE q # p
      <4>1. proc[q].cred # proc[p].cred /\ proc'[q] = proc[q]
        BY <1>4, <2>1, <3>1, <3>3 DEF Making, CredentialsInv, OneCreator
      <4>2. GivenUp(u) \/ (Holds(proc[q].cred, u) /\ (proc[q].step # "drop" => account[u].login = "on"))
        BY <3>1 DEF Working
      <4>3. Holds(proc[q].cred, u) => u # proc[p].user
        BY <2>2, <4>1 DEF Holds
      <4> QED BY <1>3, <2>4, <3>1, <3>2, <4>1, <4>2, <4>3 DEF Untouched, Holds, Exists
    <3>4. CASE q = p
      <4>1. proc'[p].step = "drop" /\ ~RemoveAccount(p) /\ proc'[p].user = proc[p].user /\ proc'[p].cred = proc[p].cred
        BY <1>5, <1>12, <2>4, <3>4 DEF Making, Idle
      <4>2. Exists(account'[proc[p].user])
        BY <1>2, <2>2, <4>1 DEF Disable, Terminate, Disabled, Holds, Exists, CredentialsTypeOK, AccountRow
      <4> QED BY <1>1, <2>2, <3>4, <4>1, <4>2 DEF Holds
    <3> QED BY <3>3, <3>4
  <2>5. ASSUME NEW c \in Credential, Active(c)'
        PROVE  (GivenUp(rows[c].user) \/ (owner[rows[c].user] = c /\ account[rows[c].user].login = "on"))'
    BY <2>3, <2>5
  <2>6. ASSUME NEW q \in Processes, Making(proc[q])'
        PROVE  (\/ GivenUp(proc[q].user)
                \/ /\ Holds(proc[q].cred, proc[q].user)
                   /\ proc[q].step # "drop" => account[proc[q].user].login = "on")'
    BY <2>4, <2>6
  <2> QED BY <1>7, <2>5, <2>6, InUseOnce DEF Working
<1> QED BY <1>10, <1>11, <1>12

\* What is marked was withdrawn.
LEMMA LoginsMark ==
  ASSUME CredentialsInv, OneInUse, Working, NEW p \in Processes, MarkRevoked(p)
  PROVE  OneInUse' /\ Working'
<1>1. proc[p] # Idle /\ proc[p].step = "mark" /\ UNCHANGED <<account, owner>> /\ GoesOn(p)
  BY DEF MarkRevoked, Idle
<1>2. Sound(proc[p]) /\ CredentialsTypeOK /\ proc[p].cred \in Credential
  BY <1>1, ProcessAt
<1>3. proc[p].does # "create" /\ Takes(p)
  BY <1>1, <1>2, GoesOnTakes DEF Sound
<1>4. RowsSame /\ \A c \in Credential \ {proc[p].cred} : rows'[c] = rows[c]
  BY MarkingRows
<1>5. rows'[proc[p].cred].state \in {"none", "revoked"}
  <2>1. CASE Active(proc[p].cred)
    <3>1. rows[proc[p].cred] \in CredentialRow
      BY <1>2, <2>1 DEF CredentialsTypeOK, Active, NoCredential
    <3> QED BY <1>2, <2>1, <3>1 DEF MarkRevoked, CredentialsTypeOK, CredentialRow
  <2>2. CASE ~Active(proc[p].cred)
    BY <1>2, <2>2 DEF MarkRevoked, Active, CredentialsTypeOK, CredentialRow, NoCredential
  <2> QED BY <2>1, <2>2
<1>6. \A c \in Credential : rows[c].state = "revoked" => rows'[c].state = "revoked" /\ rows'[c].user = rows[c].user
  BY <1>4, <1>5 DEF RowsSame
<1>7. \A c \in Credential \ {proc[p].cred} : Withdrawn(c) => Withdrawn(c)'
  BY <1>3 DEF Withdrawn, Takes
<1>8. \A c \in Credential : Active(c) => rows'[c].user = rows[c].user /\ (rows'[c].state = "revoked" \/ (Active(c)' /\ (Withdrawn(c) => Withdrawn(c)')))
  BY <1>4, <1>5, <1>7 DEF RowsSame, Active
<1>9. GivenUpBefore
  BY <1>6, <1>8, GivenUpKeeps
<1>10. InUseBefore
  BY <1>4, <1>5 DEF InUseBefore, Active
<1>11. \A q \in Processes : MakingBefore(q)
  BY <1>3 DEF Takes, MakingBefore, Making, Idle
<1> QED BY <1>1, <1>9, <1>10, <1>11, WorkingKeeps, InUseOnce DEF Untouched

\* An account is made where there was none: nothing in use had one there.
LEMMA LoginsCreated ==
  ASSUME CredentialsInv, OneInUse, Working, NEW p \in Processes, CreateAccount(p)
  PROVE  OneInUse' /\ Working'
<1>1. proc[p] # Idle /\ proc[p].does = "create" /\ proc[p].step = "account" /\ UNCHANGED rows
  BY DEF CreateAccount, At, Idle
<1>2. CredentialsTypeOK /\ proc[p].user \in Usernames /\ proc[p].cred \in Credential
  BY <1>1, ProcessAt
<1>3. CASE Exists(account[proc[p].user])
  <2>1. (\A q \in Processes \ {p} : proc'[q] = proc[q]) /\ MakingBefore(p) /\ UNCHANGED <<account, owner>>
    BY <1>3, Ends DEF CreateAccount, MakingBefore, Making, Idle
  <2> QED BY <1>1, <2>1, WorkingPlain DEF Untouched
<1>4. CASE ~Exists(account[proc[p].user])
  <2>1. /\ \A q \in Processes \ {p} : proc'[q] = proc[q]
        /\ proc'[p].does = "create" /\ proc'[p].cred = proc[p].cred /\ proc'[p].user = proc[p].user /\ proc'[p].step = "grant"
    BY <1>1, <1>4, GoesOnward DEF CreateAccount, Step
  <2>2. /\ owner'[proc[p].user] = proc[p].cred /\ account'[proc[p].user].login = "on"
        /\ \A u \in Usernames \ {proc[p].user} : Untouched(u)
    BY <1>2, <1>4 DEF CreateAccount, CredentialsTypeOK, Created, Untouched
  <2>3. GivenUpBefore
    BY <1>1, <2>1, WithdrawnStays, GivenUpKeeps DEF Active
  <2>4. ASSUME NEW c \in Credential, Active(c)', NEW u, u = rows'[c].user
        PROVE  GivenUp(u)' \/ (owner'[u] = c /\ account'[u].login = "on")
    <3>1. Active(c) /\ rows[c].user = u /\ u \in Usernames
      BY <1>1, <2>4, UsersKnown DEF Active
    <3>2. GivenUp(u) \/ (owner[u] = c /\ account[u].login = "on")
      BY <3>1 DEF Working
    <3> QED BY <1>4, <2>2, <2>3, <3>1, <3>2 DEF GivenUpBefore, Untouched, Exists
  <2>5. ASSUME NEW q \in Processes, Making(proc[q])', NEW u, u = proc'[q].user
        PROVE  \/ GivenUp(u)'
               \/ /\ Holds(proc[q].cred, proc[q].user)'
                  /\ proc'[q].step # "drop" => account'[u].login = "on"
    <3>1. CASE q = p
      BY <2>1, <2>2, <2>5, <3>1 DEF Holds, Exists
    <3>2. CASE q # p
      <4>1. Making(proc[q]) /\ proc'[q] = proc[q] /\ proc[q].user = u /\ u \in Usernames
        BY <2>1, <2>5, <3>2, UsersKnown DEF Making
      <4>2. GivenUp(u) \/ (Holds(proc[q].cred, u) /\ (proc[q].step # "drop" => account[u].login = "on"))
        BY <4>1 DEF Working
      <4> QED BY <1>4, <2>2, <2>3, <4>1, <4>2 DEF GivenUpBefore, Untouched, Holds, Exists
    <3> QED BY <3>1, <3>2
  <2>6. ASSUME NEW c \in Credential, Active(c)'
        PROVE  (GivenUp(rows[c].user) \/ (owner[rows[c].user] = c /\ account[rows[c].user].login = "on"))'
    BY <2>4, <2>6
  <2>7. ASSUME NEW q \in Processes, Making(proc[q])'
        PROVE  (\/ GivenUp(proc[q].user)
                \/ /\ Holds(proc[q].cred, proc[q].user)
                   /\ proc[q].step # "drop" => account[proc[q].user].login = "on")'
    BY <2>5, <2>7
  <2>8. OneInUse'
    BY <1>1, InUseOnce DEF InUseBefore, Active
  <2> QED BY <2>6, <2>7, <2>8 DEF Working
<1> QED BY <1>3, <1>4

\* A row is inserted when none in use has its username.
LEMMA LoginsInsert ==
  ASSUME CredentialsInv, OneInUse, Working, NEW p \in Processes, InsertRow(p)
  PROVE  OneInUse' /\ Working'
<1>1. proc[p] # Idle /\ proc[p].does = "create" /\ Making(proc[p]) /\ proc[p].step = "row" /\ UNCHANGED <<account, owner>>
  BY DEF InsertRow, At, Making, Idle
<1>2. /\ CredentialsTypeOK /\ proc[p].cred \in Credential /\ proc[p].user \in Usernames
      /\ rows[proc[p].cred].state = "none"
  BY <1>1, ProcessAt DEF Sound
<1>3. \A c \in Credential : Active(c) => rows[c].user # proc[p].user
  BY DEF InsertRow, Conflict
<1>4. /\ rows'[proc[p].cred].user = proc[p].user /\ rows'[proc[p].cred].state = "active"
      /\ \A c \in Credential \ {proc[p].cred} : rows'[c] = rows[c]
  BY <1>2 DEF InsertRow, CredentialsTypeOK
<1>5. proc'[p] = Idle /\ \A q \in Processes \ {p} : proc'[q] = proc[q]
  BY Ends DEF InsertRow
<1>6. OneInUse'
  BY <1>3, <1>4 DEF OneInUse, Active
<1>7. \A c \in Credential : Withdrawn(c) => Withdrawn(c)'
  BY <1>1, <1>5, WithdrawnStays
<1>8. GivenUpBefore
  BY <1>2, <1>4, <1>7, GivenUpKeeps DEF Active
<1>9. ASSUME NEW c \in Credential, Active(c)', NEW u, u = rows'[c].user
      PROVE  GivenUp(u)' \/ (owner'[u] = c /\ account'[u].login = "on")
  <2>1. CASE c = proc[p].cred
    <3>1. u = proc[p].user
      BY <1>4, <1>9, <2>1
    <3>2. GivenUp(u) \/ (owner[u] = c /\ account[u].login = "on")
      BY <1>1, <2>1, <3>1 DEF Working, Holds
    <3> QED BY <1>1, <1>2, <1>8, <3>1, <3>2 DEF GivenUpBefore
  <2>2. CASE c # proc[p].cred
    <3>1. Active(c) /\ rows[c].user = u /\ u \in Usernames
      BY <1>4, <1>9, <2>2, UsersKnown DEF Active
    <3>2. GivenUp(u) \/ (owner[u] = c /\ account[u].login = "on")
      BY <3>1 DEF Working
    <3> QED BY <1>1, <1>8, <3>1, <3>2 DEF GivenUpBefore
  <2> QED BY <2>1, <2>2
<1>10. ASSUME NEW q \in Processes, Making(proc[q])', NEW u, u = proc'[q].user
       PROVE  \/ GivenUp(u)'
              \/ /\ Holds(proc[q].cred, proc[q].user)'
                 /\ proc'[q].step # "drop" => account'[u].login = "on"
  <2>1. q # p /\ Making(proc[q]) /\ proc'[q] = proc[q] /\ proc[q].user = u /\ u \in Usernames
    BY <1>5, <1>10, UsersKnown DEF Making, Idle
  <2>2. GivenUp(u) \/ (Holds(proc[q].cred, u) /\ (proc[q].step # "drop" => account[u].login = "on"))
    BY <2>1 DEF Working
  <2> QED BY <1>1, <1>8, <2>1, <2>2 DEF GivenUpBefore, Holds
<1>11. ASSUME NEW c \in Credential, Active(c)'
       PROVE  (GivenUp(rows[c].user) \/ (owner[rows[c].user] = c /\ account[rows[c].user].login = "on"))'
  BY <1>9, <1>11
<1>12. ASSUME NEW q \in Processes, Making(proc[q])'
       PROVE  (\/ GivenUp(proc[q].user)
               \/ /\ Holds(proc[q].cred, proc[q].user)
                  /\ proc[q].step # "drop" => account[proc[q].user].login = "on")'
  BY <1>10, <1>12
<1> QED BY <1>6, <1>11, <1>12 DEF Working

LEMMA LoginsAround ==
  ASSUME CredentialsInv, OneInUse, Working,
         (\E c \in Credential : Expires(c) \/ Connects(c)) \/ UNCHANGED credentialVars
  PROVE  OneInUse' /\ Working'
<1>1. UNCHANGED <<account, owner, proc>>
  BY DEF Expires, Connects, credentialVars
<1>2. \A d \in Credential : rows'[d].state = rows[d].state /\ rows'[d].user = rows[d].user
  <2>1. ASSUME NEW c \in Credential, Expires(c)
        PROVE  \A d \in Credential : rows'[d].state = rows[d].state /\ rows'[d].user = rows[d].user
    <3>1. rows[c] \in CredentialRow
      BY <2>1 DEF Expires, Active, CredentialsInv, CredentialsTypeOK, NoCredential
    <3> QED BY <2>1, <3>1 DEF Expires, CredentialsInv, CredentialsTypeOK, CredentialRow
  <2> QED BY <2>1 DEF Connects, credentialVars
<1>3. GivenUpBefore
  BY <1>1, <1>2, GivenUpKeeps DEF Active, Withdrawn
<1>4. InUseBefore /\ \A q \in Processes : MakingBefore(q)
  BY <1>1, <1>2 DEF InUseBefore, Active, MakingBefore, Making
<1> QED BY <1>1, <1>3, <1>4, WorkingKeeps, InUseOnce DEF Untouched

\* One in use at a time, whatever fails.
LEMMA OneInUseSteps ==
  ASSUME CredentialsInv, OneInUse, NEW p \in Processes,
         \/ PutSecretFails(p) \/ GrantFails(p) \/ InsertFails(p) \/ DropFails(p) \/ MarkFails(p)
         \/ CreateCredential(p) \/ Rotate(p) \/ Revoke(p) \/ ExpireDue(p) \/ RevokeAllForDatabase(p)
         \/ CreateAccount(p) \/ Grant(p) \/ PutSecret(p) \/ RotateAccount(p) \/ Disable(p) \/ Terminate(p)
         \/ RemoveAccount(p)
  PROVE  OneInUse'
<1>1. UNCHANGED rows
  BY DEF PutSecretFails, GrantFails, InsertFails, DropFails, MarkFails, CreateCredential, Rotate, Revoke, ExpireDue,
         RevokeAllForDatabase, RevokeListed, CreateAccount, Grant, PutSecret, RotateAccount, Disable, Terminate, RemoveAccount
<1> QED BY <1>1, InUseOnce DEF InUseBefore, Active

LEMMA OnceInserted ==
  ASSUME CredentialsInv, OneInUse, NEW p \in Processes, InsertRow(p) \/ MarkRevoked(p)
  PROVE  OneInUse'
<1>1. proc[p] # Idle
  BY DEF InsertRow, MarkRevoked, At, Idle
<1>2. CredentialsTypeOK /\ proc[p].cred \in Credential
  BY <1>1, ProcessAt
<1>3. CASE InsertRow(p)
  <2>1. \A c \in Credential : Active(c) => rows[c].user # proc[p].user
    BY <1>3 DEF InsertRow, Conflict
  <2>2. /\ rows'[proc[p].cred].user = proc[p].user /\ rows'[proc[p].cred].state = "active"
        /\ \A c \in Credential \ {proc[p].cred} : rows'[c] = rows[c]
    BY <1>2, <1>3 DEF InsertRow, CredentialsTypeOK
  <2> QED BY <2>1, <2>2 DEF OneInUse, Active
<1>4. CASE MarkRevoked(p)
  <2>1. \A c \in Credential : rows'[c].state = rows[c].state \/ rows'[c].state = "revoked"
    BY <1>2, <1>4 DEF MarkRevoked, CredentialsTypeOK, CredentialRow, NoCredential, Active
  <2> QED BY <1>4, <2>1, MarkingRows, InUseOnce DEF InUseBefore, Active, RowsSame
<1> QED BY <1>3, <1>4

LEMMA OnceAround ==
  ASSUME CredentialsInv, OneInUse,
         (\E c \in Credential : Expires(c) \/ Connects(c)) \/ ServerDies \/ UNCHANGED credentialVars
  PROVE  OneInUse'
<1>1. \A d \in Credential : rows'[d].state = rows[d].state /\ rows'[d].user = rows[d].user
  <2>1. ASSUME NEW c \in Credential, Expires(c)
        PROVE  \A d \in Credential : rows'[d].state = rows[d].state /\ rows'[d].user = rows[d].user
    <3>1. rows[c] \in CredentialRow
      BY <2>1 DEF Expires, Active, CredentialsInv, CredentialsTypeOK, NoCredential
    <3> QED BY <2>1, <3>1 DEF Expires, CredentialsInv, CredentialsTypeOK, CredentialRow
  <2> QED BY <2>1 DEF Connects, ServerDies, credentialVars
<1> QED BY <1>1, InUseOnce DEF InUseBefore, Active

\* Failures and deaths stay.
LEMMA TroublesStay ==
  ASSUME Left, [CredentialsNext]_credentialVars, failures' = 0, deaths' = 0
  PROVE  /\ failures = 0 /\ deaths = 0 /\ ~ServerDies
         /\ \A p \in Processes : ~GrantFails(p) /\ ~PutSecretFails(p) /\ ~DropFails(p) /\ ~MarkFails(p)
<1>1. ~ServerDies /\ \A p \in Processes : ~GrantFails(p) /\ ~PutSecretFails(p) /\ ~DropFails(p) /\ ~MarkFails(p)
  BY DEF Left, ServerDies, GrantFails, PutSecretFails, DropFails, MarkFails, Failure
<1>2. UNCHANGED deaths /\ \/ UNCHANGED failures
                          \/ \E p \in Processes : InsertFails(p)
  BY <1>1 DEF CredentialsNext, GoOn, Fails, CreateCredential, Rotate, Revoke, ExpireDue, RevokeAllForDatabase, RevokeListed,
         CreateAccount, Grant, PutSecret, InsertRow, RotateAccount, Disable, Terminate, RemoveAccount, MarkRevoked,
         Expires, Connects, credentialVars, InsertFails
<1>3. \A p \in Processes : InsertFails(p) => UNCHANGED failures
  BY DEF InsertFails, Failure, Left
<1> QED BY <1>1, <1>2, <1>3

LEMMA LoginsSteps == CredentialsInv /\ Left /\ LoginsInv /\ [CredentialsNext]_credentialVars => LoginsInv'
<1> SUFFICES ASSUME CredentialsInv, Left, LoginsInv, [CredentialsNext]_credentialVars
             PROVE  LoginsInv'
  OBVIOUS
<1>1. OneInUse'
  BY OneInUseSteps, OnceInserted, OnceAround DEF LoginsInv, CredentialsNext, GoOn, Fails
<1>2. ASSUME failures' = 0, deaths' = 0 PROVE Working'
  <2>1. /\ failures = 0 /\ deaths = 0 /\ ~ServerDies /\ OneInUse /\ Working
        /\ \A p \in Processes : ~GrantFails(p) /\ ~PutSecretFails(p) /\ ~DropFails(p) /\ ~MarkFails(p)
    BY <1>2, TroublesStay DEF LoginsInv
  <2> QED BY <1>2, <2>1, LoginsBegin, LoginsCreated, LoginsOfCreations, LoginsInsert, LoginsRemove, LoginsMark, LoginsAround
          DEF CredentialsNext, GoOn, Fails
<1> QED BY <1>1, <1>2 DEF LoginsInv

LEMMA InitLogins == CredentialsInit => LoginsInv
<1> SUFFICES ASSUME CredentialsInit PROVE LoginsInv
  OBVIOUS
<1>1. \A p \in Processes : ~Making(proc[p])
  BY DEF CredentialsInit, Making, Idle
<1>2. \A c \in Credential : ~Active(c)
  BY DEF CredentialsInit, NoCredential, Active
<1> QED BY <1>1, <1>2 DEF LoginsInv, OneInUse, Working

LEMMA InUseWorks == CredentialsInv /\ LoginsInv => ActiveLogsIn
<1> SUFFICES ASSUME CredentialsInv, LoginsInv, NEW c \in Credential, Active(c), deaths = 0, failures = 0,
                    \A p \in Processes : proc[p].cred # c,
                    \A d \in Credential : rows[d].state = "revoked" => rows[d].user # rows[c].user
             PROVE  account[rows[c].user].login = "on" /\ owner[rows[c].user] = c
  BY DEF ActiveLogsIn
<1>1. ~GivenUp(rows[c].user)
  BY DEF GivenUp, LoginsInv, OneInUse, Withdrawn
<1> QED BY <1>1 DEF LoginsInv, Working

\* The sessions of what is revoked have ended and none begins, because a removal
\* disables before it terminates (Ended); what is in use logs in unless another
\* of its username was revoked or is being revoked (Working); and an account
\* that logs in is of a row or of a creation that is under way (Left).
LEMMA CredentialsInvariant == CredentialsSpec => [](SessionsEnd /\ ActiveLogsIn /\ NothingLeft)
<1>1. CredentialsInit => CredentialsInv /\ SessionsInv /\ Left /\ LoginsInv
  BY InitCredentials, InitSessions, InitLeft, InitLogins
<1>2. CredentialsInv /\ SessionsInv /\ Left /\ LoginsInv /\ [CredentialsNext]_credentialVars
        => CredentialsInv' /\ SessionsInv' /\ Left' /\ LoginsInv'
  BY NextCredentials, NextSessions, LeftSteps, LoginsSteps
<1>3. CredentialsInv /\ SessionsInv /\ Left /\ LoginsInv => SessionsEnd /\ ActiveLogsIn /\ NothingLeft
  BY InUseWorks, NothingIsLeftOver DEF SessionsInv, Ended, SessionsEnd
<1> QED BY <1>1, <1>2, <1>3, PTL DEF CredentialsSpec

---------------------------------------------------------------------------
(* Tunnels *)

Links == [at : {"none", "handshake", "pin", "open", "refused", "ended"},
          want : HostKeys \cup {NoKey}, saw : HostKeys \cup {NoKey}]

TunnelsTypeOK ==
  /\ hostKey \in HostKeys \cup {NoKey} /\ bastion \in HostKeys
  /\ link \in [Dials -> Links]

\* What holds of a dial and of the key it was shown.
LinkSound(l, key) ==
  /\ l.want = NoKey \/ l.want = key
  /\ l.at = "pin" => l.saw # NoKey
  /\ l.at = "open" => l.saw = key /\ key # NoKey

\* A key once pinned stays; a dial wants it or began before it was pinned, and
\* has seen a key when it comes to pinning.
Pinned ==
  /\ hostKey = savedKey
  /\ \A d \in Dials : LinkSound(link[d], hostKey)

KeysInv == TunnelsTypeOK /\ Pinned

LEMMA LinkMoves ==
  ASSUME KeysInv, NEW d \in Dials, NEW l \in Links, link' = [link EXCEPT ![d] = l],
         bastion' \in HostKeys, hostKey' \in HostKeys \cup {NoKey}, savedKey' = hostKey',
         hostKey' = hostKey \/ hostKey = NoKey, LinkSound(l, hostKey')
  PROVE  KeysInv'
<1>1. TunnelsTypeOK'
  BY DEF KeysInv, TunnelsTypeOK
<1>2. ASSUME NEW e \in Dials
      PROVE  LinkSound(link'[e], hostKey')
  <2>1. CASE e = d
    <3>1. link'[e] = l
      BY <2>1 DEF KeysInv, TunnelsTypeOK
    <3> QED BY <3>1
  <2>2. CASE e # d
    <3>1. link'[e] = link[e]
      BY <2>2 DEF KeysInv, TunnelsTypeOK
    <3> QED BY <3>1 DEF KeysInv, Pinned, LinkSound
  <2> QED BY <2>1, <2>2
<1> QED BY <1>1, <1>2 DEF KeysInv, Pinned

LEMMA KeysStay ==
  ASSUME KeysInv, UNCHANGED <<hostKey, savedKey, link>>, bastion' \in HostKeys
  PROVE  KeysInv'
BY DEF KeysInv, TunnelsTypeOK, Pinned

LEMMA SessionGone ==
  ASSUME KeysInv, TunnelsAssumption, UNCHANGED keyVars, link' = [link EXCEPT ![Forwarder].at = "ended"]
  PROVE  KeysInv'
<1> DEFINE l == [link[Forwarder] EXCEPT !.at = "ended"]
<1>1. link[Forwarder] \in Links /\ Forwarder \in Dials
  BY DEF KeysInv, TunnelsTypeOK, TunnelsAssumption
<1>2. /\ l \in Links /\ l.at = "ended" /\ l.want = link[Forwarder].want
      /\ link' = [link EXCEPT ![Forwarder] = l]
  BY <1>1 DEF Links
<1>3. LinkSound(l, hostKey')
  BY <1>1, <1>2 DEF KeysInv, Pinned, keyVars, LinkSound
<1>4. bastion' \in HostKeys /\ hostKey' \in HostKeys \cup {NoKey} /\ savedKey' = hostKey' /\ hostKey' = hostKey
  BY DEF KeysInv, TunnelsTypeOK, Pinned, keyVars
<1> HIDE DEF l
<1> QED BY <1>1, <1>2, <1>3, <1>4, LinkMoves

LEMMA DialSteps ==
  ASSUME TunnelsAssumption, KeysInv, NEW d \in Dials, Connect(d) \/ Handshake(d) \/ PinKey(d) \/ ConnectFails(d)
  PROVE  KeysInv'
<1>0. /\ link[d] \in Links /\ bastion \in HostKeys /\ NoKey \notin HostKeys /\ hostKey = savedKey
      /\ hostKey \in HostKeys \cup {NoKey}
      /\ link[d].want = NoKey \/ link[d].want = hostKey
  BY DEF KeysInv, TunnelsTypeOK, Pinned, LinkSound, TunnelsAssumption, NoKey
<1>1. CASE Connect(d)
  <2> DEFINE l == [at |-> "handshake", want |-> hostKey, saw |-> NoKey]
  <2>1. l \in Links /\ l.at = "handshake" /\ l.want = hostKey
    BY <1>0 DEF Links
  <2>2. link' = [link EXCEPT ![d] = l] /\ UNCHANGED <<hostKey, savedKey, bastion>>
    BY <1>1 DEF Connect
  <2> HIDE DEF l
  <2>3. LinkSound(l, hostKey')
    BY <2>1, <2>2 DEF LinkSound
  <2>4. bastion' \in HostKeys /\ hostKey' \in HostKeys \cup {NoKey} /\ savedKey' = hostKey' /\ hostKey' = hostKey
    BY <1>0, <2>2
  <2> QED BY <2>1, <2>2, <2>3, <2>4, LinkMoves
<1>2. CASE Handshake(d)
  <2> DEFINE a == CASE link[d].want = NoKey -> "pin" [] link[d].want = bastion -> "open" [] OTHER -> "refused"
             l == [link[d] EXCEPT !.saw = bastion, !.at = a]
  <2>1. a \in {"pin", "open", "refused"} /\ (a = "open" => link[d].want = bastion)
    BY <1>0
  <2>2. UNCHANGED <<hostKey, savedKey, bastion>> /\ link' = [link EXCEPT ![d].saw = bastion, ![d].at = a]
    BY <1>2 DEF Handshake
  <2> HIDE DEF a
  <2>3. l \in Links /\ l.at = a /\ l.saw = bastion /\ l.want = link[d].want
    BY <1>0, <2>1 DEF Links
  <2>4. link' = [link EXCEPT ![d] = l]
    BY <1>0, <2>2 DEF KeysInv, TunnelsTypeOK, Links
  <2> HIDE DEF l
  <2>5. l.at = "pin" => l.saw # NoKey
    BY <1>0, <2>3
  <2>6. l.at = "open" => l.saw = hostKey' /\ hostKey' # NoKey
    BY <1>0, <2>1, <2>2, <2>3
  <2>7. LinkSound(l, hostKey')
    BY <1>0, <2>2, <2>3, <2>5, <2>6 DEF LinkSound
  <2>8. bastion' \in HostKeys /\ hostKey' \in HostKeys \cup {NoKey} /\ savedKey' = hostKey' /\ hostKey' = hostKey
    BY <1>0, <2>2
  <2> QED BY <2>3, <2>4, <2>7, <2>8, LinkMoves
<1>3. CASE PinKey(d)
  <2>1. link[d].at = "pin" /\ UNCHANGED bastion /\ link[d].saw # NoKey /\ link[d].saw \in HostKeys \cup {NoKey}
    BY <1>0, <1>3 DEF PinKey, KeysInv, Pinned, LinkSound, Links
  <2>2. ASSUME NEW a \in {"open", "refused"}, link' = [link EXCEPT ![d].at = a]
        PROVE  \E l \in Links : l.at = a /\ l.saw = link[d].saw /\ l.want = link[d].want /\ link' = [link EXCEPT ![d] = l]
    <3> DEFINE l == [link[d] EXCEPT !.at = a]
    <3>1. l \in Links /\ l.at = a /\ l.saw = link[d].saw /\ l.want = link[d].want /\ link' = [link EXCEPT ![d] = l]
      BY <1>0, <2>2 DEF Links
    <3> QED BY <3>1
  <2>3. CASE hostKey # NoKey
    <3> DEFINE a == IF PinnedSame(d) THEN "open" ELSE "refused"
    <3>1. a \in {"open", "refused"} /\ (a = "open" => hostKey = link[d].saw)
      BY DEF PinnedSame
    <3>2. link' = [link EXCEPT ![d].at = a] /\ UNCHANGED <<hostKey, savedKey>>
      BY <1>3, <2>3 DEF PinKey
    <3> HIDE DEF a
    <3>3. PICK l \in Links : l.at = a /\ l.saw = link[d].saw /\ l.want = link[d].want /\ link' = [link EXCEPT ![d] = l]
      BY <2>2, <3>1, <3>2
    <3>4. LinkSound(l, hostKey')
      BY <1>0, <2>3, <3>1, <3>2, <3>3 DEF LinkSound
    <3>5. bastion' \in HostKeys /\ hostKey' \in HostKeys \cup {NoKey} /\ savedKey' = hostKey' /\ hostKey' = hostKey
      BY <1>0, <2>1, <3>2
    <3> QED BY <3>3, <3>4, <3>5, LinkMoves
  <2>4. CASE hostKey = NoKey
    <3>1. link' = [link EXCEPT ![d].at = "open"] /\ hostKey' = link[d].saw /\ savedKey' = link[d].saw
      BY <1>3, <2>4 DEF PinKey
    <3>2. PICK l \in Links : l.at = "open" /\ l.saw = link[d].saw /\ l.want = link[d].want /\ link' = [link EXCEPT ![d] = l]
      BY <2>2, <3>1
    <3>3. LinkSound(l, hostKey')
      BY <1>0, <2>1, <2>4, <3>1, <3>2 DEF LinkSound
    <3>4. bastion' \in HostKeys /\ hostKey' \in HostKeys \cup {NoKey} /\ savedKey' = hostKey'
      BY <1>0, <2>1, <3>1
    <3> QED BY <2>4, <3>2, <3>3, <3>4, LinkMoves
  <2> QED BY <2>3, <2>4
<1>4. CASE ConnectFails(d)
  <2> DEFINE l == [link[d] EXCEPT !.at = "refused"]
  <2>1. l \in Links /\ l.at = "refused" /\ l.want = link[d].want /\ link' = [link EXCEPT ![d] = l]
        /\ UNCHANGED <<hostKey, savedKey, bastion>>
    BY <1>0, <1>4 DEF Links, ConnectFails
  <2> HIDE DEF l
  <2>2. LinkSound(l, hostKey')
    BY <1>0, <2>1 DEF LinkSound
  <2>3. bastion' \in HostKeys /\ hostKey' \in HostKeys \cup {NoKey} /\ savedKey' = hostKey' /\ hostKey' = hostKey
    BY <1>0, <2>1
  <2> QED BY <2>1, <2>2, <2>3, LinkMoves
<1> QED BY <1>1, <1>2, <1>3, <1>4

LEMMA NextKeys ==
  ASSUME TunnelsAssumption, KeysInv, [TunnelsNext]_tunnelVars
  PROVE  KeysInv'
<1>0. bastion \in HostKeys
  BY DEF KeysInv, TunnelsTypeOK
<1>1. CASE ChangeKey \/ Forward \/ AcceptEnds \/ CloseReturns
  BY <1>0, <1>1, KeysStay DEF ChangeKey, Forward, AcceptEnds, CloseReturns, keyVars, forwardVars
<1>2. CASE SessionEnds \/ Close
  BY <1>2, SessionGone DEF SessionEnds, Close
<1>3. ASSUME NEW c \in Conns, ToolConnects(c) \/ Serve(c) \/ ToolEnds(c) \/ RemoteEnds(c)
      PROVE  KeysInv'
  BY <1>0, <1>3, KeysStay DEF ToolConnects, Serve, Accept, DialRemote, CopyEnds, ToolEnds, RemoteEnds, keyVars
<1>4. CASE UNCHANGED tunnelVars
  BY <1>0, <1>4, KeysStay DEF tunnelVars
<1> QED BY <1>1, <1>2, <1>3, <1>4, DialSteps DEF TunnelsNext

LEMMA InitKeys ==
  ASSUME TunnelsInit
  PROVE  KeysInv
BY DEF TunnelsInit, KeysInv, TunnelsTypeOK, Pinned, LinkSound, Links, NoSession, NoKey

\* The wait group counts the goroutine that accepts and the connections that
\* are served; nothing begins once the forwarder has been closed.
Connection == [at : {"none", "backlog", "accepted", "piping", "unblocked", "done"},
               tool : BOOLEAN, remote : BOOLEAN, copies : SUBSET {"in", "out"}]
WithGoroutine == {"accepted", "piping", "unblocked"}
Served == {c \in Conns : conn[c].at \in WithGoroutine}
Counted(n, going) == counted = n + IF going THEN 1 ELSE 0

ForwardInv ==
  /\ accepting \in BOOLEAN /\ conn \in [Conns -> Connection]
  /\ Counted(Cardinality(Served), accepting)
  /\ closing = "returned" => counted = 0

LEMMA ServedFinite ==
  ASSUME TunnelsAssumption
  PROVE  IsFiniteSet(Served) /\ Cardinality(Served) \in Nat
<1>1. IsFiniteSet(Conns) /\ Served \subseteq Conns
  BY DEF TunnelsAssumption, Served
<1> QED BY <1>1, FS_Subset, FS_CardinalityType

\* A connection changes; one more or one less is served, or as many.

\* One connection or none comes to be served, or is served no longer.
LEMMA ServedGrows ==
  ASSUME TunnelsAssumption, NEW c \in Conns, c \notin Served, Served' = Served \cup {c}
  PROVE  Cardinality(Served') = Cardinality(Served) + 1
BY ServedFinite, FS_AddElement

LEMMA ServedShrinks ==
  ASSUME TunnelsAssumption, NEW c \in Served, Served' = Served \ {c}
  PROVE  Cardinality(Served') = Cardinality(Served) - 1 /\ Cardinality(Served) >= 1
<1>1. Cardinality(Served') = Cardinality(Served) - 1
  BY ServedFinite, FS_RemoveElement
<1>2. Cardinality(Served) # 0
  BY ServedFinite, FS_EmptySet
<1> QED BY <1>1, <1>2, ServedFinite

\* A connection changes.
LEMMA ConnWritten ==
  ASSUME ForwardInv, NEW c \in Conns, NEW k \in Connection, conn' = [conn EXCEPT ![c] = k]
  PROVE  /\ conn' \in [Conns -> Connection]
         /\ k.at \in WithGoroutine => Served' = Served \cup {c}
         /\ k.at \notin WithGoroutine => Served' = Served \ {c}
BY DEF ForwardInv, Served, WithGoroutine

LEMMA SameServed ==
  ASSUME ForwardInv, NEW c \in Conns, NEW k \in Connection, conn' = [conn EXCEPT ![c] = k],
         UNCHANGED <<accepting, counted, closing>>, k.at \in WithGoroutine <=> conn[c].at \in WithGoroutine
  PROVE  ForwardInv'
<1>1. Served' = Served
  BY ConnWritten DEF Served
<1> QED BY <1>1, ConnWritten DEF ForwardInv, Counted

LEMMA ForwarderSteps ==
  ASSUME TunnelsAssumption, ForwardInv, Forward \/ AcceptEnds \/ Close \/ CloseReturns \/ UNCHANGED forwardVars
  PROVE  ForwardInv'
<1>1. conn' = conn /\ Served' = Served
  BY DEF Forward, AcceptEnds, Close, CloseReturns, forwardVars, Served
<1>2. Cardinality(Served) \in Nat
  BY ServedFinite
<1>3. CASE Forward
  BY <1>1, <1>2, <1>3 DEF Forward, ForwardInv, Counted
<1>4. CASE AcceptEnds
  <2>1. accepting /\ accepting' = FALSE /\ counted' = counted - 1 /\ closing' = closing
    BY <1>4 DEF AcceptEnds
  <2>2. counted = Cardinality(Served) + 1 /\ closing # "returned"
    BY <1>2, <2>1 DEF ForwardInv, Counted
  <2>3. Counted(Cardinality(Served), accepting)'
    BY <1>1, <1>2, <2>1, <2>2 DEF Counted
  <2> QED BY <1>1, <2>1, <2>2, <2>3 DEF ForwardInv
<1>5. CASE Close \/ CloseReturns \/ UNCHANGED forwardVars
  BY <1>1, <1>5 DEF Close, CloseReturns, forwardVars, ForwardInv, Counted
<1> QED BY <1>3, <1>4, <1>5

LEMMA ConnSteps ==
  ASSUME TunnelsAssumption, ForwardInv, NEW c \in Conns, ToolConnects(c) \/ Serve(c) \/ ToolEnds(c) \/ RemoteEnds(c)
  PROVE  ForwardInv'
<1> DEFINE n == Cardinality(Served)
<1>0. /\ conn[c] \in Connection /\ n \in Nat /\ accepting \in BOOLEAN /\ Counted(n, accepting)
      /\ c \in Served <=> conn[c].at \in WithGoroutine
      /\ UNCHANGED <<accepting, closing>>
  BY ServedFinite DEF ForwardInv, Served, WithGoroutine, ToolConnects, Serve, Accept, DialRemote, CopyEnds, ToolEnds, RemoteEnds
<1>1. CASE ToolConnects(c)
  <2> DEFINE k == [NoConn EXCEPT !.at = "backlog", !.tool = TRUE]
  <2>1. k \in Connection /\ k.at \notin WithGoroutine /\ conn[c].at \notin WithGoroutine /\ conn' = [conn EXCEPT ![c] = k]
        /\ UNCHANGED counted
    BY <1>1 DEF ToolConnects, NoConn, Connection, WithGoroutine
  <2> HIDE DEF k
  <2> QED BY <1>0, <2>1, SameServed
<1>2. CASE Accept(c)
  <2> DEFINE k == [conn[c] EXCEPT !.at = "accepted"]
  <2>1. k \in Connection /\ k.at \in WithGoroutine /\ conn[c].at \notin WithGoroutine /\ conn' = [conn EXCEPT ![c] = k]
        /\ counted' = counted + 1 /\ closing = "no"
    BY <1>0, <1>2 DEF Accept, Count, Connection, WithGoroutine
  <2> HIDE DEF k
  <2>2. Cardinality(Served') = n + 1 /\ conn' \in [Conns -> Connection]
    BY <1>0, <2>1, ConnWritten, ServedGrows
  <2> QED BY <1>0, <2>1, <2>2 DEF ForwardInv, Counted
<1>3. ASSUME c \in Served, conn' = [conn EXCEPT ![c] = [NoConn EXCEPT !.at = "done"]], counted' = counted - 1
      PROVE  ForwardInv'
  <2> DEFINE k == [NoConn EXCEPT !.at = "done"]
  <2>1. k \in Connection /\ k.at \notin WithGoroutine /\ conn' = [conn EXCEPT ![c] = k]
    BY <1>3 DEF NoConn, Connection, WithGoroutine
  <2> HIDE DEF k
  <2>2. Cardinality(Served') = n - 1 /\ n >= 1 /\ conn' \in [Conns -> Connection]
    BY <1>3, <2>1, ConnWritten, ServedShrinks
  <2>3. closing # "returned"
    BY <1>0, <2>2 DEF ForwardInv, Counted
  <2> QED BY <1>0, <1>3, <2>2, <2>3 DEF ForwardInv, Counted
<1>4. CASE DialRemote(c)
  <2>1. conn[c].at \in WithGoroutine
    BY <1>4 DEF DialRemote, WithGoroutine
  <2> DEFINE k == [conn[c] EXCEPT !.at = "piping", !.remote = TRUE, !.copies = {"in", "out"}]
  <2>2. CASE conn' = [conn EXCEPT ![c].at = "piping", ![c].remote = TRUE, ![c].copies = {"in", "out"}] /\ UNCHANGED counted
    <3>1. k \in Connection /\ k.at \in WithGoroutine
      BY <1>0 DEF Connection, WithGoroutine
    <3>2. conn' = [conn EXCEPT ![c] = k]
      BY <2>2 DEF ForwardInv
    <3> HIDE DEF k
    <3> QED BY <1>0, <2>1, <2>2, <3>1, <3>2, SameServed
  <2> QED BY <1>0, <1>3, <1>4, <2>1, <2>2 DEF DialRemote
<1>5. ASSUME NEW copy \in {"in", "out"}, CopyEnds(c, copy)
      PROVE  ForwardInv'
  <2>1. conn[c].at \in WithGoroutine
    BY <1>5 DEF CopyEnds, WithGoroutine
  <2> DEFINE k == [conn[c] EXCEPT !.at = "unblocked", !.copies = @ \ {copy}]
  <2>2. CASE conn' = [conn EXCEPT ![c].at = "unblocked", ![c].copies = @ \ {copy}] /\ UNCHANGED counted
    <3>1. k \in Connection /\ k.at \in WithGoroutine
      BY <1>0 DEF Connection, WithGoroutine
    <3>2. conn' = [conn EXCEPT ![c] = k]
      BY <2>2 DEF ForwardInv
    <3> HIDE DEF k
    <3> QED BY <1>0, <2>1, <2>2, <3>1, <3>2, SameServed
  <2> QED BY <1>0, <1>3, <1>5, <2>1, <2>2 DEF CopyEnds, Unblocked
<1>6. CASE ToolEnds(c)
  <2> DEFINE k == [conn[c] EXCEPT !.tool = FALSE]
  <2>1. k \in Connection /\ k.at = conn[c].at /\ conn' = [conn EXCEPT ![c] = k] /\ UNCHANGED counted
    BY <1>0, <1>6 DEF ToolEnds, Connection
  <2> HIDE DEF k
  <2> QED BY <1>0, <2>1, SameServed
<1>7. CASE RemoteEnds(c)
  <2> DEFINE k == [conn[c] EXCEPT !.remote = FALSE]
  <2>1. k \in Connection /\ k.at = conn[c].at /\ conn' = [conn EXCEPT ![c] = k] /\ UNCHANGED counted
    BY <1>0, <1>7 DEF RemoteEnds, Connection
  <2> HIDE DEF k
  <2> QED BY <1>0, <2>1, SameServed
<1> QED BY <1>1, <1>2, <1>4, <1>5, <1>6, <1>7 DEF Serve

LEMMA NextForward ==
  ASSUME TunnelsAssumption, ForwardInv, [TunnelsNext]_tunnelVars
  PROVE  ForwardInv'
<1>1. ASSUME NEW d \in Dials, Connect(d) \/ Handshake(d) \/ PinKey(d) \/ ConnectFails(d)
      PROVE  UNCHANGED forwardVars
  BY <1>1 DEF Connect, Handshake, PinKey, ConnectFails, forwardVars
<1>2. ChangeKey \/ SessionEnds \/ UNCHANGED tunnelVars => UNCHANGED forwardVars
  BY DEF ChangeKey, SessionEnds, tunnelVars, forwardVars
<1> QED BY <1>1, <1>2, ForwarderSteps, ConnSteps DEF TunnelsNext

LEMMA InitForward ==
  ASSUME TunnelsInit
  PROVE  ForwardInv
<1>1. Served = {} /\ conn \in [Conns -> Connection]
  BY DEF TunnelsInit, Served, WithGoroutine, NoConn, Connection
<1>2. accepting = FALSE /\ counted = 0 /\ closing = "no"
  BY DEF TunnelsInit
<1>3. Counted(Cardinality(Served), accepting)
  BY <1>1, <1>2, FS_EmptySet DEF Counted
<1> QED BY <1>1, <1>2, <1>3 DEF ForwardInv

LEMMA ReturnedIsEmpty ==
  ASSUME TunnelsAssumption, ForwardInv
  PROVE  NothingIsLeft
<1> SUFFICES ASSUME closing = "returned"
             PROVE  ~accepting /\ \A c \in Conns : conn[c].at \in {"none", "backlog", "done"}
  BY DEF NothingIsLeft
<1>1. Cardinality(Served) \in Nat /\ IsFiniteSet(Served)
  BY ServedFinite
<1>2. Cardinality(Served) = 0 /\ ~accepting
  BY <1>1 DEF ForwardInv, Counted
<1>3. Served = {}
  BY <1>1, <1>2, FS_EmptySet
<1>4. ASSUME NEW c \in Conns PROVE conn[c].at \in {"none", "backlog", "done"}
  <2>1. conn[c] \in Connection /\ conn[c].at \notin WithGoroutine
    BY <1>3 DEF Served, ForwardInv
  <2> QED BY <2>1 DEF Connection, WithGoroutine
<1> QED BY <1>2, <1>4

LEMMA TunnelsInvariant ==
  TunnelsSpec => [](OneBastion /\ NothingIsLeft)
<1> DEFINE Inv == KeysInv /\ ForwardInv
<1>1. TunnelsInit => Inv
  BY InitKeys, InitForward
<1>2. Inv /\ [TunnelsNext]_tunnelVars => Inv'
  BY NextKeys, NextForward, TunnelsAssumption
<1>3. Inv => OneBastion /\ NothingIsLeft
  BY ReturnedIsEmpty, TunnelsAssumption DEF KeysInv, Pinned, LinkSound, OneBastion
<1> QED BY <1>1, <1>2, <1>3, PTL DEF TunnelsSpec

---------------------------------------------------------------------------
(* Instances *)

JobRow == [status : Open \cup Final \cup {"none"}, kind : LifecycleKinds \cup {"provision", "remove", Nothing},
           of : Launched \cup {Nothing}, server : {Agent, Nothing}, old : BOOLEAN]
InstanceRow == [row : {"none", "live", "deleted"},
                status : {"none", "provisioning", "running", "stopped", "error", "deleting"},
                known : BOOLEAN, port : Ports]
ContainerRow == [state : {"absent", "up", "down"}, port : Ports, volume : BOOLEAN]
RequestRow == [of : Launched, does : LifecycleKinds \cup {"provision", "remove", "drop", "port"},
               port : Ports, wipe : BOOLEAN]

LaunchTypeOK ==
  /\ job \in [Jobs -> JobRow] /\ hand \in [Executors -> Hand] /\ effects \subseteq [job : Jobs, ok : BOOLEAN, by : Agents]
  /\ instance \in [Launched -> InstanceRow] /\ container \in [Launched -> ContainerRow]
  /\ requests \subseteq RequestRow /\ payload \in Ports /\ wipes \subseteq Jobs
  /\ faults \in Nat /\ setbacks \in Nat

\* The jobs of the server's agent, each of an instance.
Enqueued ==
  \A j \in Jobs : \/ job[j].status = "none" /\ job[j].of = Nothing /\ j \notin wipes
                  \/ job[j].status # "none" /\ job[j].of \in Launched /\ job[j].server = Agent
                       /\ job[j].kind \in LifecycleKinds \cup {"provision", "remove"}

\* What the agent has in hand runs, and what is still to be made of an outcome
\* is of a job that is over.
InHand ==
  \A x \in Agents : hand[x].step # "idle" =>
    x = Agent /\ hand[x].job \in Jobs /\ job[hand[x].job].status = "running"
Effective == \A e \in effects : job[e.job].status \in Final

About(i, kind) == {j \in Jobs : job[j].of = i /\ job[j].kind = kind}

\* An instance is provisioned once, and all else is done with what is known.
ProvisionOnce ==
  \A i \in Launched :
    /\ instance[i].row = "none" => (\A c \in requests : c.of # i) /\ (\A j \in Jobs : job[j].of # i)
    /\ \A c \in requests : c.of = i /\ c.does = "provision" =>
         ~instance[i].known /\ c = Request(i, "provision") /\ About(i, "provision") = {}
    /\ AtMostOne(About(i, "provision"))
    /\ instance[i].known => \A j \in About(i, "provision") : job[j].status \in Final
    /\ \A c \in requests : c.of = i /\ c.does \in LifecycleKinds \cup {"remove"} => instance[i].known
    /\ \A j \in Jobs : job[j].of = i /\ job[j].kind # "provision" => instance[i].known

\* Only removals wipe; what deletes a row is that alone.
Wiping ==
  /\ \A j \in wipes : job[j].kind = "remove"
  /\ \A c \in requests : (c.wipe => c.does = "remove") /\ (c.does = "drop" => c = Request(c.of, "drop"))

HasRemoval(i) == About(i, "remove") # {}
RowGoes(i) == instance[i].row = "deleted" \/ Request(i, "drop") \in requests

\* A row goes with a removal, unless the container was not known, and the other way round.
RemovalsAgree ==
  /\ \A i \in Launched : RowGoes(i) => i \in missed \/ HasRemoval(i)
  /\ Smooth => \A i \in Launched : HasRemoval(i) => RowGoes(i)

\* A removal that was executed.
Executed(j) ==
  job[j].kind = "remove" /\ (job[j].status \in Final \/ \E x \in Agents : hand[x].step = "reporting" /\ hand[x].job = j)

RemovedIsOut ==
  Smooth => \A j \in Jobs, i \in Launched : Executed(j) /\ job[j].of = i =>
    container[i].state = "absent" /\ (j \in wipes => ~container[i].volume)

LaunchInv ==
  LaunchTypeOK /\ Enqueued /\ InHand /\ Effective /\ ProvisionOnce /\ Wiping /\ RemovalsAgree /\ RemovedIsOut

LEMMA AnAgent ==
  ASSUME NEW x \in Agents
  PROVE  Agent \in Agents
BY DEF Agent

LEMMA NothingApart == Nothing \notin Launched /\ Nothing \notin Jobs
BY OperationAssumption DEF OperationAssumption, Launched

LEMMA GoneIsRow == Gone \in ContainerRow /\ Gone.state = "absent" /\ Gone.volume = FALSE /\ Gone.port \in Ports
<1>1. (CHOOSE p \in Ports : TRUE) \in Ports
  BY ProvisioningAssumption DEF ProvisioningAssumption
<1> QED BY <1>1 DEF Gone, ContainerRow

\* What requests do, besides enqueueing: rows and removals go on.
RowsGrow ==
  /\ instance' \in [Launched -> InstanceRow]
  /\ \A i \in Launched : /\ instance'[i].row = "none" <=> instance[i].row = "none"
                         /\ instance[i].row = "deleted" => instance'[i].row = "deleted"
                         /\ instance'[i].known = instance[i].known
                         /\ IsLive(i)' => instance'[i].status \in {instance[i].status, "error"}

RequestsKeep ==
  /\ requests' \subseteq RequestRow
  /\ \A c \in requests' \ requests :
       /\ c.does # "provision" /\ instance[c.of].row # "none"
       /\ c.does \in LifecycleKinds \cup {"remove"} => instance[c.of].known
       /\ c.wipe => c.does = "remove"
       /\ c.does = "drop" => c = Request(c.of, "drop")

Asking ==
  /\ UNCHANGED <<job, hand, effects, faults, container, wipes, payload>> /\ RowsGrow /\ RequestsKeep
  /\ setbacks' \in Nat /\ (Smooth' => Smooth)
  /\ missed \subseteq missed' /\ \A i \in Launched : RowGoes(i)' => RowGoes(i) \/ i \in missed'
  /\ Smooth' => \A i \in Launched : /\ RowGoes(i) => RowGoes(i)'
                                    /\ IsLive(i)' => instance'[i].status = instance[i].status

LEMMA AskingKeeps ==
  ASSUME LaunchInv, Asking
  PROVE  LaunchInv'
<1>1. LaunchTypeOK'
  BY DEF LaunchInv, LaunchTypeOK, Asking, RowsGrow, RequestsKeep
<1>2. Enqueued' /\ InHand' /\ Effective'
  BY DEF LaunchInv, Enqueued, InHand, Effective, Asking
<1>3. \A i \in Launched : \A kind : About(i, kind)' = About(i, kind)
  BY DEF About, Asking
<1>4. ProvisionOnce'
  <2>1. \A c \in requests' : c \in requests \/ (c \in requests' \ requests /\ c.of \in Launched)
    BY DEF Asking, RequestsKeep, RequestRow
  <2>2. \A c : Request(c.of, "provision")' = Request(c.of, "provision")
    BY DEF Request, Gone
  <2>3. ASSUME NEW i \in Launched
        PROVE  /\ instance'[i].row = "none" => (\A c \in requests' : c.of # i) /\ (\A j \in Jobs : job'[j].of # i)
               /\ \A c \in requests' : c.of = i /\ c.does = "provision" =>
                    ~instance'[i].known /\ c = Request(i, "provision")' /\ About(i, "provision")' = {}
               /\ \A c \in requests' : c.of = i /\ c.does \in LifecycleKinds \cup {"remove"} => instance'[i].known
    <3>1. instance'[i].row = "none" => (\A c \in requests' : c.of # i) /\ (\A j \in Jobs : job'[j].of # i)
      BY <2>1 DEF LaunchInv, ProvisionOnce, Asking, RowsGrow, RequestsKeep
    <3>2. \A c \in requests' : c.of = i /\ c.does = "provision" =>
            ~instance'[i].known /\ c = Request(i, "provision")' /\ About(i, "provision")' = {}
      BY <1>3, <2>1, <2>2 DEF LaunchInv, ProvisionOnce, Asking, RowsGrow, RequestsKeep
    <3>3. \A c \in requests' : c.of = i /\ c.does \in LifecycleKinds \cup {"remove"} => instance'[i].known
      BY <2>1 DEF LaunchInv, ProvisionOnce, Asking, RowsGrow, RequestsKeep
    <3> QED BY <3>1, <3>2, <3>3
  <2>4. ASSUME NEW i \in Launched
        PROVE  /\ AtMostOne(About(i, "provision")')
               /\ instance'[i].known => \A j \in About(i, "provision")' : job'[j].status \in Final
               /\ \A j \in Jobs : job'[j].of = i /\ job'[j].kind # "provision" => instance'[i].known
    BY <1>3 DEF LaunchInv, ProvisionOnce, Asking, RowsGrow
  <2> QED BY <2>3, <2>4 DEF ProvisionOnce, AtMostOne
<1>5. Wiping'
  <2>1. \A c : Request(c.of, "drop")' = Request(c.of, "drop")
    BY DEF Request, Gone
  <2> QED BY <2>1 DEF LaunchInv, Wiping, Asking, RequestsKeep
<1>6. RemovalsAgree'
  BY <1>3 DEF LaunchInv, RemovalsAgree, HasRemoval, Asking
<1>7. RemovedIsOut'
  <2>1. \A j \in Jobs : Executed(j)' <=> Executed(j)
    BY DEF Executed, Asking
  <2> QED BY <2>1 DEF LaunchInv, RemovedIsOut, Asking
<1> QED BY <1>1, <1>2, <1>4, <1>5, <1>6, <1>7 DEF LaunchInv

\* A request that is begun.
LEMMA Asked ==
  ASSUME LaunchInv, NEW c \in RequestRow, Begin(c),
         c.does # "provision", instance[c.of].row # "none",
         c.does \in LifecycleKinds \cup {"remove"} => instance[c.of].known,
         c.wipe => c.does = "remove", c.does = "drop" => c = Request(c.of, "drop"),
         UNCHANGED <<opsVars, instance, container, payload, wipes, setbacks>>,
         missed \subseteq missed', \A i \in Launched : c = Request(i, "drop") => i \in missed'
  PROVE  Asking
<1>1. requests' = requests \cup {c}
  BY DEF Begin
<1>2. RequestsKeep
  BY <1>1 DEF RequestsKeep, LaunchInv, LaunchTypeOK
<1>3. RowsGrow
  BY DEF RowsGrow, LaunchInv, LaunchTypeOK
<1>4. \A i \in Launched : Request(i, "drop")' = Request(i, "drop")
  BY DEF Request, Gone
<1>5. \A i \in Launched : (RowGoes(i)' => RowGoes(i) \/ i \in missed') /\ (RowGoes(i) => RowGoes(i)')
  BY <1>1, <1>4 DEF RowGoes
<1> QED BY <1>2, <1>3, <1>5 DEF Asking, Smooth, opsVars, LaunchInv, LaunchTypeOK

LEMMA RequestsAsk ==
  ASSUME LaunchInv,
         \/ \E i \in Launched, p \in Ports : ChangePort(i, p)
         \/ \E i \in Launched, action \in LifecycleKinds : Lifecycle(i, action)
         \/ \E i \in Launched, volume \in BOOLEAN : Delete(i, volume)
  PROVE  Asking
<1>1. ASSUME NEW i \in Launched, NEW p \in Ports, ChangePort(i, p) PROVE Asking
  <2>1. PICK c : c = [Request(i, "port") EXCEPT !.port = p]
    OBVIOUS
  <2>2. c \in RequestRow /\ c.of = i /\ c.does = "port" /\ c.wipe = FALSE
    BY <2>1, GoneIsRow DEF Request, RequestRow, LifecycleKinds
  <2>3. Begin(c) /\ IsLive(i) /\ UNCHANGED <<opsVars, instance, container, payload, wipes, missed, setbacks>>
    BY <1>1, <2>1 DEF ChangePort
  <2>4. \A o \in Launched : c # Request(o, "drop")
    BY <2>2 DEF Request
  <2> QED BY <2>2, <2>3, <2>4, Asked DEF IsLive, LifecycleKinds
<1>2. ASSUME NEW i \in Launched, NEW action \in LifecycleKinds, Lifecycle(i, action) PROVE Asking
  <2>1. PICK c : c = Request(i, action)
    OBVIOUS
  <2>2. c \in RequestRow /\ c.of = i /\ c.does = action /\ c.wipe = FALSE
    BY <2>1, GoneIsRow DEF Request, RequestRow, LifecycleKinds
  <2>3. Begin(c) /\ IsLive(i) /\ instance[i].known /\ UNCHANGED <<opsVars, instance, container, payload, wipes, missed, setbacks>>
    BY <1>2, <2>1 DEF Lifecycle, Provisioned
  <2>4. \A o \in Launched : c # Request(o, "drop")
    BY <2>2 DEF Request, LifecycleKinds
  <2> QED BY <2>2, <2>3, <2>4, Asked DEF IsLive, LifecycleKinds
<1>3. ASSUME NEW i \in Launched, NEW volume \in BOOLEAN, Delete(i, volume), Provisioned(i) PROVE Asking
  <2>1. PICK c : c = [Request(i, "remove") EXCEPT !.wipe = volume]
    OBVIOUS
  <2>2. c \in RequestRow /\ c.of = i /\ c.does = "remove"
    BY <2>1, GoneIsRow DEF Request, RequestRow, LifecycleKinds
  <2>3. Begin(c) /\ IsLive(i) /\ instance[i].known /\ UNCHANGED <<opsVars, instance, container, payload, wipes, missed, setbacks>>
    BY <1>3, <2>1 DEF Delete, Provisioned
  <2>4. \A o \in Launched : c # Request(o, "drop")
    BY <2>2 DEF Request
  <2> QED BY <2>2, <2>3, <2>4, Asked DEF IsLive
<1>4. ASSUME NEW i \in Launched, NEW volume \in BOOLEAN, Delete(i, volume), ~Provisioned(i) PROVE Asking
  <2>1. PICK c : c = Request(i, "drop")
    OBVIOUS
  <2>2. c \in RequestRow /\ c.of = i /\ c.does = "drop" /\ c.wipe = FALSE
    BY <2>1, GoneIsRow DEF Request, RequestRow, LifecycleKinds
  <2>3. /\ Begin(c) /\ IsLive(i) /\ UNCHANGED <<opsVars, instance, container, payload, wipes, setbacks>>
        /\ missed' = missed \cup {i}
    BY <1>4, <2>1 DEF Delete
  <2>4. \A o \in Launched : c = Request(o, "drop") => o = i
    BY <2>2 DEF Request
  <2> QED BY <2>1, <2>2, <2>3, <2>4, Asked DEF IsLive, LifecycleKinds
<1> QED BY <1>1, <1>2, <1>3, <1>4

LEMMA WritesAsk ==
  ASSUME LaunchInv, NEW c \in requests, WritePort(c) \/ DeleteRow(c) \/ EnqueueFails(c) \/ RequestCut(c)
  PROVE  Asking
<1>1. c \in RequestRow /\ c.of \in Launched /\ instance[c.of] \in InstanceRow /\ LaunchTypeOK
  BY DEF LaunchInv, LaunchTypeOK, RequestRow
<1>2. requests' = requests \ {c} /\ UNCHANGED <<opsVars, container, payload, wipes, missed>>
  BY DEF WritePort, DeleteRow, EnqueueFails, RequestCut
<1>3. RequestsKeep
  BY <1>1, <1>2 DEF RequestsKeep, LaunchTypeOK
<1>4. setbacks' \in Nat /\ (Smooth' => Smooth) /\ (EnqueueFails(c) \/ RequestCut(c) => ~Smooth')
  BY <1>1 DEF WritePort, DeleteRow, EnqueueFails, RequestCut, Setback, Smooth, LaunchTypeOK, opsVars
<1>5. \A i \in Launched \ {c.of} : instance'[i] = instance[i]
  BY <1>1 DEF WritePort, DeleteRow, EnqueueFails, RequestCut, LaunchTypeOK
<1>6. /\ instance' \in [Launched -> InstanceRow]
      /\ ~IsLive(c.of) => instance'[c.of] = instance[c.of]
      /\ instance'[c.of].known = instance[c.of].known
      /\ ~DeleteRow(c) => instance'[c.of].row = instance[c.of].row
      /\ ~DeleteRow(c) => instance'[c.of].status \in {instance[c.of].status, "error"}
      /\ WritePort(c) => instance'[c.of].status = instance[c.of].status
      /\ DeleteRow(c) => ~IsLive(c.of)' /\ (IsLive(c.of) => instance'[c.of].row = "deleted")
  <2>1. CASE UNCHANGED instance /\ (DeleteRow(c) => ~IsLive(c.of))
    BY <1>1, <2>1 DEF LaunchTypeOK, IsLive
  <2>2. CASE WritePort(c)
    <3>1. ~DeleteRow(c) /\ ~EnqueueFails(c)
      BY <2>2 DEF WritePort, DeleteRow, EnqueueFails
    <3>2. UNCHANGED instance \/ (IsLive(c.of) /\ instance' = [instance EXCEPT ![c.of].port = c.port])
      BY <2>2 DEF WritePort
    <3>3. c.port \in Ports
      BY <1>1 DEF RequestRow
    <3> QED BY <1>1, <2>1, <3>1, <3>2, <3>3 DEF LaunchTypeOK, InstanceRow, IsLive
  <2>3. CASE EnqueueFails(c)
    <3>1. ~DeleteRow(c) /\ ~WritePort(c)
      BY <2>3 DEF WritePort, DeleteRow, EnqueueFails
    <3>2. UNCHANGED instance \/ (IsLive(c.of) /\ instance' = [instance EXCEPT ![c.of].status = "error"])
      BY <2>3 DEF EnqueueFails
    <3> QED BY <1>1, <2>1, <3>1, <3>2 DEF LaunchTypeOK, InstanceRow, IsLive
  <2>4. CASE DeleteRow(c)
    <3>1. ~WritePort(c)
      BY <2>4 DEF WritePort, DeleteRow
    <3>2. \/ UNCHANGED instance /\ ~IsLive(c.of)
          \/ IsLive(c.of) /\ instance' = [instance EXCEPT ![c.of].row = "deleted", ![c.of].status = "deleting"]
      BY <2>4 DEF DeleteRow
    <3> QED BY <1>1, <2>1, <2>4, <3>1, <3>2 DEF LaunchTypeOK, InstanceRow, IsLive
  <2>5. CASE RequestCut(c) /\ ~DeleteRow(c)
    BY <2>1, <2>5 DEF RequestCut
  <2> QED BY <2>2, <2>3, <2>4, <2>5
<1>7. instance[c.of].row # "none"
  BY <1>1 DEF LaunchInv, ProvisionOnce
<1>8. DeleteRow(c) => IsLive(c.of) \/ instance[c.of].row = "deleted"
  BY <1>1, <1>7 DEF InstanceRow, IsLive
<1>9. RowsGrow
  <2>1. \A i \in Launched : /\ instance'[i].row = "none" <=> instance[i].row = "none"
                            /\ instance[i].row = "deleted" => instance'[i].row = "deleted"
                            /\ instance'[i].known = instance[i].known
                            /\ IsLive(i)' => instance'[i].status \in {instance[i].status, "error"}
    BY <1>5, <1>6, <1>7, <1>8 DEF IsLive
  <2> QED BY <1>6, <2>1 DEF RowsGrow
<1>10. \A i \in Launched : Request(i, "drop")' = Request(i, "drop")
  BY DEF Request, Gone
<1>11. \A i \in Launched : c = Request(i, "drop") => i = c.of /\ c.does = "drop"
  BY DEF Request
<1>12. \A i \in Launched : RowGoes(i)' => RowGoes(i)
  <2>1. DeleteRow(c) => RowGoes(c.of)
    BY DEF DeleteRow, LaunchInv, Wiping, RowGoes
  <2> QED BY <1>2, <1>5, <1>6, <1>10, <2>1 DEF RowGoes
<1>13. Smooth' => \A i \in Launched : RowGoes(i) => RowGoes(i)'
  <2>1. WritePort(c) => c.does = "port"
    BY DEF WritePort
  <2>2. DeleteRow(c) => instance'[c.of].row = "deleted"
    BY <1>6, <1>8 DEF IsLive
  <2> QED BY <1>2, <1>4, <1>9, <1>10, <1>11, <2>1, <2>2 DEF RowGoes, RowsGrow
<1>14. Smooth' => \A i \in Launched : IsLive(i)' => instance'[i].status = instance[i].status
  BY <1>4, <1>5, <1>6 DEF IsLive
<1> QED BY <1>2, <1>3, <1>4, <1>9, <1>12, <1>13, <1>14 DEF Asking, opsVars

\* The rows of the jobs table stay, and what is over stays so.
JobsKept ==
  /\ job' \in [Jobs -> JobRow]
  /\ \A j \in Jobs : /\ job'[j].of = job[j].of /\ job'[j].kind = job[j].kind /\ job'[j].server = job[j].server
                     /\ job'[j].status = "none" <=> job[j].status = "none"
                     /\ job[j].status \in Final => job'[j].status = job[j].status

LEMMA JobsStay ==
  ASSUME LaunchInv, JobsKept, UNCHANGED <<instance, requests, wipes, missed>>, Smooth' => Smooth
  PROVE  Enqueued' /\ ProvisionOnce' /\ Wiping' /\ RemovalsAgree'
<1>1. \A i \in Launched : \A kind : About(i, kind)' = About(i, kind)
  BY DEF About, JobsKept
<1>2. Enqueued'
  BY DEF LaunchInv, Enqueued, JobsKept
<1>3. \A i, does : Request(i, does)' = Request(i, does)
  BY DEF Request, Gone
<1>4. ProvisionOnce'
  <2>1. ASSUME NEW i \in Launched
        PROVE  /\ instance'[i].row = "none" => (\A c \in requests' : c.of # i) /\ (\A j \in Jobs : job'[j].of # i)
               /\ \A c \in requests' : c.of = i /\ c.does = "provision" =>
                    ~instance'[i].known /\ c = Request(i, "provision")' /\ About(i, "provision")' = {}
               /\ AtMostOne(About(i, "provision")')
               /\ instance'[i].known => \A j \in About(i, "provision")' : job'[j].status \in Final
               /\ \A c \in requests' : c.of = i /\ c.does \in LifecycleKinds \cup {"remove"} => instance'[i].known
               /\ \A j \in Jobs : job'[j].of = i /\ job'[j].kind # "provision" => instance'[i].known
    <3>1. \A j \in About(i, "provision") : j \in Jobs
      BY DEF About
    <3>2. instance'[i].known => \A j \in About(i, "provision")' : job'[j].status \in Final
      BY <1>1, <3>1 DEF LaunchInv, ProvisionOnce, JobsKept
    <3>3. \A c \in requests' : c.of = i /\ c.does = "provision" =>
            ~instance'[i].known /\ c = Request(i, "provision")' /\ About(i, "provision")' = {}
      BY <1>1, <1>3 DEF LaunchInv, ProvisionOnce
    <3>4. /\ instance'[i].row = "none" => (\A c \in requests' : c.of # i) /\ (\A j \in Jobs : job'[j].of # i)
          /\ AtMostOne(About(i, "provision")')
          /\ \A c \in requests' : c.of = i /\ c.does \in LifecycleKinds \cup {"remove"} => instance'[i].known
          /\ \A j \in Jobs : job'[j].of = i /\ job'[j].kind # "provision" => instance'[i].known
      BY <1>1 DEF LaunchInv, ProvisionOnce, JobsKept
    <3> QED BY <3>2, <3>3, <3>4
  <2> QED BY <2>1 DEF ProvisionOnce, AtMostOne
<1>5. Wiping'
  BY <1>3 DEF LaunchInv, Wiping, JobsKept, LaunchTypeOK
<1>6. RemovalsAgree'
  BY <1>1, <1>3 DEF LaunchInv, RemovalsAgree, HasRemoval, RowGoes
<1> QED BY <1>2, <1>4, <1>5, <1>6

LEMMA HandOf ==
  ASSUME LaunchInv, NEW x \in Agents, hand[x].step # "idle"
  PROVE  /\ x = Agent /\ x \in Executors /\ hand[x] \in Hand /\ hand[x].job \in Jobs
         /\ job[hand[x].job].status = "running" /\ job[hand[x].job] \in JobRow
         /\ Target(x) \in Launched /\ Target(x) = job[hand[x].job].of
         /\ container[Target(x)] \in ContainerRow /\ instance[Target(x)] \in InstanceRow
<1>1. hand[x].job \in Jobs /\ job[hand[x].job].status = "running" /\ x = Agent /\ x \in Executors
  BY DEF LaunchInv, InHand, Executors
<1>2. Target(x) = job[hand[x].job].of /\ Target(x) \in Launched
  BY <1>1 DEF LaunchInv, Enqueued, Target
<1> QED BY <1>1, <1>2 DEF LaunchInv, LaunchTypeOK

LEMMA ClaimLaunches ==
  ASSUME LaunchInv, NEW x \in Agents, NEW j \in Jobs, Claim(x, j)
  PROVE  LaunchInv'
<1>1. /\ hand[x].step = "idle" /\ j \in Queue(x)
      /\ job' = [job EXCEPT ![j].status = "running"]
      /\ hand' = [hand EXCEPT ![x] = [step |-> "claimed", job |-> j, ok |-> FALSE]]
      /\ UNCHANGED <<effects, faults, instance, container, requests, payload, wipes, missed, setbacks>>
  BY DEF Claim, ClaimNext
<1>2. job[j].status = "pending" /\ job[j] \in JobRow /\ x \in Executors /\ x = Agent
  <2>1. job[j].status = "pending" /\ job[j].server = x
    BY <1>1 DEF Queue
  <2> QED BY <2>1 DEF LaunchInv, LaunchTypeOK, Enqueued, Executors
<1>3. JobsKept /\ job'[j].status = "running" /\ \A k \in Jobs \ {j} : job'[k] = job[k]
  BY <1>1, <1>2 DEF LaunchInv, LaunchTypeOK, JobsKept, JobRow, Open, Final
<1>4. /\ hand' \in [Executors -> Hand] /\ hand'[x].step = "claimed" /\ hand'[x].job = j
      /\ \A y \in Agents \ {x} : hand'[y] = hand[y]
  BY <1>1, <1>2 DEF LaunchInv, LaunchTypeOK, Hand, Executors
<1>5. LaunchTypeOK'
  BY <1>1, <1>3, <1>4 DEF LaunchInv, LaunchTypeOK, JobsKept
<1>6. Enqueued' /\ ProvisionOnce' /\ Wiping' /\ RemovalsAgree'
  BY <1>1, <1>3, JobsStay DEF Smooth
<1>7. InHand'
  BY <1>2, <1>3, <1>4 DEF LaunchInv, InHand
<1>8. Effective'
  <2>1. \A e \in effects : e.job \in Jobs /\ e.job # j
    BY <1>2 DEF LaunchInv, LaunchTypeOK, Effective, Final
  <2> QED BY <1>1, <1>3, <2>1 DEF LaunchInv, Effective
<1>9. RemovedIsOut'
  <2>1. \A k \in Jobs : Executed(k)' => Executed(k)
    BY <1>3, <1>4 DEF Executed, JobsKept, Final
  <2>2. \A k \in Jobs : job'[k].of = job[k].of
    BY <1>3 DEF JobsKept
  <2> QED BY <1>1, <2>1, <2>2 DEF LaunchInv, RemovedIsOut, Smooth
<1> QED BY <1>5, <1>6, <1>7, <1>8, <1>9 DEF LaunchInv

\* The agent goes on with its job, and containers change.
LEMMA HandGoesOn ==
  ASSUME LaunchInv, NEW x \in Agents, hand[x].step # "idle",
         NEW step \in {"executing", "reporting"}, NEW ok \in BOOLEAN,
         \/ hand' = [hand EXCEPT ![x].step = step] /\ ok = hand[x].ok
         \/ hand' = [hand EXCEPT ![x].step = step, ![x].ok = ok]
  PROVE  /\ hand' \in [Executors -> Hand]
         /\ hand'[x].step = step /\ hand'[x].job = hand[x].job /\ hand'[x].ok = ok
         /\ \A y \in Agents \ {x} : hand'[y] = hand[y]
BY HandOf DEF LaunchInv, LaunchTypeOK, Hand, Executors

LEMMA WorkLaunches ==
  ASSUME LaunchInv, NEW x \in Agents, hand[x].step # "idle",
         UNCHANGED <<job, effects, instance, requests, wipes, missed>>, Smooth' => Smooth,
         hand' \in [Executors -> Hand], hand'[x].job = hand[x].job, \A y \in Agents \ {x} : hand'[y] = hand[y],
         container' \in [Launched -> ContainerRow], payload' \in Ports, faults' \in Nat, setbacks' \in Nat,
         RemovedIsOut'
  PROVE  LaunchInv'
<1>1. JobsKept
  BY DEF JobsKept, LaunchInv, LaunchTypeOK
<1>2. LaunchTypeOK'
  BY DEF LaunchInv, LaunchTypeOK
<1>3. InHand' /\ Effective'
  BY HandOf DEF LaunchInv, InHand, Effective
<1> QED BY <1>1, <1>2, <1>3, JobsStay DEF LaunchInv

LEMMA PayloadLaunches ==
  ASSUME LaunchInv, NEW x \in Agents, ProvisionPayload(x)
  PROVE  LaunchInv'
<1>1. /\ hand[x].step = "claimed"
      /\ UNCHANGED <<job, effects, faults, instance, container, requests, wipes, missed, setbacks>>
  BY DEF ProvisionPayload, Refuse, Prepare
<1>2. payload' \in Ports
  BY <1>1, HandOf DEF ProvisionPayload, InstanceRow, LaunchInv, LaunchTypeOK
<1>3. \/ hand' = [hand EXCEPT ![x].step = "executing"]
      \/ hand' = [hand EXCEPT ![x].step = "reporting", ![x].ok = FALSE] /\ job[hand[x].job].kind = "provision"
  BY DEF ProvisionPayload, Refuse, Prepare
<1>4. /\ hand' \in [Executors -> Hand] /\ hand'[x].job = hand[x].job /\ \A y \in Agents \ {x} : hand'[y] = hand[y]
      /\ hand'[x].step = "reporting" => job[hand[x].job].kind = "provision"
  <2>1. hand[x].ok \in BOOLEAN
    BY <1>1, HandOf DEF Hand
  <2> QED BY <1>1, <1>3, <2>1, HandGoesOn
<1>5. RemovedIsOut'
  <2>1. \A k \in Jobs : Executed(k)' => Executed(k)
    BY <1>1, <1>4 DEF Executed
  <2> QED BY <1>1, <2>1 DEF LaunchInv, RemovedIsOut, Smooth
<1>6. container' \in [Launched -> ContainerRow] /\ faults' \in Nat /\ setbacks' \in Nat /\ (Smooth' => Smooth)
  BY <1>1 DEF LaunchInv, LaunchTypeOK, Smooth
<1> QED BY <1>1, <1>2, <1>4, <1>5, <1>6, WorkLaunches

\* The row and the request of a new instance.
LEMMA ProvisionLaunches ==
  ASSUME LaunchInv, NEW i \in Launched, NEW p \in Ports, Provision(i, p)
  PROVE  LaunchInv'
<1>1. PICK c : c = Request(i, "provision")
  OBVIOUS
<1>2. c \in RequestRow /\ c.of = i /\ c.does = "provision" /\ c.wipe = FALSE
  BY <1>1, GoneIsRow DEF Request, RequestRow, LifecycleKinds
<1>3. /\ instance[i].row = "none" /\ requests' = requests \cup {c}
      /\ UNCHANGED <<job, hand, effects, faults, container, payload, wipes, missed, setbacks>>
  BY <1>1 DEF Provision, Begin, opsVars
<1>4. /\ instance' \in [Launched -> InstanceRow] /\ instance'[i].row = "live" /\ ~instance'[i].known
      /\ \A o \in Launched \ {i} : instance'[o] = instance[o]
  BY DEF Provision, LaunchInv, LaunchTypeOK, InstanceRow
<1>5. LaunchTypeOK'
  BY <1>2, <1>3, <1>4 DEF LaunchInv, LaunchTypeOK
<1>6. Enqueued' /\ InHand' /\ Effective' /\ RemovedIsOut'
  <2>1. \A j : Executed(j)' <=> Executed(j)
    BY <1>3 DEF Executed
  <2> QED BY <1>3, <2>1 DEF LaunchInv, Enqueued, InHand, Effective, RemovedIsOut, Smooth
<1>7. \A o \in Launched : \A kind : About(o, kind)' = About(o, kind)
  BY <1>3 DEF About
<1>8. \A o, does : Request(o, does)' = Request(o, does)
  BY DEF Request, Gone
<1>9. ProvisionOnce'
  <2>1. (\A d \in requests : d.of # i) /\ (\A j \in Jobs : job[j].of # i)
    BY <1>3 DEF LaunchInv, ProvisionOnce
  <2>2. About(i, "provision") = {}
    BY <2>1 DEF About
  <2>3. ASSUME NEW o \in Launched
        PROVE  /\ instance'[o].row = "none" => (\A d \in requests' : d.of # o) /\ (\A j \in Jobs : job'[j].of # o)
               /\ \A d \in requests' : d.of = o /\ d.does = "provision" =>
                    ~instance'[o].known /\ d = Request(o, "provision")' /\ About(o, "provision")' = {}
               /\ AtMostOne(About(o, "provision")')
               /\ instance'[o].known => \A j \in About(o, "provision")' : job'[j].status \in Final
               /\ \A d \in requests' : d.of = o /\ d.does \in LifecycleKinds \cup {"remove"} => instance'[o].known
               /\ \A j \in Jobs : job'[j].of = o /\ job'[j].kind # "provision" => instance'[o].known
    <3>1. CASE o = i
      BY <1>1, <1>2, <1>3, <1>4, <1>7, <1>8, <2>1, <2>2, <3>1 DEF AtMostOne, LifecycleKinds
    <3>2. CASE o # i
      <4>1. instance'[o] = instance[o] /\ \A d \in requests' : d.of = o => d \in requests
        BY <1>2, <1>3, <1>4, <3>2
      <4>2. \A d \in requests' : d.of = o /\ d.does = "provision" =>
              ~instance'[o].known /\ d = Request(o, "provision")' /\ About(o, "provision")' = {}
        BY <1>7, <1>8, <4>1 DEF LaunchInv, ProvisionOnce
      <4> QED BY <1>3, <1>7, <4>1, <4>2 DEF LaunchInv, ProvisionOnce
    <3> QED BY <3>1, <3>2
  <2> QED BY <2>3 DEF ProvisionOnce, AtMostOne
<1>10. Wiping'
  BY <1>2, <1>3, <1>8 DEF LaunchInv, Wiping
<1>11. RemovalsAgree'
  <2>1. \A o \in Launched : Request(o, "drop") # c
    BY <1>2 DEF Request
  <2>2. \A o \in Launched : RowGoes(o)' <=> RowGoes(o)
    BY <1>3, <1>4, <1>8, <2>1 DEF RowGoes
  <2> QED BY <1>3, <1>7, <2>2 DEF LaunchInv, RemovalsAgree, HasRemoval, Smooth
<1> QED BY <1>5, <1>6, <1>9, <1>10, <1>11 DEF LaunchInv

\* The job of a request.
LEMMA EnqueueLaunches ==
  ASSUME LaunchInv, NEW c \in requests, NEW j \in Jobs, EnqueueJob(c, j)
  PROVE  LaunchInv'
<1>1. /\ job[j].status = "none" /\ NeedsJob(c)
      /\ job' = [job EXCEPT ![j] = [status |-> "pending", kind |-> c.does, of |-> c.of, server |-> Agent, old |-> FALSE]]
      /\ UNCHANGED <<hand, effects, faults, instance, container, payload, missed, setbacks>>
      /\ requests' = (requests \ {c}) \cup IF c.does = "remove" THEN {Request(c.of, "drop")} ELSE {}
      /\ wipes' = IF c.wipe THEN wipes \cup {j} ELSE wipes
  BY DEF EnqueueJob, Create, NewJob
<1>2. c \in RequestRow /\ c.of \in Launched /\ c.does \in LifecycleKinds \cup {"provision", "remove"}
  BY <1>1 DEF LaunchInv, LaunchTypeOK, RequestRow, NeedsJob
<1>3. /\ job' \in [Jobs -> JobRow] /\ job'[j].status = "pending" /\ job'[j].kind = c.does /\ job'[j].of = c.of
      /\ job'[j].server = Agent /\ \A k \in Jobs \ {j} : job'[k] = job[k]
  <2>1. [status |-> "pending", kind |-> c.does, of |-> c.of, server |-> Agent, old |-> FALSE] \in JobRow
    BY <1>2 DEF JobRow, Open
  <2> QED BY <1>1, <2>1 DEF LaunchInv, LaunchTypeOK
<1>4. PICK d : d = Request(c.of, "drop")
  OBVIOUS
<1>5. d \in RequestRow /\ d.of = c.of /\ d.does = "drop" /\ d.wipe = FALSE
  BY <1>2, <1>4, GoneIsRow DEF Request, RequestRow
<1>6. \A o, does : Request(o, does)' = Request(o, does)
  BY DEF Request, Gone
<1>7. /\ requests' \subseteq (requests \ {c}) \cup {d} /\ requests \ {c} \subseteq requests'
      /\ d \in requests' /\ d \notin requests => c.does = "remove"
      /\ c.does = "remove" => d \in requests'
  BY <1>1, <1>4
<1>8. LaunchTypeOK'
  <2>1. wipes' \subseteq Jobs
    BY <1>1 DEF LaunchInv, LaunchTypeOK
  <2>2. requests' \subseteq RequestRow
    BY <1>5, <1>7 DEF LaunchInv, LaunchTypeOK
  <2> QED BY <1>1, <1>3, <2>1, <2>2 DEF LaunchInv, LaunchTypeOK
<1>9. j \notin wipes /\ job[j].of = Nothing /\ Nothing \notin Launched
  BY <1>1, NothingApart DEF LaunchInv, Enqueued
<1>10. Enqueued'
  <2>1. \A k \in Jobs \ {j} : k \in wipes' => k \in wipes
    BY <1>1
  <2> QED BY <1>2, <1>3, <2>1 DEF LaunchInv, Enqueued
<1>11. InHand' /\ Effective'
  <2>1. \A e \in effects : e.job \in Jobs /\ e.job # j
    BY <1>1 DEF LaunchInv, LaunchTypeOK, Effective, Final
  <2>2. \A x \in Agents : hand[x].step # "idle" => hand[x].job \in Jobs /\ hand[x].job # j
    BY <1>1 DEF LaunchInv, InHand
  <2> QED BY <1>1, <1>3, <2>1, <2>2 DEF LaunchInv, InHand, Effective
<1>12. \A o \in Launched : \A kind :
         \/ About(o, kind)' = About(o, kind) /\ ~(o = c.of /\ kind = c.does)
         \/ About(o, kind)' = About(o, kind) \cup {j} /\ o = c.of /\ kind = c.does
  BY <1>3, <1>9 DEF About
<1>13. instance[c.of].row # "none"
  BY <1>2 DEF LaunchInv, ProvisionOnce
<1>14. ProvisionOnce'
  <2>1. c.does = "provision" => ~instance[c.of].known /\ c = Request(c.of, "provision") /\ About(c.of, "provision") = {}
    BY <1>2 DEF LaunchInv, ProvisionOnce
  <2>2. c.does # "provision" => instance[c.of].known
    BY <1>2 DEF LaunchInv, ProvisionOnce
  <2>3. ASSUME NEW o \in Launched
        PROVE  /\ instance'[o].row = "none" => (\A b \in requests' : b.of # o) /\ (\A k \in Jobs : job'[k].of # o)
               /\ \A b \in requests' : b.of = o /\ b.does = "provision" =>
                    ~instance'[o].known /\ b = Request(o, "provision")' /\ About(o, "provision")' = {}
               /\ AtMostOne(About(o, "provision")')
               /\ instance'[o].known => \A k \in About(o, "provision")' : job'[k].status \in Final
               /\ \A b \in requests' : b.of = o /\ b.does \in LifecycleKinds \cup {"remove"} => instance'[o].known
               /\ \A k \in Jobs : job'[k].of = o /\ job'[k].kind # "provision" => instance'[o].known
    <3>1. instance'[o].row = "none" => (\A b \in requests' : b.of # o) /\ (\A k \in Jobs : job'[k].of # o)
      <4>1. instance[o].row = "none" => o # c.of
        BY <1>13
      <4>2. instance[o].row = "none" => (\A b \in requests : b.of # o) /\ (\A k \in Jobs : job[k].of # o)
        BY DEF LaunchInv, ProvisionOnce
      <4> QED BY <1>1, <1>3, <1>5, <1>7, <4>1, <4>2
    <3>2. ASSUME NEW b \in requests', b.of = o, b.does = "provision"
          PROVE  ~instance'[o].known /\ b = Request(o, "provision")' /\ About(o, "provision")' = {}
      <4>1. b \in requests /\ b # c
        BY <1>5, <1>7, <3>2
      <4>2. ~instance[o].known /\ b = Request(o, "provision") /\ About(o, "provision") = {}
        BY <3>2, <4>1 DEF LaunchInv, ProvisionOnce
      <4>3. ~(o = c.of /\ c.does = "provision")
        BY <2>1, <4>1, <4>2
      <4> QED BY <1>1, <1>6, <1>12, <4>2, <4>3
    <3>3. AtMostOne(About(o, "provision")')
      <4>1. AtMostOne(About(o, "provision"))
        BY DEF LaunchInv, ProvisionOnce
      <4> QED BY <1>12, <2>1, <4>1 DEF AtMostOne
    <3>4. instance'[o].known => \A k \in About(o, "provision")' : job'[k].status \in Final
      <4>1. instance[o].known => About(o, "provision")' = About(o, "provision")
        BY <1>12, <2>1
      <4>2. \A k \in About(o, "provision") : k # j
        BY <1>9 DEF About
      <4>3. \A k \in About(o, "provision") : job'[k] = job[k]
        BY <1>3, <4>2 DEF About
      <4> QED BY <1>1, <4>1, <4>3 DEF LaunchInv, ProvisionOnce
    <3>5. \A b \in requests' : b.of = o /\ b.does \in LifecycleKinds \cup {"remove"} => instance'[o].known
      <4>1. \A b \in requests' : b.does \in LifecycleKinds \cup {"remove"} => b \in requests
        BY <1>5, <1>7 DEF LifecycleKinds
      <4> QED BY <1>1, <4>1 DEF LaunchInv, ProvisionOnce
    <3>6. \A k \in Jobs : job'[k].of = o /\ job'[k].kind # "provision" => instance'[o].known
      BY <1>1, <1>3, <2>2 DEF LaunchInv, ProvisionOnce
    <3> QED BY <3>1, <3>2, <3>3, <3>4, <3>5, <3>6
  <2> QED BY <2>3 DEF ProvisionOnce, AtMostOne
<1>15. Wiping'
  <2>1. \A k \in wipes' : job'[k].kind = "remove"
    <3>1. \A k \in wipes : job[k].kind = "remove" /\ k \in Jobs /\ k # j
      BY <1>9 DEF LaunchInv, Wiping, LaunchTypeOK
    <3>2. c.wipe => c.does = "remove"
      BY DEF LaunchInv, Wiping
    <3> QED BY <1>1, <1>3, <3>1, <3>2
  <2>2. \A b \in requests' : (b.wipe => b.does = "remove") /\ (b.does = "drop" => b = Request(b.of, "drop")')
    <3>1. \A b : Request(b.of, "drop")' = Request(b.of, "drop")
      BY <1>6
    <3> QED BY <1>4, <1>5, <1>7, <3>1 DEF LaunchInv, Wiping
  <2> QED BY <2>1, <2>2 DEF Wiping
<1>16. RemovalsAgree'
  <2>1. \A o \in Launched : HasRemoval(o)' <=> HasRemoval(o) \/ (o = c.of /\ c.does = "remove")
    BY <1>12 DEF HasRemoval
  <2>2. \A o \in Launched : RowGoes(o)' <=> RowGoes(o) \/ (o = c.of /\ c.does = "remove")
    <3>1. \A o \in Launched : Request(o, "drop") # c /\ (Request(o, "drop") = d => o = c.of)
      BY <1>2, <1>4 DEF Request, LifecycleKinds
    <3>2. \A o \in Launched : Request(o, "drop") \in requests' <=> Request(o, "drop") \in requests \/ (o = c.of /\ c.does = "remove")
      BY <1>4, <1>7, <3>1
    <3> QED BY <1>1, <1>6, <3>2 DEF RowGoes
  <2> QED BY <1>1, <2>1, <2>2 DEF LaunchInv, RemovalsAgree, Smooth
<1>17. RemovedIsOut'
  <2>1. ~Executed(j)'
    <3>1. \A x \in Agents : hand[x].step = "reporting" => hand[x].job # j
      BY <1>1 DEF LaunchInv, InHand
    <3> QED BY <1>1, <1>3, <3>1 DEF Executed, Final
  <2>2. \A k \in Jobs \ {j} : (Executed(k)' <=> Executed(k)) /\ job'[k] = job[k] /\ (k \in wipes' <=> k \in wipes)
    BY <1>1, <1>3 DEF Executed
  <2> QED BY <1>1, <2>1, <2>2 DEF LaunchInv, RemovedIsOut, Smooth
<1> QED BY <1>8, <1>10, <1>11, <1>14, <1>15, <1>16, <1>17 DEF LaunchInv

\* An execution at the container of the job's instance.
LEMMA ContainersWork ==
  ASSUME LaunchInv, NEW x \in Agents, NEW ok \in BOOLEAN, Execute(x, ok),
         UNCHANGED <<instance, requests, payload, wipes, missed>>, setbacks' \in Nat, Smooth' => Smooth,
         container' \in [Launched -> ContainerRow],
         Smooth' =>
           /\ job[hand[x].job].kind = "remove" =>
                container'[Target(x)].state = "absent" /\ (hand[x].job \in wipes => ~container'[Target(x)].volume)
           /\ \A o \in Launched :
                \/ container'[o] = container[o] \/ container[o].state # "absent"
                \/ About(o, "remove") = {}
                \/ container'[o].state = "absent" /\ (~container[o].volume => ~container'[o].volume)
  PROVE  LaunchInv'
<1>1. hand[x].step = "executing" /\ UNCHANGED <<job, effects, faults>>
  BY DEF Execute
<1>2. /\ hand' \in [Executors -> Hand] /\ hand'[x].job = hand[x].job
      /\ \A y \in Agents \ {x} : hand'[y] = hand[y]
  BY <1>1, HandGoesOn DEF Execute
<1>3. \A k \in Jobs : Executed(k)' => Executed(k) \/ (k = hand[x].job /\ job[k].kind = "remove")
  BY <1>1, <1>2 DEF Executed
<1>4. Target(x) = job[hand[x].job].of
  BY DEF Target
<1>5. RemovedIsOut'
  <2>1. ASSUME Smooth', NEW k \in Jobs, NEW o \in Launched, Executed(k)', job[k].of = o
        PROVE  container'[o].state = "absent" /\ (k \in wipes => ~container'[o].volume)
    <3>1. CASE k = hand[x].job /\ job[k].kind = "remove"
      BY <1>4, <2>1, <3>1
    <3>2. CASE Executed(k)
      <4>1. container[o].state = "absent" /\ (k \in wipes => ~container[o].volume)
        BY <2>1, <3>2 DEF LaunchInv, RemovedIsOut
      <4>2. k \in About(o, "remove")
        BY <2>1, <3>2 DEF Executed, About
      <4> QED BY <2>1, <4>1, <4>2
    <3> QED BY <1>3, <2>1, <3>1, <3>2
  <2> QED BY <1>1, <2>1 DEF RemovedIsOut
<1>6. payload' \in Ports /\ faults' \in Nat
  BY <1>1 DEF LaunchInv, LaunchTypeOK
<1> QED BY <1>1, <1>2, <1>5, <1>6, WorkLaunches

LEMMA ContainerChanged ==
  ASSUME LaunchInv, NEW i \in Launched, NEW to \in ContainerRow, container' = [container EXCEPT ![i] = to]
  PROVE  /\ container' \in [Launched -> ContainerRow] /\ container'[i] = to
         /\ \A o \in Launched \ {i} : container'[o] = container[o]
BY DEF LaunchInv, LaunchTypeOK

\* What docker makes of the container.
LEMMA DockerKeeps ==
  ASSUME LaunchInv, NEW x \in Agents,
         ProvisionContainer(x) \/ DockerStart(x) \/ DockerStop(x) \/ RemoveContainer(x) \/ DockerFails(x)
  PROVE  LaunchInv'
<1>1. hand[x].step = "executing" /\ hand[x].step # "idle"
  BY DEF ProvisionContainer, DockerStart, DockerStop, RemoveContainer, DockerFails, Execute
<1>2. PICK i \in Launched : i = Target(x)
  BY <1>1, HandOf
<1>3. container[i] \in ContainerRow /\ container \in [Launched -> ContainerRow]
  BY <1>2 DEF LaunchInv, LaunchTypeOK
<1>4. setbacks \in Nat
  BY DEF LaunchInv, LaunchTypeOK
<1>5. CASE ProvisionContainer(x)
  <2>1. PICK to \in ContainerRow : container' = [container EXCEPT ![i] = to]
    <3>1. PICK state \in {"up", "down"} :
            container' = [container EXCEPT ![i] = [state |-> state, port |-> payload, volume |-> TRUE]]
      BY <1>2, <1>5 DEF ProvisionContainer
    <3>2. payload \in Ports
      BY DEF LaunchInv, LaunchTypeOK
    <3> QED BY <3>1, <3>2 DEF ContainerRow
  <2>2. About(i, "remove") = {}
    <3>1. hand[x].job \in About(i, "provision") /\ job[hand[x].job].status = "running"
      BY <1>1, <1>2, <1>5, HandOf DEF About, ProvisionContainer, Doing
    <3>2. ~instance[i].known
      BY <3>1 DEF LaunchInv, ProvisionOnce, Final
    <3> QED BY <3>2 DEF LaunchInv, ProvisionOnce, About
  <2>3. PICK ok \in BOOLEAN : Execute(x, ok)
    BY <1>5 DEF ProvisionContainer, Startable
  <2>4. job[hand[x].job].kind # "remove" /\ UNCHANGED <<instance, requests, wipes, missed, payload, setbacks, faults>>
    BY <1>5 DEF ProvisionContainer, Doing, Execute
  <2>5. /\ container' \in [Launched -> ContainerRow]
        /\ \A o \in Launched : container'[o] = container[o] \/ About(o, "remove") = {}
    BY <2>1, <2>2, ContainerChanged
  <2>6. setbacks' \in Nat /\ (Smooth' => Smooth)
    BY <1>4, <2>4 DEF Smooth
  <2> QED BY <2>3, <2>4, <2>5, <2>6, ContainersWork
<1>6. CASE DockerStart(x)
  <2>1. PICK to \in ContainerRow : container' = [container EXCEPT ![i] = to] /\ (container[i].state = "absent" => to = container[i])
    <3>1. /\ [container[i] EXCEPT !.state = "up"] \in ContainerRow /\ [container[i] EXCEPT !.state = "down"] \in ContainerRow
          /\ container = [container EXCEPT ![i] = container[i]]
      BY <1>3 DEF ContainerRow
    <3>2. \/ container' = [container EXCEPT ![i] = [container[i] EXCEPT !.state = "up"]] /\ container[i].state # "absent"
          \/ container' = [container EXCEPT ![i] = [container[i] EXCEPT !.state = "down"]] /\ container[i].state # "absent"
          \/ container' = container
      BY <1>2, <1>3, <1>6 DEF DockerStart
    <3> QED BY <1>3, <3>1, <3>2
  <2>2. container'[i] = container[i] \/ container[i].state # "absent"
    BY <2>1, ContainerChanged
  <2>3. PICK ok \in BOOLEAN : Execute(x, ok)
    BY <1>6 DEF DockerStart, Startable
  <2>4. job[hand[x].job].kind # "remove" /\ UNCHANGED <<instance, requests, wipes, missed, payload, setbacks, faults>>
    BY <1>6 DEF DockerStart, Doing, Execute
  <2> QED BY <1>4, <2>1, <2>2, <2>3, <2>4, ContainerChanged, ContainersWork DEF Smooth
<1>7. CASE DockerStop(x)
  <2>1. PICK to \in ContainerRow : container' = [container EXCEPT ![i] = to] /\ (container[i].state = "absent" => to = container[i])
    <3>1. [container[i] EXCEPT !.state = "down"] \in ContainerRow /\ container = [container EXCEPT ![i] = container[i]]
      BY <1>3 DEF ContainerRow
    <3>2. \/ container' = [container EXCEPT ![i] = [container[i] EXCEPT !.state = "down"]] /\ container[i].state # "absent"
          \/ container' = container
      BY <1>2, <1>3, <1>7 DEF DockerStop
    <3> QED BY <1>3, <3>1, <3>2
  <2>2. container'[i] = container[i] \/ container[i].state # "absent"
    BY <2>1, ContainerChanged
  <2>3. PICK ok \in BOOLEAN : Execute(x, ok)
    BY <1>7 DEF DockerStop
  <2>4. job[hand[x].job].kind # "remove" /\ UNCHANGED <<instance, requests, wipes, missed, payload, setbacks, faults>>
    BY <1>7 DEF DockerStop, Doing, Execute
  <2> QED BY <1>4, <2>1, <2>2, <2>3, <2>4, ContainerChanged, ContainersWork DEF Smooth
<1>8. CASE RemoveContainer(x)
  <2>1. PICK to : to = [Gone EXCEPT !.volume = container[i].volume /\ hand[x].job \notin wipes]
    OBVIOUS
  <2>2. to \in ContainerRow /\ to.state = "absent" /\ (to.volume <=> container[i].volume /\ hand[x].job \notin wipes)
    BY <1>3, <2>1, GoneIsRow DEF ContainerRow
  <2>3. container' = [container EXCEPT ![i] = to]
    BY <1>2, <1>8, <2>1 DEF RemoveContainer
  <2>4. PICK ok \in BOOLEAN : Execute(x, ok)
    BY <1>8 DEF RemoveContainer
  <2>5. UNCHANGED <<instance, requests, wipes, missed, payload, setbacks, faults>>
    BY <1>8 DEF RemoveContainer, Execute
  <2> QED BY <1>2, <1>4, <2>2, <2>3, <2>4, <2>5, ContainerChanged, ContainersWork DEF Smooth
<1>9. CASE DockerFails(x)
  <2>1. Execute(x, FALSE) /\ setbacks' = setbacks + 1 /\ UNCHANGED <<instance, requests, wipes, missed, payload, container>>
    BY <1>9 DEF DockerFails, Setback
  <2>2. setbacks' \in Nat /\ ~Smooth'
    BY <1>4, <2>1 DEF Smooth
  <2> QED BY <1>3, <2>1, <2>2, ContainersWork
<1> QED BY <1>5, <1>6, <1>7, <1>8, <1>9

\* The outcome is recorded: the job is over, and its effects are to come.
LEMMA ReportLaunches ==
  ASSUME LaunchInv, NEW x \in Agents, ReportOutcome(x)
  PROVE  LaunchInv'
<1>1. hand[x].step = "reporting" /\ hand[x].step # "idle"
  BY DEF ReportOutcome, Report
<1>2. PICK j \in Jobs : j = hand[x].job /\ job[j].status = "running" /\ job[j] \in JobRow
  BY <1>1, HandOf
<1>3. hand[x].ok \in BOOLEAN /\ x \in Executors
  BY <1>1, HandOf DEF Hand
<1>4. PICK status \in Final : job' = [job EXCEPT ![j].status = status]
  BY <1>2 DEF ReportOutcome, Report, Finalize, Finalizable, Open, Final
<1>5. /\ effects' = effects \cup {[job |-> j, ok |-> hand[x].ok, by |-> x]}
      /\ hand' = [hand EXCEPT ![x] = IdleHand]
      /\ UNCHANGED <<faults, instance, container, requests, payload, wipes, missed, setbacks>>
  BY <1>2 DEF ReportOutcome, Report, Finalize, Finalizable, Open
<1>6. JobsKept /\ job'[j].status \in Final /\ \A k \in Jobs \ {j} : job'[k] = job[k]
  BY <1>2, <1>4 DEF LaunchInv, LaunchTypeOK, JobsKept, JobRow, Open, Final
<1>7. hand' \in [Executors -> Hand] /\ hand'[x].step = "idle" /\ \A y \in Agents \ {x} : hand'[y] = hand[y]
  BY <1>3, <1>5 DEF LaunchInv, LaunchTypeOK, Hand, IdleHand, Executors
<1>8. LaunchTypeOK'
  BY <1>3, <1>5, <1>6, <1>7 DEF LaunchInv, LaunchTypeOK, JobsKept
<1>9. Enqueued' /\ ProvisionOnce' /\ Wiping' /\ RemovalsAgree'
  BY <1>5, <1>6, JobsStay DEF Smooth
<1>10. InHand'
  BY <1>1, <1>7 DEF LaunchInv, InHand
<1>11. Effective'
  <2>1. \A e \in effects : e.job \in Jobs /\ job'[e.job].status = job[e.job].status
    BY <1>6 DEF LaunchInv, LaunchTypeOK, Effective, JobsKept
  <2> QED BY <1>5, <1>6, <2>1 DEF LaunchInv, Effective
<1>12. RemovedIsOut'
  <2>1. \A k \in Jobs : Executed(k)' => Executed(k)
    BY <1>1, <1>2, <1>6, <1>7 DEF Executed, JobsKept
  <2>2. \A k \in Jobs : job'[k].of = job[k].of
    BY <1>6 DEF JobsKept
  <2> QED BY <1>5, <2>1, <2>2 DEF LaunchInv, RemovedIsOut, Smooth
<1> QED BY <1>8, <1>9, <1>10, <1>11, <1>12 DEF LaunchInv

LEMMA DyingLaunches ==
  ASSUME LaunchInv, NEW x \in Agents, AgentDies(x)
  PROVE  LaunchInv'
<1>1. /\ hand' = [hand EXCEPT ![x] = IdleHand] /\ effects' \subseteq effects /\ faults' = faults + 1
      /\ UNCHANGED <<job, instance, container, requests, payload, wipes, missed, setbacks>>
  BY DEF AgentDies, Crash
<1>2. faults \in Nat
  BY DEF LaunchInv, LaunchTypeOK
<1>3. ~Smooth' /\ faults' \in Nat
  BY <1>1, <1>2 DEF Smooth
<1>4. hand' \in [Executors -> Hand] /\ hand'[x].step = "idle" /\ \A y \in Agents \ {x} : hand'[y] = hand[y]
  BY <1>1 DEF LaunchInv, LaunchTypeOK, Hand, IdleHand, Executors
<1>5. JobsKept
  BY <1>1 DEF JobsKept, LaunchInv, LaunchTypeOK
<1>6. LaunchTypeOK'
  BY <1>1, <1>3, <1>4 DEF LaunchInv, LaunchTypeOK
<1>7. InHand' /\ Effective'
  BY <1>1, <1>4 DEF LaunchInv, InHand, Effective
<1>8. RemovedIsOut'
  BY <1>3 DEF RemovedIsOut
<1> QED BY <1>1, <1>3, <1>5, <1>6, <1>7, <1>8, JobsStay DEF LaunchInv

\* What an outcome makes of the row.
RowSettled(e) ==
  LET i == job[e.job].of
  IN  /\ instance' \in [Launched -> InstanceRow]
      /\ \A o \in Launched \ {i} : instance'[o] = instance[o]
      /\ instance'[i].row = instance[i].row
      /\ \/ instance'[i].known = instance[i].known
         \/ instance[i].row = "live" /\ job[e.job].kind = "provision"
      /\ instance[i].known => instance'[i].known

LEMMA OutcomeOf ==
  ASSUME LaunchInv, NEW e \in effects
  PROVE  /\ e.job \in Jobs /\ e.ok \in BOOLEAN /\ job[e.job].status \in Final /\ job[e.job].of \in Launched
         /\ job[e.job] \in JobRow /\ instance[job[e.job].of] \in InstanceRow
<1>1. e.job \in Jobs /\ e.ok \in BOOLEAN /\ job[e.job].status \in Final
  BY DEF LaunchInv, LaunchTypeOK, Effective
<1>2. job[e.job].of \in Launched
  BY <1>1 DEF LaunchInv, Enqueued, Final
<1> QED BY <1>1, <1>2 DEF LaunchInv, LaunchTypeOK

LEMMA OutcomeSettles ==
  ASSUME LaunchInv, NEW e \in effects, CompleteProvision(e)
  PROVE  RowSettled(e)
<1>1. PICK i \in Launched : i = job[e.job].of
  BY OutcomeOf
<1>2. instance \in [Launched -> InstanceRow] /\ instance[i] \in InstanceRow
  BY DEF LaunchInv, LaunchTypeOK
<1>3. \/ UNCHANGED instance
      \/ \E status \in {"error", "running", "stopped"} : instance' = [instance EXCEPT ![i].status = status]
      \/ IsLive(i) /\ job[e.job].kind = "provision" /\ instance' = [instance EXCEPT ![i].known = TRUE, ![i].status = "running"]
  BY <1>1 DEF CompleteProvision, SetInstanceStatus
<1>4. CASE UNCHANGED instance
  BY <1>1, <1>2, <1>4 DEF RowSettled
<1>5. ASSUME NEW status \in {"error", "running", "stopped"}, instance' = [instance EXCEPT ![i].status = status]
      PROVE  RowSettled(e)
  BY <1>1, <1>2, <1>5 DEF RowSettled, InstanceRow
<1>6. CASE IsLive(i) /\ job[e.job].kind = "provision" /\ instance' = [instance EXCEPT ![i].known = TRUE, ![i].status = "running"]
  <2>1. /\ instance' \in [Launched -> InstanceRow] /\ instance'[i].row = instance[i].row /\ instance'[i].known
        /\ \A o \in Launched \ {i} : instance'[o] = instance[o]
    BY <1>2, <1>6 DEF InstanceRow
  <2> QED BY <1>1, <1>6, <2>1 DEF RowSettled, IsLive
<1> QED BY <1>3, <1>4, <1>5, <1>6

LEMMA OutcomeLaunches ==
  ASSUME LaunchInv, NEW e \in effects, CompleteProvision(e)
  PROVE  LaunchInv'
<1>1. /\ effects' \subseteq effects
      /\ UNCHANGED <<job, hand, faults, container, requests, payload, wipes, missed, setbacks>>
  BY DEF CompleteProvision, Apply
<1>2. PICK i \in Launched : i = job[e.job].of
  BY OutcomeOf
<1>3. /\ instance' \in [Launched -> InstanceRow] /\ \A o \in Launched : instance'[o].row = instance[o].row
      /\ \A o \in Launched : instance[o].known => instance'[o].known
      /\ \A o \in Launched : instance'[o].known # instance[o].known => o = i /\ job[e.job].kind = "provision"
  BY <1>2, OutcomeSettles DEF RowSettled
<1>4. LaunchTypeOK' /\ Enqueued' /\ InHand' /\ Effective' /\ Wiping' /\ RemovedIsOut'
  <2>1. LaunchTypeOK'
    BY <1>1, <1>3 DEF LaunchInv, LaunchTypeOK
  <2>2. Enqueued' /\ InHand' /\ Effective'
    BY <1>1 DEF LaunchInv, Enqueued, InHand, Effective
  <2>3. Wiping'
    <3>1. \A c : Request(c.of, "drop")' = Request(c.of, "drop")
      BY DEF Request, Gone
    <3> QED BY <1>1, <3>1 DEF LaunchInv, Wiping
  <2>4. RemovedIsOut'
    <3>1. \A k \in Jobs : Executed(k)' <=> Executed(k)
      BY <1>1 DEF Executed
    <3> QED BY <1>1, <3>1 DEF LaunchInv, RemovedIsOut, Smooth
  <2> QED BY <2>1, <2>2, <2>3, <2>4
<1>5. \A o \in Launched : \A kind : About(o, kind)' = About(o, kind)
  BY <1>1 DEF About
<1>6. \A o, does : Request(o, does)' = Request(o, does)
  BY DEF Request, Gone
<1>7. ProvisionOnce'
  <2>1. ASSUME NEW o \in Launched, instance'[o].known # instance[o].known
        PROVE  /\ \A j \in About(o, "provision") : j = e.job /\ job[j].status \in Final
               /\ e.job \in About(o, "provision")
    <3>1. o = i /\ job[e.job].kind = "provision" /\ e.job \in About(o, "provision") /\ job[e.job].status \in Final
      BY <1>2, <1>3, <2>1, OutcomeOf DEF About
    <3> QED BY <3>1 DEF LaunchInv, ProvisionOnce, AtMostOne
  <2>2. ASSUME NEW o \in Launched
        PROVE  /\ instance'[o].row = "none" => (\A d \in requests' : d.of # o) /\ (\A j \in Jobs : job'[j].of # o)
               /\ \A d \in requests' : d.of = o /\ d.does = "provision" =>
                    ~instance'[o].known /\ d = Request(o, "provision")' /\ About(o, "provision")' = {}
               /\ AtMostOne(About(o, "provision")')
               /\ instance'[o].known => \A j \in About(o, "provision")' : job'[j].status \in Final
               /\ \A d \in requests' : d.of = o /\ d.does \in LifecycleKinds \cup {"remove"} => instance'[o].known
               /\ \A j \in Jobs : job'[j].of = o /\ job'[j].kind # "provision" => instance'[o].known
    <3>1. \A d \in requests' : d.of = o /\ d.does = "provision" =>
            ~instance'[o].known /\ d = Request(o, "provision")' /\ About(o, "provision")' = {}
      BY <1>1, <1>5, <1>6, <2>1 DEF LaunchInv, ProvisionOnce
    <3>2. instance'[o].known => \A j \in About(o, "provision")' : job'[j].status \in Final
      <4>1. instance[o].known => \A j \in About(o, "provision") : job[j].status \in Final
        BY DEF LaunchInv, ProvisionOnce
      <4>2. instance[o] \in InstanceRow /\ instance'[o] \in InstanceRow
        BY <1>3 DEF LaunchInv, LaunchTypeOK
      <4>3. instance[o].known \in BOOLEAN /\ instance'[o].known \in BOOLEAN
        BY <4>2 DEF InstanceRow
      <4> QED BY <1>1, <1>5, <2>1, <4>1, <4>3
    <3>3. /\ instance'[o].row = "none" => (\A d \in requests' : d.of # o) /\ (\A j \in Jobs : job'[j].of # o)
          /\ AtMostOne(About(o, "provision")')
          /\ \A d \in requests' : d.of = o /\ d.does \in LifecycleKinds \cup {"remove"} => instance'[o].known
          /\ \A j \in Jobs : job'[j].of = o /\ job'[j].kind # "provision" => instance'[o].known
      BY <1>1, <1>3, <1>5 DEF LaunchInv, ProvisionOnce
    <3> QED BY <3>1, <3>2, <3>3
  <2> QED BY <2>2 DEF ProvisionOnce, AtMostOne
<1>8. RemovalsAgree'
  <2>1. \A o \in Launched : RowGoes(o)' <=> RowGoes(o)
    BY <1>1, <1>3, <1>6 DEF RowGoes
  <2> QED BY <1>1, <1>5, <2>1 DEF LaunchInv, RemovalsAgree, HasRemoval, Smooth
<1> QED BY <1>4, <1>7, <1>8 DEF LaunchInv

LEMMA NothingLaunched == ProvisioningInit => LaunchInv
<1> SUFFICES ASSUME ProvisioningInit PROVE LaunchInv
  OBVIOUS
<1>1. /\ job = [j \in Jobs |-> NoJob] /\ hand = [x \in Executors |-> IdleHand] /\ effects = {} /\ faults = 0
      /\ instance = [i \in Launched |-> [row |-> "none", status |-> "none", known |-> FALSE, port |-> Gone.port]]
      /\ container = [i \in Launched |-> Gone] /\ requests = {} /\ payload = Gone.port /\ wipes = {}
      /\ missed = {} /\ setbacks = 0
  BY DEF ProvisioningInit, OpsInit
<1>2. LaunchTypeOK
  <2>1. NoJob \in JobRow /\ IdleHand \in Hand
    BY DEF NoJob, JobRow, IdleHand, Hand
  <2>2. [row |-> "none", status |-> "none", known |-> FALSE, port |-> Gone.port] \in InstanceRow
    BY GoneIsRow DEF InstanceRow
  <2> QED BY <1>1, <2>1, <2>2, GoneIsRow DEF LaunchTypeOK
<1>3. \A i \in Launched : \A kind : About(i, kind) = {}
  BY <1>1, NothingApart DEF About, NoJob
<1>4. Enqueued /\ InHand /\ Effective /\ Wiping
  BY <1>1 DEF Enqueued, InHand, Effective, Wiping, NoJob, IdleHand, Executors
<1>5. ProvisionOnce
  BY <1>1, <1>3, NothingApart DEF ProvisionOnce, AtMostOne, NoJob
<1>6. RemovalsAgree
  BY <1>1, <1>3 DEF RemovalsAgree, HasRemoval, RowGoes
<1>7. RemovedIsOut
  BY <1>1 DEF RemovedIsOut, Executed, NoJob, IdleHand, Final, Executors
<1> QED BY <1>2, <1>4, <1>5, <1>6, <1>7 DEF LaunchInv

LEMMA ServerOnly ==
  ASSUME LaunchInv, CheckServer \/ DropServer
  PROVE  Asking
<1>1. UNCHANGED <<opsVars, instance, container, requests, payload, wipes, missed, setbacks>>
  BY DEF CheckServer, DropServer
<1>2. \A i : Request(i, "drop")' = Request(i, "drop")
  BY DEF Request, Gone
<1>3. \A i \in Launched : RowGoes(i)' <=> RowGoes(i)
  BY <1>1, <1>2 DEF RowGoes
<1> QED BY <1>1, <1>3 DEF Asking, RowsGrow, RequestsKeep, Smooth, opsVars, LaunchInv, LaunchTypeOK

\* The steps of the specification, as the proofs take them.
LEMMA LaunchSteps ==
  ASSUME LaunchInv, ProvisioningNext
  PROVE  \/ Asking
         \/ \E i \in Launched, p \in Ports : Provision(i, p)
         \/ \E c \in requests, j \in Jobs : EnqueueJob(c, j)
         \/ \E x \in Agents : \/ \E j \in Jobs : Claim(x, j)
                              \/ ProvisionPayload(x)
                              \/ ProvisionContainer(x) \/ DockerStart(x) \/ DockerStop(x) \/ RemoveContainer(x) \/ DockerFails(x)
                              \/ ReportOutcome(x) \/ AgentDies(x)
         \/ \E e \in effects : CompleteProvision(e)
<1>1. CASE Requests
  BY <1>1, RequestsAsk, ServerOnly DEF Requests
<1>2. ASSUME NEW c \in requests, Writes(c) \/ EnqueueFails(c) \/ RequestCut(c)
      PROVE  Asking \/ \E j \in Jobs : EnqueueJob(c, j)
  BY <1>2, WritesAsk DEF Writes
<1>3. CASE \E x \in Agents : AgentWork(x) \/ DockerFails(x) \/ AgentDies(x)
  BY <1>3 DEF AgentWork
<1> QED BY <1>1, <1>2, <1>3 DEF ProvisioningNext

LEMMA LaunchesGoOn == LaunchInv /\ [ProvisioningNext]_provVars => LaunchInv'
<1> SUFFICES ASSUME LaunchInv, [ProvisioningNext]_provVars PROVE LaunchInv'
  OBVIOUS
<1>1. CASE ProvisioningNext
  BY <1>1, LaunchSteps, AskingKeeps, ProvisionLaunches, EnqueueLaunches, ClaimLaunches, PayloadLaunches, DockerKeeps,
     ReportLaunches, DyingLaunches, OutcomeLaunches
<1>2. CASE UNCHANGED provVars
  <2>1. \A i : Request(i, "drop")' = Request(i, "drop")
    BY DEF Request, Gone
  <2>2. \A i \in Launched : RowGoes(i)' <=> RowGoes(i)
    BY <1>2, <2>1 DEF RowGoes, provVars
  <2>3. Asking
    BY <1>2, <2>2 DEF Asking, RowsGrow, RequestsKeep, Smooth, provVars, opsVars, LaunchInv, LaunchTypeOK
  <2> QED BY <2>3, AskingKeeps
<1> QED BY <1>1, <1>2

LEMMA LaunchInvariant == ProvisioningSpec => []LaunchInv
<1> QED BY NothingLaunched, LaunchesGoOn, PTL DEF ProvisioningSpec

LEMMA LaunchDeleted == LaunchInv => DeletedLeavesNothing
<1> SUFFICES ASSUME LaunchInv, NEW i \in Launched, Smooth, instance[i].row = "deleted", ~Pending(i), i \notin missed
             PROVE  /\ container[i].state = "absent"
                    /\ \A j \in Jobs : job[j].of = i => (j \in wipes => ~container[i].volume)
  BY DEF DeletedLeavesNothing
<1>1. \A j \in About(i, "remove") : Executed(j)
  <2>1. \A j \in About(i, "remove") : j \in Jobs /\ job[j].of = i /\ job[j].kind = "remove" /\ job[j] \in JobRow /\ job[j].status \notin Open
    BY DEF About, Pending, LaunchInv, LaunchTypeOK
  <2>2. \A j \in About(i, "remove") : job[j].status # "none"
    BY <2>1, NothingApart DEF LaunchInv, Enqueued
  <2> QED BY <2>1, <2>2 DEF Executed, JobRow
<1>2. PICK j \in About(i, "remove") : TRUE
  BY DEF LaunchInv, RemovalsAgree, RowGoes, HasRemoval
<1>3. container[i].state = "absent"
  BY <1>1, <1>2 DEF About, LaunchInv, RemovedIsOut
<1>4. \A k \in Jobs : job[k].of = i /\ k \in wipes => ~container[i].volume
  BY <1>1 DEF About, LaunchInv, RemovedIsOut, Wiping
<1> QED BY <1>3, <1>4

\* The agent asks for its next job once the effects of its report are there.
OneAnswer ==
  /\ \A e \in effects : e.by = Agent /\ \A f \in effects : e = f
  /\ effects # {} => hand[Agent].step = "idle"

\* What was done, and will be told, is what became of the container.
Fits(state, kind, ok) ==
  ok => (kind \in {"provision", "start", "restart"} => state = "up") /\ (kind = "stop" => state = "down")

EffectOf(e, i) == job[e.job].of = i
Telling(x, i) == hand[x].step = "reporting" /\ job[hand[x].job].of = i
Told(i) == (\E e \in effects : EffectOf(e, i)) \/ \E x \in Agents : Telling(x, i)

StatusFits(i) ==
  IsLive(i) => /\ instance[i].status = "running" => container[i].state = "up"
               /\ instance[i].status = "stopped" => container[i].state = "down"

CoherentAt(i) ==
  /\ \A e \in effects : EffectOf(e, i) => Fits(container[i].state, job[e.job].kind, e.ok)
  /\ \A x \in Agents : Telling(x, i) => Fits(container[i].state, job[hand[x].job].kind, hand[x].ok)
  /\ Told(i) \/ StatusFits(i)

\* Until an instance is removed, its row fits its container, or is about to.
Coherent == Smooth => \A i \in Launched : HasRemoval(i) \/ CoherentAt(i)

AnswersAwaited == ~Slow

AnswersAt == OneAnswer /\ Coherent

LEMMA LaunchAnswered == LaunchInv /\ AnswersAt => StatusIsReal
<1> SUFFICES ASSUME LaunchInv, AnswersAt, NEW i \in Launched, Smooth, Provisioned(i), ~Pending(i)
             PROVE  StatusFits(i)
  BY DEF StatusIsReal, StatusFits, Provisioned
<1>1. ~HasRemoval(i)
  <2>1. Request(i, "drop") \notin requests
    BY DEF Pending, Request
  <2> QED BY <2>1 DEF LaunchInv, RemovalsAgree, RowGoes, Provisioned, IsLive
<1>2. ~Told(i)
  <2>1. \A x \in Agents : ~Telling(x, i)
    BY DEF Telling, Pending, LaunchInv, InHand, Open
  <2> QED BY <2>1 DEF Told, EffectOf, Pending
<1> QED BY <1>1, <1>2 DEF AnswersAt, Coherent, CoherentAt

\* A step that leaves the jobs that have an outcome, the hands and the effects.
LEMMA AnswersStay ==
  ASSUME LaunchInv, AnswersAt, UNCHANGED <<hand, effects, container>>, Smooth' => Smooth,
         \A j \in Jobs : job[j].status # "none" => job'[j] = job[j],
         Smooth' => \A i \in Launched : IsLive(i)' => \/ IsLive(i) /\ instance'[i].status = instance[i].status
                                                      \/ instance'[i].status \notin {"running", "stopped"}
  PROVE  AnswersAt'
<1>1. OneAnswer'
  BY DEF AnswersAt, OneAnswer
<1>2. \A e \in effects : e.job \in Jobs /\ job'[e.job] = job[e.job]
  BY DEF LaunchInv, LaunchTypeOK, Effective, Final
<1>3. \A x \in Agents : hand[x].step = "reporting" => hand[x].job \in Jobs /\ job'[hand[x].job] = job[hand[x].job]
  BY DEF LaunchInv, InHand
<1>4. \A i \in Launched : HasRemoval(i) => HasRemoval(i)'
  <2>1. \A i \in Launched : \A j \in About(i, "remove") : j \in About(i, "remove")'
    BY NothingApart DEF LaunchInv, Enqueued, About
  <2> QED BY <2>1 DEF HasRemoval
<1>5. ASSUME Smooth', NEW i \in Launched, CoherentAt(i)
      PROVE  CoherentAt(i)'
  <2>1. \A e \in effects : EffectOf(e, i)' <=> EffectOf(e, i)
    BY <1>2 DEF EffectOf
  <2>2. \A x \in Agents : Telling(x, i)' <=> Telling(x, i)
    BY <1>3 DEF Telling
  <2>4. Told(i)' <=> Told(i)
    BY <2>1, <2>2 DEF Told
  <2>5. StatusFits(i) => StatusFits(i)'
    BY <1>5 DEF StatusFits
  <2>6. \A e \in effects : EffectOf(e, i)' => Fits(container[i].state, job[e.job].kind, e.ok)' /\ job'[e.job] = job[e.job]
    BY <1>2, <1>5, <2>1 DEF CoherentAt
  <2>7. \A x \in Agents : Telling(x, i)' => Fits(container[i].state, job[hand[x].job].kind, hand[x].ok)' /\ job'[hand[x].job] = job[hand[x].job]
    <3>1. \A x \in Agents : Telling(x, i)' => job'[hand[x].job] = job[hand[x].job] /\ Fits(container[i].state, job[hand[x].job].kind, hand[x].ok)
      BY <1>3, <1>5, <2>2 DEF CoherentAt, Telling
    <3> QED BY <3>1
  <2> QED BY <1>5, <2>4, <2>5, <2>6, <2>7 DEF CoherentAt
<1> QED BY <1>1, <1>4, <1>5 DEF AnswersAt, Coherent

LEMMA NoEffects ==
  ASSUME LaunchInv, AnswersAt, NEW x \in Agents, hand[x].step # "idle"
  PROVE  /\ effects = {} /\ \A i, y : y \in Agents /\ Telling(y, i) => y = x /\ i = Target(x)
BY HandOf DEF AnswersAt, OneAnswer, Telling, Target, LaunchInv, InHand

\* The agent goes on with its job.
LEMMA AnswersWork ==
  ASSUME LaunchInv, AnswersAt, NEW x \in Agents, hand[x].step # "idle",
         UNCHANGED <<job, effects, instance>>, Smooth' => Smooth,
         hand'[x].job = hand[x].job, \A y \in Agents \ {x} : hand'[y] = hand[y],
         Smooth' => \A o \in Launched \ {Target(x)} : container'[o] = container[o],
         Smooth' => \/ HasRemoval(Target(x))
                    \/ hand'[x].step = "reporting" /\ Fits(container'[Target(x)].state, job[hand[x].job].kind, hand'[x].ok)
                    \/ hand[x].step # "reporting" /\ hand'[x].step # "reporting" /\ UNCHANGED container
  PROVE  AnswersAt'
<1>1. effects = {} /\ x = Agent /\ Target(x) \in Launched /\ Target(x) = job[hand[x].job].of
  BY NoEffects, HandOf
<1>2. OneAnswer'
  BY <1>1 DEF OneAnswer
<1>3. \A i \in Launched : HasRemoval(i)' <=> HasRemoval(i)
  BY DEF HasRemoval, About
<1>4. \A y \in Agents \ {x} : hand[y].step = "idle" /\ hand'[y].step = "idle"
  BY <1>1 DEF LaunchInv, InHand
<1>5. \A i \in Launched, y \in Agents : Telling(y, i)' => y = x /\ i = Target(x) /\ hand'[x].step = "reporting"
  BY <1>1, <1>4 DEF Telling
<1>6. \A i \in Launched, y \in Agents : Telling(y, i) => y = x /\ i = Target(x) /\ hand[x].step = "reporting"
  BY <1>1, <1>4 DEF Telling
<1>7. ASSUME Smooth', NEW o \in Launched \ {Target(x)}, CoherentAt(o)
      PROVE  CoherentAt(o)'
  <2>1. ~Told(o) /\ ~Told(o)' /\ \A y \in Agents : ~Telling(y, o)'
    BY <1>1, <1>5, <1>6 DEF Told
  <2>2. StatusFits(o)'
    BY <1>7, <2>1 DEF CoherentAt, StatusFits, IsLive
  <2> QED BY <1>1, <2>1, <2>2 DEF CoherentAt
<1>8. ASSUME Smooth', NEW i \in Launched, i = Target(x), hand'[x].step = "reporting",
             Fits(container'[i].state, job[hand[x].job].kind, hand'[x].ok)
      PROVE  CoherentAt(i)'
  <2>1. Telling(x, i)'
    BY <1>1, <1>8 DEF Telling
  <2>2. Told(i)'
    BY <2>1 DEF Told
  <2>3. \A y \in Agents : Telling(y, i)' => Fits(container'[i].state, job'[hand'[y].job].kind, hand'[y].ok)
    BY <1>5, <1>8
  <2> QED BY <1>1, <2>2, <2>3 DEF CoherentAt
<1>9. ASSUME Smooth', NEW i \in Launched, i = Target(x), CoherentAt(i),
             hand[x].step # "reporting", hand'[x].step # "reporting", UNCHANGED container
      PROVE  CoherentAt(i)'
  <2>1. ~Told(i) /\ ~Told(i)' /\ \A y \in Agents : ~Telling(y, i)'
    BY <1>1, <1>5, <1>6, <1>9 DEF Told
  <2>2. StatusFits(i)'
    BY <1>9, <2>1 DEF CoherentAt, StatusFits, IsLive
  <2> QED BY <1>1, <2>1, <2>2 DEF CoherentAt
<1>10. Coherent'
  <2> SUFFICES ASSUME Smooth', NEW i \in Launched, ~HasRemoval(i) PROVE CoherentAt(i)'
    BY <1>3 DEF Coherent
  <2>1. CoherentAt(i)
    BY DEF AnswersAt, Coherent
  <2>2. i # Target(x) => CoherentAt(i)'
    BY <1>7, <2>1
  <2>3. i = Target(x) => \/ hand'[x].step = "reporting" /\ Fits(container'[i].state, job[hand[x].job].kind, hand'[x].ok)
                         \/ hand[x].step # "reporting" /\ hand'[x].step # "reporting" /\ UNCHANGED container
    OBVIOUS
  <2> QED BY <1>8, <1>9, <2>1, <2>2, <2>3
<1> QED BY <1>2, <1>10 DEF AnswersAt

LEMMA ClaimAnswers ==
  ASSUME LaunchInv, AnswersAt, AnswersAwaited, NEW x \in Agents, NEW j \in Jobs, Claim(x, j)
  PROVE  AnswersAt'
<1>1. /\ hand[x].step = "idle" /\ j \in Queue(x)
      /\ job' = [job EXCEPT ![j].status = "running"]
      /\ hand' = [hand EXCEPT ![x] = [step |-> "claimed", job |-> j, ok |-> FALSE]]
      /\ UNCHANGED <<effects, faults, instance, container, setbacks>> /\ \A e \in effects : e.by # x
  BY DEF Claim, ClaimNext, AnswersAwaited
<1>2. job[j].server = x /\ job[j].status = "pending"
  BY <1>1 DEF Queue
<1>3. x = Agent /\ effects = {}
  BY <1>1, <1>2 DEF LaunchInv, Enqueued, AnswersAt, OneAnswer
<1>4. \A i \in Launched : HasRemoval(i)' <=> HasRemoval(i)
  <2>1. \A k \in Jobs : job'[k].of = job[k].of /\ job'[k].kind = job[k].kind
    BY <1>1 DEF LaunchInv, LaunchTypeOK, JobRow
  <2> QED BY <2>1 DEF HasRemoval, About
<1>5. \A y \in Agents : hand[y].step # "reporting" /\ hand'[y].step # "reporting"
  BY <1>1, <1>3 DEF LaunchInv, LaunchTypeOK, InHand, Executors
<1>6. ASSUME Smooth', NEW i \in Launched, CoherentAt(i) PROVE CoherentAt(i)'
  <2>1. ~Told(i) /\ ~Told(i)' /\ \A y \in Agents : ~Telling(y, i)'
    BY <1>1, <1>3, <1>5 DEF Told, Telling
  <2>2. StatusFits(i)'
    BY <1>1, <1>6, <2>1 DEF CoherentAt, StatusFits, IsLive
  <2> QED BY <1>1, <1>3, <2>1, <2>2 DEF CoherentAt
<1>7. Coherent'
  BY <1>1, <1>4, <1>6 DEF AnswersAt, Coherent, Smooth
<1> QED BY <1>1, <1>3, <1>7 DEF AnswersAt, OneAnswer

LEMMA PayloadAnswers ==
  ASSUME LaunchInv, AnswersAt, NEW x \in Agents, ProvisionPayload(x)
  PROVE  AnswersAt'
<1>1. /\ hand[x].step = "claimed" /\ UNCHANGED <<job, effects, faults, instance, container, setbacks>>
  BY DEF ProvisionPayload, Refuse, Prepare
<1>2. \/ hand' = [hand EXCEPT ![x].step = "executing"]
      \/ hand' = [hand EXCEPT ![x].step = "reporting", ![x].ok = FALSE]
  BY DEF ProvisionPayload, Refuse, Prepare
<1>3. /\ hand'[x].job = hand[x].job /\ \A y \in Agents \ {x} : hand'[y] = hand[y]
      /\ hand'[x].step = "executing" \/ (hand'[x].step = "reporting" /\ hand'[x].ok = FALSE)
  <2>1. hand[x].step # "idle"
    BY <1>1
  <2>2. CASE hand' = [hand EXCEPT ![x].step = "executing"]
    <3>1. PICK ok \in BOOLEAN : ok = hand[x].ok
      BY <2>1, HandOf DEF Hand
    <3> QED BY <2>1, <2>2, <3>1, HandGoesOn
  <2>3. CASE hand' = [hand EXCEPT ![x].step = "reporting", ![x].ok = FALSE]
    BY <2>1, <2>3, HandGoesOn
  <2> QED BY <1>2, <2>2, <2>3
<1>4. hand'[x].step = "reporting" => Fits(container'[Target(x)].state, job[hand[x].job].kind, hand'[x].ok)
  BY <1>3 DEF Fits
<1> QED BY <1>1, <1>3, <1>4, AnswersWork DEF Smooth

LEMMA DockerAnswers ==
  ASSUME LaunchInv, AnswersAt, NEW x \in Agents,
         ProvisionContainer(x) \/ DockerStart(x) \/ DockerStop(x) \/ RemoveContainer(x) \/ DockerFails(x)
  PROVE  AnswersAt'
<1>1. hand[x].step = "executing" /\ hand[x].step # "idle" /\ UNCHANGED <<job, effects, faults, instance>>
  BY DEF ProvisionContainer, DockerStart, DockerStop, RemoveContainer, DockerFails, Execute
<1>2. PICK i \in Launched : i = Target(x) /\ container[i] \in ContainerRow /\ i = job[hand[x].job].of /\ hand[x].job \in Jobs
  BY <1>1, HandOf
<1>3. container \in [Launched -> ContainerRow] /\ setbacks \in Nat
  BY DEF LaunchInv, LaunchTypeOK
<1>4. ASSUME NEW ok \in BOOLEAN, Execute(x, ok)
      PROVE  /\ hand'[x].step = "reporting" /\ hand'[x].job = hand[x].job /\ hand'[x].ok = ok
             /\ \A y \in Agents \ {x} : hand'[y] = hand[y]
  BY <1>1, <1>4, HandGoesOn DEF Execute
<1>5. CASE ProvisionContainer(x)
  <2>1. PICK ok \in BOOLEAN : ok = Startable(i, payload)
    BY DEF Startable
  <2>2. Execute(x, ok) /\ job[hand[x].job].kind = "provision" /\ UNCHANGED setbacks
    BY <1>2, <1>5, <2>1 DEF ProvisionContainer, Doing
  <2>3. container' = [container EXCEPT ![i] = [state |-> IF ok THEN "up" ELSE "down", port |-> payload, volume |-> TRUE]]
    BY <1>2, <1>5, <2>1 DEF ProvisionContainer
  <2>4. (ok => container'[i].state = "up") /\ \A o \in Launched \ {i} : container'[o] = container[o]
    BY <1>3, <2>3
  <2>5. Fits(container'[i].state, job[hand[x].job].kind, ok)
    BY <2>2, <2>4 DEF Fits
  <2> QED BY <1>1, <1>2, <1>4, <2>2, <2>4, <2>5, AnswersWork DEF Smooth
<1>6. CASE DockerStart(x)
  <2>1. PICK ok \in BOOLEAN : ok = (container[i].state # "absent" /\ Startable(i, container[i].port))
    BY DEF Startable
  <2>2. Execute(x, ok) /\ job[hand[x].job].kind \in {"start", "restart"} /\ UNCHANGED setbacks
    BY <1>2, <1>6, <2>1 DEF DockerStart, Doing
  <2>3. \/ ok /\ container' = [container EXCEPT ![i].state = "up"]
        \/ ~ok /\ (container' = container \/ container' = [container EXCEPT ![i].state = "down"])
    BY <1>2, <1>6, <2>1 DEF DockerStart
  <2>4. (ok => container'[i].state = "up") /\ \A o \in Launched \ {i} : container'[o] = container[o]
    BY <1>2, <1>3, <2>3 DEF ContainerRow
  <2>5. Fits(container'[i].state, job[hand[x].job].kind, ok)
    BY <2>2, <2>4 DEF Fits
  <2> QED BY <1>1, <1>2, <1>4, <2>2, <2>4, <2>5, AnswersWork DEF Smooth
<1>7. CASE DockerStop(x)
  <2>1. PICK ok \in BOOLEAN : ok = (container[i].state # "absent")
    OBVIOUS
  <2>2. Execute(x, ok) /\ job[hand[x].job].kind = "stop" /\ UNCHANGED setbacks
    BY <1>2, <1>7, <2>1 DEF DockerStop, Doing
  <2>3. container' = IF ok THEN [container EXCEPT ![i].state = "down"] ELSE container
    BY <1>2, <1>7, <2>1 DEF DockerStop
  <2>4. (ok => container'[i].state = "down") /\ \A o \in Launched \ {i} : container'[o] = container[o]
    BY <1>2, <1>3, <2>3 DEF ContainerRow
  <2>5. Fits(container'[i].state, job[hand[x].job].kind, ok)
    BY <2>2, <2>4 DEF Fits
  <2> QED BY <1>1, <1>2, <1>4, <2>2, <2>4, <2>5, AnswersWork DEF Smooth
<1>8. CASE RemoveContainer(x)
  <2>1. PICK ok \in BOOLEAN : Execute(x, ok)
    BY <1>8 DEF RemoveContainer
  <2>2. job[hand[x].job].kind = "remove" /\ UNCHANGED setbacks
    BY <1>8 DEF RemoveContainer, Doing
  <2>3. HasRemoval(i)
    BY <1>2, <2>2 DEF HasRemoval, About
  <2>4. \A o \in Launched \ {i} : container'[o] = container[o]
    BY <1>2, <1>3, <1>8 DEF RemoveContainer
  <2> QED BY <1>1, <1>2, <1>4, <2>1, <2>2, <2>3, <2>4, AnswersWork DEF Smooth
<1>9. CASE DockerFails(x)
  <2>1. Execute(x, FALSE) /\ setbacks' = setbacks + 1
    BY <1>9 DEF DockerFails, Setback
  <2>2. ~Smooth'
    BY <1>3, <2>1 DEF Smooth
  <2> QED BY <1>1, <1>4, <2>1, <2>2, AnswersWork
<1> QED BY <1>5, <1>6, <1>7, <1>8, <1>9

LEMMA ReportAnswers ==
  ASSUME LaunchInv, AnswersAt, NEW x \in Agents, ReportOutcome(x)
  PROVE  AnswersAt'
<1>1. hand[x].step = "reporting" /\ hand[x].step # "idle"
  BY DEF ReportOutcome, Report
<1>2. PICK j \in Jobs : j = hand[x].job /\ job[j].status = "running" /\ job[j] \in JobRow
  BY <1>1, HandOf
<1>3. PICK status \in Final : job' = [job EXCEPT ![j].status = status]
  BY <1>2 DEF ReportOutcome, Report, Finalize, Finalizable, Open, Final
<1>4. PICK e : e = [job |-> j, ok |-> hand[x].ok, by |-> x]
  OBVIOUS
<1>5. /\ effects' = effects \cup {e} /\ hand' = [hand EXCEPT ![x] = IdleHand]
      /\ UNCHANGED <<faults, instance, container, setbacks>>
  BY <1>2, <1>4 DEF ReportOutcome, Report, Finalize, Finalizable, Open
<1>6. effects' = {e} /\ x = Agent /\ \A y \in Agents : hand'[y].step = "idle"
  BY <1>1, <1>5, NoEffects, HandOf DEF LaunchInv, LaunchTypeOK, InHand, IdleHand, Executors
<1>7. OneAnswer'
  BY <1>4, <1>6 DEF OneAnswer
<1>8. \A k \in Jobs : job'[k].of = job[k].of /\ job'[k].kind = job[k].kind
  BY <1>3 DEF LaunchInv, LaunchTypeOK, JobRow
<1>9. \A i \in Launched : HasRemoval(i)' <=> HasRemoval(i)
  BY <1>8 DEF HasRemoval, About
<1>10. ASSUME Smooth', NEW i \in Launched, CoherentAt(i) PROVE CoherentAt(i)'
  <2>1. \A y \in Agents : ~Telling(y, i)'
    BY <1>6 DEF Telling
  <2>2. EffectOf(e, i)' <=> Telling(x, i)
    BY <1>1, <1>2, <1>4, <1>8 DEF EffectOf, Telling
  <2>3. Told(i)' <=> Told(i)
    <3>1. \A y \in Agents : Telling(y, i) => y = x
      BY <1>1, NoEffects
    <3> QED BY <1>1, <1>6, <2>1, <2>2, <3>1, NoEffects DEF Told
  <2>4. Telling(x, i) => Fits(container'[i].state, job'[e.job].kind, e.ok)
    BY <1>2, <1>4, <1>5, <1>8, <1>10 DEF CoherentAt
  <2>5. StatusFits(i) => StatusFits(i)'
    BY <1>5 DEF StatusFits, IsLive
  <2> QED BY <1>6, <1>10, <2>1, <2>2, <2>3, <2>4, <2>5 DEF CoherentAt
<1>11. Coherent'
  BY <1>5, <1>9, <1>10 DEF AnswersAt, Coherent, Smooth
<1> QED BY <1>7, <1>11 DEF AnswersAt

LEMMA DyingAnswers ==
  ASSUME LaunchInv, AnswersAt, NEW x \in Agents, AgentDies(x)
  PROVE  AnswersAt'
<1>1. hand' = [hand EXCEPT ![x] = IdleHand] /\ effects' \subseteq effects /\ faults' = faults + 1
  BY DEF AgentDies, Crash
<1>2. ~Smooth'
  <2>1. faults \in Nat
    BY DEF LaunchInv, LaunchTypeOK
  <2> QED BY <1>1, <2>1 DEF Smooth
<1>3. hand[Agent].step = "idle" => hand'[Agent].step = "idle"
  BY <1>1, AnAgent DEF LaunchInv, LaunchTypeOK, IdleHand, Executors
<1> QED BY <1>1, <1>2, <1>3 DEF AnswersAt, OneAnswer, Coherent

LEMMA OutcomeAnswers ==
  ASSUME LaunchInv, AnswersAt, NEW e \in effects, CompleteProvision(e)
  PROVE  AnswersAt'
<1>1. effects' = effects \ {e} /\ UNCHANGED <<job, hand, faults, container, setbacks>>
  BY DEF CompleteProvision, Apply
<1>2. PICK i \in Launched : i = job[e.job].of
  BY OutcomeOf
<1>3. e.by = Agent /\ effects' = {} /\ hand[Agent].step = "idle"
  BY <1>1 DEF AnswersAt, OneAnswer
<1>4. \A y \in Agents : hand[y].step = "idle"
  BY <1>3 DEF LaunchInv, InHand
<1>5. \A o \in Launched : HasRemoval(o)' <=> HasRemoval(o)
  BY <1>1 DEF HasRemoval, About
<1>6. \A o \in Launched : ~Told(o)' /\ \A y \in Agents : ~Telling(y, o)'
  BY <1>1, <1>3, <1>4 DEF Told, Telling
<1>7. instance \in [Launched -> InstanceRow] /\ instance[i] \in InstanceRow
  BY DEF LaunchInv, LaunchTypeOK
<1>8. ASSUME Smooth', NEW o \in Launched, o # i, CoherentAt(o) PROVE CoherentAt(o)'
  <2>1. ~Told(o)
    BY <1>2, <1>4, <1>8 DEF Told, EffectOf, Telling, AnswersAt, OneAnswer
  <2>2. instance'[o] = instance[o]
    BY <1>2, <1>8, OutcomeSettles DEF RowSettled
  <2>3. StatusFits(o)'
    BY <1>1, <1>8, <2>1, <2>2 DEF CoherentAt, StatusFits, IsLive
  <2> QED BY <1>3, <1>6, <2>3 DEF CoherentAt
<1>9. ASSUME Smooth', CoherentAt(i), ~HasRemoval(i) PROVE CoherentAt(i)'
  <2>1. Fits(container[i].state, job[e.job].kind, e.ok)
    BY <1>2, <1>9 DEF CoherentAt, EffectOf
  <2>2. job[e.job].kind \in LifecycleKinds \cup {"provision"}
    <3>1. job[e.job].kind \in LifecycleKinds \cup {"provision", "remove"}
      BY OutcomeOf DEF LaunchInv, Enqueued, Final
    <3>2. job[e.job].kind # "remove"
      BY <1>2, <1>9, OutcomeOf DEF HasRemoval, About
    <3> QED BY <3>1, <3>2
  <2>3. PICK kind : kind = job[e.job].kind
    OBVIOUS
  <2>4. \/ ~IsLive(i) /\ UNCHANGED instance
        \/ ~e.ok /\ instance' = [instance EXCEPT ![i].status = "error"]
        \/ e.ok /\ kind = "provision" /\ instance' = [instance EXCEPT ![i].known = TRUE, ![i].status = "running"]
        \/ e.ok /\ kind \in {"start", "restart"} /\ instance' = [instance EXCEPT ![i].status = "running"]
        \/ e.ok /\ kind = "stop" /\ instance' = [instance EXCEPT ![i].status = "stopped"]
    BY <1>2, <2>2, <2>3 DEF CompleteProvision, SetInstanceStatus, LifecycleKinds
  <2>5. \/ ~IsLive(i)'
        \/ instance'[i].status = "error"
        \/ instance'[i].status = "running" /\ e.ok /\ kind \in {"provision", "start", "restart"}
        \/ instance'[i].status = "stopped" /\ e.ok /\ kind = "stop"
    <3>1. CASE ~IsLive(i) /\ UNCHANGED instance
      BY <3>1 DEF IsLive
    <3>2. CASE ~e.ok /\ instance' = [instance EXCEPT ![i].status = "error"]
      BY <1>7, <3>2 DEF InstanceRow
    <3>3. CASE e.ok /\ kind = "provision" /\ instance' = [instance EXCEPT ![i].known = TRUE, ![i].status = "running"]
      BY <1>7, <3>3 DEF InstanceRow
    <3>4. CASE e.ok /\ kind \in {"start", "restart"} /\ instance' = [instance EXCEPT ![i].status = "running"]
      BY <1>7, <3>4 DEF InstanceRow
    <3>5. CASE e.ok /\ kind = "stop" /\ instance' = [instance EXCEPT ![i].status = "stopped"]
      BY <1>7, <3>5 DEF InstanceRow
    <3> QED BY <2>4, <3>1, <3>2, <3>3, <3>4, <3>5
  <2>6. StatusFits(i)'
    BY <1>1, <2>1, <2>3, <2>5 DEF StatusFits, Fits, IsLive
  <2> QED BY <1>3, <1>6, <2>6 DEF CoherentAt
<1>10. Coherent'
  <2> SUFFICES ASSUME Smooth', NEW o \in Launched, ~HasRemoval(o) PROVE CoherentAt(o)'
    BY <1>5 DEF Coherent
  <2>1. CoherentAt(o)
    BY <1>1 DEF AnswersAt, Coherent, Smooth
  <2> QED BY <1>8, <1>9, <2>1
<1> QED BY <1>3, <1>10 DEF AnswersAt, OneAnswer

\* Requests, and jobs that are enqueued, leave what was done and told.
LEMMA RequestsAnswer ==
  ASSUME LaunchInv, AnswersAt,
         \/ Asking
         \/ \E i \in Launched, p \in Ports : Provision(i, p)
         \/ \E c \in requests, j \in Jobs : EnqueueJob(c, j)
  PROVE  AnswersAt'
<1>1. CASE Asking
  <2>1. \A i \in Launched : instance[i] \in InstanceRow /\ instance'[i] \in InstanceRow
    BY <1>1 DEF Asking, RowsGrow, LaunchInv, LaunchTypeOK
  <2>2. \A i \in Launched : IsLive(i)' => IsLive(i)
    BY <1>1, <2>1 DEF Asking, RowsGrow, IsLive, InstanceRow
  <2> QED BY <1>1, <2>2, AnswersStay DEF Asking
<1>2. ASSUME NEW i \in Launched, NEW p \in Ports, Provision(i, p) PROVE AnswersAt'
  <2>1. instance' = [instance EXCEPT ![i] = [row |-> "live", status |-> "provisioning", known |-> FALSE, port |-> p]]
    BY <1>2 DEF Provision
  <2>2. instance'[i].status = "provisioning" /\ \A o \in Launched \ {i} : instance'[o] = instance[o]
    BY <2>1 DEF LaunchInv, LaunchTypeOK
  <2>3. UNCHANGED <<job, hand, effects, faults, container, setbacks>>
    BY <1>2 DEF Provision, opsVars
  <2> QED BY <2>2, <2>3, AnswersStay DEF Smooth, IsLive
<1>3. ASSUME NEW c \in requests, NEW j \in Jobs, EnqueueJob(c, j) PROVE AnswersAt'
  <2>1. UNCHANGED <<hand, effects, faults, instance, container, setbacks>> /\ job[j].status = "none"
    BY <1>3 DEF EnqueueJob, Create, NewJob
  <2>2. \A k \in Jobs \ {j} : job'[k] = job[k]
    BY <1>3 DEF EnqueueJob, Create, NewJob, LaunchInv, LaunchTypeOK
  <2> QED BY <2>1, <2>2, AnswersStay DEF Smooth, IsLive
<1> QED BY <1>1, <1>2, <1>3

LEMMA AnswersGoOn == AnswersAwaited /\ LaunchInv /\ AnswersAt /\ [ProvisioningNext]_provVars => AnswersAt'
<1> SUFFICES ASSUME AnswersAwaited, LaunchInv, AnswersAt, [ProvisioningNext]_provVars PROVE AnswersAt'
  OBVIOUS
<1>1. CASE ProvisioningNext
  BY <1>1, LaunchSteps, RequestsAnswer, ClaimAnswers, PayloadAnswers, DockerAnswers, ReportAnswers, DyingAnswers, OutcomeAnswers
<1>2. CASE UNCHANGED provVars
  BY <1>2, AnswersStay DEF provVars, opsVars, Smooth, IsLive
<1> QED BY <1>1, <1>2

LEMMA NothingAnswered == ProvisioningInit => AnswersAt
<1> SUFFICES ASSUME ProvisioningInit PROVE AnswersAt
  OBVIOUS
<1>1. /\ hand = [x \in Executors |-> IdleHand] /\ effects = {}
      /\ instance = [i \in Launched |-> [row |-> "none", status |-> "none", known |-> FALSE, port |-> Gone.port]]
  BY DEF ProvisioningInit, OpsInit
<1>2. \A i \in Launched : CoherentAt(i)
  BY <1>1 DEF CoherentAt, Telling, StatusFits, IsLive, IdleHand, Executors
<1> QED BY <1>1, <1>2 DEF AnswersAt, OneAnswer, Coherent

LEMMA LaunchesInvariant == AnswersAwaited => (ProvisioningSpec => [](StatusIsReal /\ DeletedLeavesNothing))
<1> SUFFICES ASSUME AnswersAwaited PROVE ProvisioningSpec => [](StatusIsReal /\ DeletedLeavesNothing)
  OBVIOUS
<1>1. ProvisioningInit => LaunchInv /\ AnswersAt
  BY NothingLaunched, NothingAnswered
<1>2. LaunchInv /\ AnswersAt /\ [ProvisioningNext]_provVars => (LaunchInv /\ AnswersAt)'
  BY LaunchesGoOn, AnswersGoOn
<1>3. LaunchInv /\ AnswersAt => StatusIsReal /\ DeletedLeavesNothing
  BY LaunchAnswered, LaunchDeleted
<1> QED BY <1>1, <1>2, <1>3, PTL DEF ProvisioningSpec

\* What is recorded of instances, tunnels and credentials is what there is.  As
\* long as nothing fails and nothing is under way, a row that says running or
\* stopped has its container so, and a deleted instance has no container, nor the
\* volume if that was to go (completeProvision, Delete).  A link is open only to
\* the bastion whose key was pinned (the host-key callback), and a forwarder that
\* is closed has left no connection and no goroutine (Forwarder.Close).  A revoked
\* credential has no sessions on PostgreSQL (Revoke); unless something failed, an
\* active one logs in, and unless a process died an account that logs in is of an
\* active one or of one that is worked on (Create, Rotate, Revoke).
\* The agent is taken to have the answer to a report before it asks for a job.
THEOREM InstancesAreAccounted ==
  AnswersAwaited => (ProvisioningSpec /\ TunnelsSpec /\ CredentialsSpec => []InstancesAccounted)
<1> SUFFICES ASSUME AnswersAwaited PROVE ProvisioningSpec /\ TunnelsSpec /\ CredentialsSpec => []InstancesAccounted
  OBVIOUS
<1>1. ProvisioningSpec => [](StatusIsReal /\ DeletedLeavesNothing)
  BY LaunchesInvariant
<1>2. StatusIsReal /\ DeletedLeavesNothing /\ OneBastion /\ NothingIsLeft /\ SessionsEnd /\ ActiveLogsIn /\ NothingLeft
        => InstancesAccounted
  BY DEF InstancesAccounted
<1> QED BY <1>1, <1>2, TunnelsInvariant, CredentialsInvariant, PTL
=============================================================================
