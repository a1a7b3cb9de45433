--------------------------- MODULE AgentEnrollment ---------------------------
(***************************************************************************)
(* Servers, the agents that run on them and how an agent gets its token.   *)
(*                                                                         *)
(* A registration token is used once: an agent that has no saved state     *)
(* sends it, the API checks it, finds or creates the server, marks the     *)
(* token used and stores a new agent token, in statements of their own.    *)
(* Heartbeats are authenticated first and recorded by server id after.     *)
(* Every minute servers that were not heard of are marked offline.         *)
(*                                                                         *)
(* Abstracted: an agent token is named after the registration it came      *)
(* from; names, addresses and health samples are left out, so that a new   *)
(* server always finds a free name.  An agent whose token is accepted is   *)
(* heard of in time (a heartbeat every 30 s against a limit of 90 s).      *)
(***************************************************************************)
EXTENDS Integers, FiniteSets

CONSTANTS
  Machines,    \* machines with an agent
  Servers,     \* server ids
  RegTokens,   \* registration token ids
  MaxCalls,    \* bound: registrations at once
  MaxBeats,    \* bound: heartbeats at once
  MaxMishaps   \* bound: deaths, lost answers, agents stopped

ASSUME EnrollmentAssumption ==
  /\ IsFiniteSet(Machines) /\ IsFiniteSet(Servers) /\ IsFiniteSet(RegTokens)
  /\ MaxCalls \in Nat /\ MaxBeats \in Nat /\ MaxMishaps \in Nat

VARIABLES
  server,    \* the servers table
  regToken,  \* the agent_registration_tokens table
  host,      \* each agent: its environment, its state file and its process
  calls,     \* registrations the API is handling
  rotating,  \* servers whose token RotateAgentToken has cleared
  beats,     \* servers with a heartbeat authenticated and not yet recorded
  mishaps

enrollVars == <<server, regToken, host, calls, rotating, beats, mishaps>>

\* Sets of at most one element: an agent token, a registration token, a server.
NoToken == {}
Bearer == [by : RegTokens, of : Servers]

Call == [host : Machines, reg : RegTokens, of : SUBSET Servers, step : {"attach", "mark", "issue", "answer"}]

Enrolled(s) == server[s].status \in {"pending", "online", "offline"}

EnrollmentInit ==
  /\ server = [s \in Servers |-> [status |-> "none", token |-> NoToken]]
  /\ regToken = [t \in RegTokens |-> [status |-> "none", of |-> {}]]
  /\ host = [h \in Machines |-> [env |-> {}, file |-> NoToken, run |-> "off"]]
  /\ calls = {} /\ rotating = {} /\ beats = {} /\ mishaps = 0

Mishap == mishaps < MaxMishaps /\ mishaps' = mishaps + 1

---------------------------------------------------------------------------
(* Users *)

\* Ids are random: which one is new makes no difference.
NewToken == CHOOSE t \in RegTokens : regToken[t].status = "none"
NewServer == CHOOSE s \in Servers : server[s].status = "none"

InsertToken(t, of) ==
  /\ regToken[t].status = "none" /\ t = NewToken
  /\ regToken' = [regToken EXCEPT ![t] = [status |-> "unused", of |-> of]]

CreateToken(t) ==
  /\ InsertToken(t, {})
  /\ UNCHANGED <<server, host, calls, rotating, beats, mishaps>>

ExpireToken(t) ==
  /\ regToken[t].status = "unused"
  /\ regToken' = [regToken EXCEPT ![t].status = "expired"]
  /\ UNCHANGED <<server, host, calls, rotating, beats, mishaps>>

RevokeToken(t) ==
  /\ regToken[t].status \in {"unused", "expired", "used"}
  /\ regToken' = [regToken EXCEPT ![t] = [status |-> "deleted", of |-> {}]]
  /\ UNCHANGED <<server, host, calls, rotating, beats, mishaps>>

ClearAgentToken(s) ==
  /\ Enrolled(s)
  /\ server' = [server EXCEPT ![s].token = NoToken, ![s].status = "offline"]

RevokeAgentToken(s) ==
  /\ ClearAgentToken(s)
  /\ UNCHANGED <<regToken, host, calls, rotating, beats, mishaps>>

RotateAgentToken(s) ==
  /\ ClearAgentToken(s)
  /\ rotating' = rotating \cup {s}
  /\ UNCHANGED <<regToken, host, calls, beats, mishaps>>

IssueBoundToken(s, t) ==
  /\ s \in rotating
  /\ InsertToken(t, {s})
  /\ rotating' = rotating \ {s}
  /\ UNCHANGED <<server, host, calls, beats, mishaps>>

\* The row keeps its token, which nothing reads any more.
DeleteServer(s) ==
  /\ Enrolled(s)
  /\ server' = [server EXCEPT ![s] = [status |-> "deleted", token |-> NoToken]]
  /\ UNCHANGED <<regToken, host, calls, rotating, beats, mishaps>>

---------------------------------------------------------------------------
(* The agent *)

\* The install command forgets the saved state and starts the agent anew.
Install(h, t) ==
  /\ regToken[t].status = "unused" /\ host[h].env # {t}
  /\ host' = [host EXCEPT ![h] = [env |-> {t}, file |-> NoToken, run |-> "off"]]
  /\ UNCHANGED <<server, regToken, calls, rotating, beats, mishaps>>

BootEnrolled(h) ==
  /\ host[h].run = "off" /\ host[h].file # NoToken
  /\ host' = [host EXCEPT ![h].run = "ready"]
  /\ UNCHANGED <<server, regToken, calls, rotating, beats, mishaps>>

\* GetByHash and its checks; a token that does not pass ends the agent, which
\* systemd starts again.
BootRegister(h, t) ==
  /\ host[h].run = "off" /\ host[h].file = NoToken /\ host[h].env = {t}
  /\ regToken[t].status = "unused" /\ Cardinality(calls) < MaxCalls
  /\ host' = [host EXCEPT ![h].run = "waiting"]
  /\ calls' = calls \cup {[host |-> h, reg |-> t, of |-> regToken[t].of, step |-> "attach"]}
  /\ UNCHANGED <<server, regToken, rotating, beats, mishaps>>

Stop(h) ==
  /\ host[h].run # "off" /\ Mishap
  /\ host' = [host EXCEPT ![h].run = "off"]
  /\ UNCHANGED <<server, regToken, calls, rotating, beats>>

\* The call of a waiting agent; one that was stopped meanwhile waits no more.
Waits(c) == host[c.host].run = "waiting" /\ host[c.host].env = {c.reg}

RefuseCall(c) ==
  /\ calls' = calls \ {c}
  /\ host' = IF Waits(c) THEN [host EXCEPT ![c.host].run = "off"] ELSE host

---------------------------------------------------------------------------
(* Register, statement by statement *)

Advance(c, step, of) == calls' = (calls \ {c}) \cup {[c EXCEPT !.step = step, !.of = of]}

CreateServer(c) ==
  /\ c \in calls /\ c.step = "attach" /\ c.of = {}
  /\ \E s \in Servers : server[s].status = "none"
  /\ server' = [server EXCEPT ![NewServer].status = "pending"]
  /\ Advance(c, "mark", {NewServer})
  /\ UNCHANGED <<regToken, host, rotating, beats, mishaps>>

FindServer(c) ==
  /\ c \in calls /\ c.step = "attach" /\ c.of # {}
  /\ IF \A s \in c.of : Enrolled(s) THEN Advance(c, "mark", c.of) /\ UNCHANGED host
     ELSE RefuseCall(c)
  /\ UNCHANGED <<server, regToken, rotating, beats, mishaps>>

\* Mutant: without "AND used_at IS NULL".
MarkUsedAgain(c) ==
  /\ c \in calls /\ c.step = "mark"
  /\ IF regToken[c.reg].status # "deleted"
       THEN /\ regToken' = [regToken EXCEPT ![c.reg] = [status |-> "used", of |-> c.of]]
            /\ Advance(c, "issue", c.of) /\ UNCHANGED host
       ELSE RefuseCall(c) /\ UNCHANGED regToken
  /\ UNCHANGED <<server, rotating, beats, mishaps>>

MarkUsed(c) ==
  /\ c \in calls /\ c.step = "mark"
  /\ IF regToken[c.reg].status \in {"unused", "expired"}
       THEN /\ regToken' = [regToken EXCEPT ![c.reg] = [status |-> "used", of |-> c.of]]
            /\ Advance(c, "issue", c.of) /\ UNCHANGED host
       ELSE RefuseCall(c) /\ UNCHANGED regToken
  /\ UNCHANGED <<server, rotating, beats, mishaps>>

SetAgentToken(c) ==
  /\ c \in calls /\ c.step = "issue"
  /\ \E s \in c.of :
       IF Enrolled(s)
         THEN /\ server' = [server EXCEPT ![s] =
                    [status |-> "online", token |-> {[by |-> c.reg, of |-> s]}]]
              /\ Advance(c, "answer", c.of) /\ UNCHANGED host
         ELSE RefuseCall(c) /\ UNCHANGED server
  /\ UNCHANGED <<regToken, rotating, beats, mishaps>>

\* The answer, and the state file the agent writes.
Answer(c) ==
  /\ c \in calls /\ c.step = "answer"
  /\ calls' = calls \ {c}
  /\ host' = IF Waits(c)
               THEN [host EXCEPT ![c.host].run = "ready",
                                 ![c.host].file = {[by |-> c.reg, of |-> s] : s \in c.of}]
               ELSE host
  /\ UNCHANGED <<server, regToken, rotating, beats, mishaps>>

\* The API dies, or the answer is lost.
CallLost(c) ==
  /\ c \in calls /\ Mishap
  /\ RefuseCall(c)
  /\ UNCHANGED <<server, regToken, rotating, beats>>

RotationLost(s) ==
  /\ s \in rotating /\ Mishap
  /\ rotating' = rotating \ {s}
  /\ UNCHANGED <<server, regToken, host, calls, beats>>

---------------------------------------------------------------------------
(* Heartbeats *)

Heard(s) == \E h \in Machines : host[h].run = "ready" /\ host[h].file # NoToken /\ host[h].file = server[s].token

AuthenticateBeat(s) ==
  /\ Enrolled(s) /\ Heard(s) /\ Cardinality(beats) < MaxBeats
  /\ beats' = beats \cup {s}
  /\ UNCHANGED <<server, regToken, host, calls, rotating, mishaps>>

Heartbeat(s) ==
  /\ s \in beats /\ beats' = beats \ {s}
  /\ server' = IF Enrolled(s)
                 THEN [server EXCEPT ![s].status = "online"] ELSE server
  /\ UNCHANGED <<regToken, host, calls, rotating, mishaps>>

\* Mutant: only servers with a token are expected to report.
StaleWithToken == {s \in Servers : server[s].status = "online" /\ server[s].token # NoToken /\ ~Heard(s)}

\* The limit has passed without a heartbeat, as it may when nobody sends any.
Stale == {s \in Servers : server[s].status = "online" /\ ~Heard(s)}

MarkOffline ==
  /\ Stale # {}
  /\ server' = [s \in Servers |-> IF s \in Stale THEN [server[s] EXCEPT !.status = "offline"] ELSE server[s]]
  /\ UNCHANGED <<regToken, host, calls, rotating, beats, mishaps>>

UserSteps ==
  \/ \E t \in RegTokens : \/ CreateToken(t) \/ ExpireToken(t) \/ RevokeToken(t)
                          \/ \E s \in Servers : IssueBoundToken(s, t)
                          \/ \E h \in Machines : Install(h, t)
  \/ \E s \in Servers : RevokeAgentToken(s) \/ RotateAgentToken(s) \/ DeleteServer(s)

AgentSteps == \E h \in Machines : BootEnrolled(h) \/ Stop(h) \/ \E t \in RegTokens : BootRegister(h, t)

CallStep(c) == CreateServer(c) \/ FindServer(c) \/ MarkUsed(c) \/ SetAgentToken(c) \/ Answer(c)

BeatSteps(s) == AuthenticateBeat(s) \/ Heartbeat(s)

EnrollmentNext ==
  \/ UserSteps \/ AgentSteps \/ MarkOffline
  \/ \E c \in calls : CallStep(c) \/ CallLost(c)
  \/ \E s \in Servers : RotationLost(s) \/ BeatSteps(s)

EnrollmentSpec == EnrollmentInit /\ [][EnrollmentNext]_enrollVars

\* Agents send heartbeats, the API records them and one replica at a time keeps
\* house.
EnrollmentFairness ==
  /\ WF_enrollVars(MarkOffline)
  /\ \A s \in Servers : /\ WF_enrollVars(AuthenticateBeat(s)) /\ WF_enrollVars(Heartbeat(s))

---------------------------------------------------------------------------
(* Properties *)

\* A registration token enrolls one server at most, the one it was bound to or
\* created, however many agents send it at once and whenever their calls are
\* cut off: the server of every agent token is the one its registration names.
TokenEnrollsOnce ==
  \A s \in Servers : \A b \in server[s].token :
    /\ regToken[b.by].status \in {"used", "deleted"}
    /\ regToken[b.by].status = "used" => regToken[b.by].of = {s}

\* A server the user deleted stays deleted: not the heartbeat in flight, nor a
\* registration under way, nor the housekeeping brings it back.
DeletedServerStays ==
  [][\A s \in Servers : server[s].status = "deleted" => server'[s].status = "deleted"]_enrollVars

\* A server nobody reports for does not stay online, also when a heartbeat that
\* was authenticated before its token was revoked is recorded after.
SilentGoesOffline ==
  \A s \in Servers : []<>~(server[s].status = "online" /\ ~Heard(s))

\* A server whose agent keeps reporting does not stay offline.
ReportingGoesOnline ==
  \A s \in Servers : []<>(server[s].status # "offline" \/ ~Heard(s))
=============================================================================
