------------------------------- MODULE Tunnels -------------------------------
(***************************************************************************)
(* SSH sessions that share a configuration, and the local port that a dump *)
(* or restore tool dials to get through one of them.                       *)
(*                                                                         *)
(* Dials run concurrently.  Each reads the pinned key of the bastion when  *)
(* it begins and, when there was none, pins the key it was shown.  One of  *)
(* them is the forwarder's: it accepts connections, each with a goroutine  *)
(* that copies both ways, until it is closed.                              *)
(***************************************************************************)
EXTENDS Integers, FiniteSets

CONSTANTS
  Dials,
  Forwarder,   \* the dial whose session the local port uses
  Conns,       \* connections of tools to the local port
  HostKeys,    \* keys the bastion presents, one after the other
  MaxBreaks    \* bound: faults of the network, the database and the store

ASSUME TunnelsAssumption ==
  Forwarder \in Dials /\ IsFiniteSet(Conns) /\ "none" \notin HostKeys /\ MaxBreaks \in Nat

VARIABLES
  hostKey,     \* Config.HostKey
  savedKey,    \* what OnPin has saved
  bastion,     \* the key the bastion presents
  link,     \* by dial: [at, want, saw]
  conn,        \* by connection: [at, tool, remote, copies]
  accepting,   \* the goroutine that accepts
  closing,     \* closeFn
  counted,     \* what the wait group counts
  breaks

tunnelVars == <<hostKey, savedKey, bastion, link, conn, accepting, closing, counted, breaks>>

NoKey == "none"
NoSession == [at |-> "none", want |-> NoKey, saw |-> NoKey]
NoConn == [at |-> "none", tool |-> FALSE, remote |-> FALSE, copies |-> {}]

TunnelsInit ==
  /\ hostKey = NoKey /\ savedKey = NoKey /\ bastion \in HostKeys
  /\ link = [d \in Dials |-> NoSession]
  /\ conn = [c \in Conns |-> NoConn]
  /\ accepting = FALSE /\ closing = "no" /\ counted = 0 /\ breaks = 0

Fault == breaks < MaxBreaks /\ breaks' = breaks + 1
forwardVars == <<conn, accepting, closing, counted>>

---------------------------------------------------------------------------
(* connect *)

\* pinnedKey, clientConfig
Connect(d) ==
  /\ link[d].at = "none"
  /\ link' = [link EXCEPT ![d] = [at |-> "handshake", want |-> hostKey, saw |-> NoKey]]
  /\ UNCHANGED <<hostKey, savedKey, bastion, forwardVars, breaks>>

\* The host key callback: any key when none was pinned, else only that one.
Handshake(d) ==
  /\ link[d].at = "handshake"
  /\ link' = [link EXCEPT ![d].saw = bastion,
       ![d].at = CASE link[d].want = NoKey -> "pin"
                   [] link[d].want = bastion -> "open"
                   [] OTHER -> "refused"]
  /\ UNCHANGED <<hostKey, savedKey, bastion, forwardVars, breaks>>

\* Another dial has pinned: the key it saw must be the one this dial saw.
PinnedSame(d) == hostKey = link[d].saw

\* pin
PinKey(d) ==
  /\ link[d].at = "pin"
  /\ IF hostKey # NoKey
     THEN /\ link' = [link EXCEPT ![d].at = IF PinnedSame(d) THEN "open" ELSE "refused"]
          /\ UNCHANGED <<hostKey, savedKey>>
     ELSE /\ hostKey' = link[d].saw /\ savedKey' = link[d].saw
          /\ link' = [link EXCEPT ![d].at = "open"]
  /\ UNCHANGED <<bastion, forwardVars, breaks>>

\* The dial fails: no answer, or OnPin cannot save the key.
ConnectFails(d) ==
  /\ Fault /\ link[d].at \in {"handshake", "pin"}
  /\ link' = [link EXCEPT ![d].at = "refused"]
  /\ UNCHANGED <<hostKey, savedKey, bastion, forwardVars>>

ChangeKey == Fault /\ bastion' \in HostKeys \ {bastion} /\ UNCHANGED <<hostKey, savedKey, link, forwardVars>>

---------------------------------------------------------------------------
(* Forward *)

SessionUp == link[Forwarder].at = "open"
keyVars == <<hostKey, savedKey, bastion>>

\* Forward: the goroutine that accepts is counted.
Forward ==
  /\ SessionUp /\ closing = "no" /\ ~accepting /\ counted = 0
  /\ accepting' = TRUE /\ counted' = 1
  /\ UNCHANGED <<keyVars, link, conn, closing, breaks>>

\* The tool dials the local port.
ToolConnects(c) ==
  /\ counted > 0 /\ closing = "no" /\ conn[c].at = "none"
  /\ conn' = [conn EXCEPT ![c] = [NoConn EXCEPT !.at = "backlog", !.tool = TRUE]]
  /\ UNCHANGED <<keyVars, link, accepting, closing, counted, breaks>>

\* A goroutine more to wait for.
Count == counted' = counted + 1

\* Accept
Accept(c) ==
  /\ accepting /\ conn[c].at = "backlog" /\ closing = "no"
  /\ conn' = [conn EXCEPT ![c].at = "accepted"] /\ Count
  /\ UNCHANGED <<keyVars, link, accepting, closing, breaks>>

\* The listener is closed, or accepting fails: the goroutine returns.
AcceptEnds ==
  /\ accepting /\ accepting' = FALSE /\ counted' = counted - 1
  /\ IF closing = "no" THEN Fault ELSE UNCHANGED breaks
  /\ UNCHANGED <<keyVars, link, conn, closing>>

\* The database is dialled through the session.
DialRemote(c) ==
  /\ conn[c].at = "accepted"
  /\ \/ SessionUp /\ conn' = [conn EXCEPT ![c].at = "piping", ![c].remote = TRUE, ![c].copies = {"in", "out"}]
        /\ UNCHANGED <<counted, breaks>>
     \/ /\ IF SessionUp THEN Fault ELSE UNCHANGED breaks
        /\ conn' = [conn EXCEPT ![c] = [NoConn EXCEPT !.at = "done"]] /\ counted' = counted - 1
  /\ UNCHANGED <<keyVars, link, accepting, closing>>

\* A copy ends with what it reads from.
SourceEnded(c, copy) ==
  \/ conn[c].at = "unblocked"
  \/ copy = "in" /\ ~conn[c].tool
  \/ copy = "out" /\ ~(conn[c].remote /\ SessionUp)

UnblockedNever == "piping"

\* Both connections closed, for the sake of the other copy.
Unblocked == "unblocked"

\* pipe: the end of one copy closes both connections.
CopyEnds(c, copy) ==
  /\ conn[c].at \in {"piping", "unblocked"} /\ copy \in conn[c].copies /\ SourceEnded(c, copy)
  /\ IF conn[c].copies = {copy}
     THEN conn' = [conn EXCEPT ![c] = [NoConn EXCEPT !.at = "done"]] /\ counted' = counted - 1
     ELSE conn' = [conn EXCEPT ![c].at = Unblocked, ![c].copies = @ \ {copy}] /\ UNCHANGED counted
  /\ UNCHANGED <<keyVars, link, accepting, closing, breaks>>

\* The tool, or the database, ends its side; or neither ever does.
ToolEnds(c) == conn[c].tool /\ conn' = [conn EXCEPT ![c].tool = FALSE] /\ UNCHANGED <<keyVars, link, accepting, closing, counted, breaks>>
RemoteEnds(c) == Fault /\ conn[c].remote /\ conn' = [conn EXCEPT ![c].remote = FALSE] /\ UNCHANGED <<keyVars, link, accepting, closing, counted>>
SessionEnds == Fault /\ SessionUp /\ link' = [link EXCEPT ![Forwarder].at = "ended"] /\ UNCHANGED <<keyVars, forwardVars>>

\* closeFn: the listener and the session are closed, and all are waited for.
Close ==
  /\ counted > 0 /\ closing = "no" /\ closing' = "waiting"
  /\ link' = [link EXCEPT ![Forwarder].at = "ended"]
  /\ UNCHANGED <<keyVars, conn, accepting, counted, breaks>>
CloseReturns ==
  /\ closing = "waiting" /\ counted = 0 /\ closing' = "returned"
  /\ UNCHANGED <<keyVars, link, conn, accepting, counted, breaks>>

---------------------------------------------------------------------------
Serve(c) == Accept(c) \/ DialRemote(c) \/ (\E copy \in {"in", "out"} : CopyEnds(c, copy))

TunnelsNext ==
  \/ \E d \in Dials : Connect(d) \/ Handshake(d) \/ PinKey(d) \/ ConnectFails(d)
  \/ ChangeKey \/ Forward \/ AcceptEnds \/ SessionEnds \/ Close \/ CloseReturns
  \/ \E c \in Conns : ToolConnects(c) \/ Serve(c) \/ ToolEnds(c) \/ RemoteEnds(c)

\* The goroutines of the forwarder go on; the tool and the database need not.
TunnelsFairness ==
  /\ \A c \in Conns : WF_tunnelVars(Serve(c))
  /\ WF_tunnelVars(closing = "waiting" /\ AcceptEnds) /\ WF_tunnelVars(CloseReturns)

TunnelsSpec == TunnelsInit /\ [][TunnelsNext]_tunnelVars /\ TunnelsFairness

---------------------------------------------------------------------------
(* Properties *)

\* "A concurrent dial may have pinned first; then the key it saw must be the
\* one this dial saw too" (sshtunnel.go:228): all sessions of a
\* configuration are with one bastion, the one that is saved.
OneBastion == \A d \in Dials : link[d].at = "open" => link[d].saw = hostKey /\ hostKey = savedKey

\* Closing the forwarder returns, whatever the tool and the database do.
CloseEnds == (closing = "waiting") ~> (closing = "returned")

\* When it has returned nothing of it is left: no goroutine, no connection.
NothingIsLeft == closing = "returned" => ~accepting /\ \A c \in Conns : conn[c].at \in {"none", "backlog", "done"}
=============================================================================
