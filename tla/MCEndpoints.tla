---------------------------- MODULE MCEndpoints ----------------------------
(***************************************************************************)
(* Endpoints in three settings: users and a gateway that refuses reloads;  *)
(* users alone, where everything comes to an end; and moves, crashes and   *)
(* restarts.                                                               *)
(***************************************************************************)
EXTENDS Endpoints

VARIABLE setting

Calm  == INSTANCE Endpoints WITH Features <- {"disable", "edit", "down", "reload"}
Live  == INSTANCE Endpoints WITH Features <- {"disable", "delete", "edit"}
Shaky == INSTANCE Endpoints WITH Features <- {"delete", "move", "crash", "restart"}

\* The databases that are there from the first (others come with a move).
PartsInit ==
  /\ Init
  /\ \/ setting = "calm" /\ \A d \in Databases : db[d].status = "active"
     \/ setting = "live" /\ \A d \in Databases : db[d].status = "active" <=> d = 1
     \/ setting = "shaky"

\* Bounds: what each setting uses of the rows, ports and allowlists; in the
\* first users ask one after the other.
Within(slots, ports, lists) ==
  \A s \in Slots : ep'[s] # ep[s] => /\ s \in slots /\ ep'[s].port \in ports \cup {0}
                                     /\ ep'[s].allow \in lists \cup {Nothing}

CalmSteps  == setting = "calm" /\ Calm!Next /\ Within(Slots, Ports, {1}) /\ Cardinality(asked') <= 1
LiveSteps  == setting = "live" /\ Live!Next /\ Within({1, 2}, {1}, Lists)
ShakySteps == setting = "shaky" /\ Shaky!Next /\ Within({1, 2}, {1}, {1})

PartsNext == UNCHANGED setting /\ (CalmSteps \/ LiveSteps \/ ShakySteps)

PartsSpec ==
  /\ PartsInit /\ [][PartsNext]_<<setting, vars>>
  /\ \A r \in Replicas : WF_vars(setting = "live" /\ Live!Reconcile(r))

\* Where nothing fails for ever, reconciliation reaches a verdict on every
\* enabled endpoint, retires every disabled one and takes it off the gateway,
\* and brings every edited allowlist there.
InLive(s, status) == setting = "live" /\ ep[s].status = status

PendingEnds == \A s \in {1, 2} : InLive(s, "pending") ~> ep[s].status # "pending"

DisablingEnds == \A s \in {1, 2} : InLive(s, "disabling") ~> ep[s].status # "disabling"

LeftoversEnd == \A s \in {1, 2} : setting = "live" /\ Leftover(s) ~> ~Leftover(s)

EditsArrive ==
  \A s \in {1, 2}, allow \in Lists :
    (InLive(s, "active") /\ ep[s].allow = allow) ~> (ep[s].status # "active" \/ ep[s].allow # allow \/ RouteOf(s) \in running)

\* FileIsServed, ActiveIsServed and ListenerKept, where the gateway does not
\* restart, no process dies and no database is moved: after every step the
\* gateway serves the configuration on disk, and in it every endpoint the users
\* are shown as active; and one in error keeps its listener.
ServedAsShown ==
  [][setting # "shaky" => FileIsServed' /\ ActiveIsServed' /\ KeepsListeners]_<<setting, vars>>

\* All that is asked of the gateway comes to be: verdicts, removals and edits.
EndpointsSettle == PendingEnds /\ DisablingEnds /\ LeftoversEnd /\ EditsArrive
===============================================================================
