----------------------------- MODULE MCInventory -----------------------------
(* Instances of Databases and AgentEnrollment for TLC.  The two share nothing
   the properties are about, so that each behaviour is of one of them. *)
EXTENDS Databases, AgentEnrollment

CONSTANTS d1, d2, i1, x1, x2, m1, g1, g2, t1, t2

VARIABLE part

TwoRecords  == {d1, d2}
OneInstance == {i1}
TwoPlaces   == {x1, x2}
Together    == [x \in TwoPlaces |-> i1]
OneMachine  == {m1}
TwoServers  == {g1, g2}
TwoTokens   == {t1, t2}

inventoryVars == <<part, dbVars, enrollVars>>

InventoryInit == part \in {"databases", "agents"} /\ DatabasesInit /\ EnrollmentInit

InventoryNext ==
  /\ UNCHANGED part
  /\ \/ part = "databases" /\ DatabasesNext /\ UNCHANGED enrollVars
     \/ part = "agents" /\ EnrollmentNext /\ UNCHANGED dbVars

\* DatabasesFairness and EnrollmentFairness, each in the behaviours of its module.
InventoryFairness ==
  /\ \A i \in Instances : /\ WF_dbVars(part = "databases" /\ ListDatabases(i))
                          /\ WF_dbVars(part = "databases" /\ ReconcileDatabases(i))
  /\ \A d \in Dbs : WF_dbVars(part = "databases" /\ Unseen(d))
  /\ WF_enrollVars(part = "agents" /\ MarkOffline)
  /\ \A s \in Servers : /\ WF_enrollVars(part = "agents" /\ AuthenticateBeat(s))
                        /\ WF_enrollVars(part = "agents" /\ Heartbeat(s))

InventorySpec == InventoryInit /\ [][InventoryNext]_inventoryVars /\ InventoryFairness

\* What is shown comes to be what there is, of databases and of agents: and a
\* server that was deleted is not brought back by what its agent still sends.
InventoryFollows == RecordsFollow /\ SilentGoesOffline /\ ReportingGoesOnline /\ DeletedServerStays
===============================================================================
