----------------------------- MODULE MCInstances -----------------------------
(***************************************************************************)
(* Instances of databases: how they come to run, the tunnels to them and   *)
(* the accounts on them.  Each behaviour is of one of them, and the others *)
(* rest in a state they begin with.                                        *)
(***************************************************************************)
EXTENDS Provisioning, Tunnels, TunnelDeadlines, Credentials

CONSTANT TwoSubjects

VARIABLE component

AllKinds == {"provision", "start", "stop", "restart", "remove"}

\* One thing goes wrong with an instance, or the server goes.
OneFailure == faults + setbacks + (IF machine = "up" THEN 0 ELSE 1) <= 1

\* Two instances, and one request at once.
Two == INSTANCE Provisioning WITH Subjects <- TwoSubjects, MaxRequests <- 1

vars == <<component, provVars, tunnelVars, deadlineVars, credentialVars>>

TunnelsRest     == TunnelsInit /\ bastion = CHOOSE k \in HostKeys : TRUE
CredentialsRest == engine = "mysql" /\ CredentialsInit

Init ==
  /\ DeadlinesInit
  /\ \/ component \in {"provisioning", "deadlines"} /\ ProvisioningInit /\ TunnelsRest /\ CredentialsRest
     \/ component = "two" /\ Two!ProvisioningInit /\ TunnelsRest /\ CredentialsRest
     \/ component = "tunnels" /\ ProvisioningInit /\ TunnelsInit /\ CredentialsRest
     \/ component = "credentials" /\ ProvisioningInit /\ TunnelsRest /\ CredentialsInit

Next ==
  /\ UNCHANGED component
  /\ \/ component = "provisioning" /\ UNCHANGED <<tunnelVars, deadlineVars, credentialVars>> /\ ProvisioningNext
     \/ component = "two" /\ UNCHANGED <<tunnelVars, deadlineVars, credentialVars>> /\ Two!ProvisioningNext
     \/ component = "tunnels" /\ UNCHANGED <<provVars, deadlineVars, credentialVars>> /\ TunnelsNext
     \/ component = "deadlines" /\ UNCHANGED <<provVars, tunnelVars, credentialVars>> /\ DeadlinesNext
     \/ component = "credentials" /\ UNCHANGED <<provVars, tunnelVars, deadlineVars>> /\ CredentialsNext

\* The fairness of each module, in its behaviours.
Fairness ==
  /\ \A i \in Launched : WF_provVars(component = "provisioning" /\ \E c \in requests : c.of = i /\ NeedsJob(c) /\ Writes(c))
  /\ \A x \in Agents : WF_provVars(component = "provisioning" /\ AgentWork(x))
  /\ WF_provVars(component = "provisioning" /\ \E e \in effects : CompleteProvision(e))
  /\ \A i \in TwoSubjects : WF_provVars(component = "two" /\ \E c \in requests : c.of = i /\ NeedsJob(c) /\ Two!Writes(c))
  /\ \A x \in Agents : WF_provVars(component = "two" /\ Two!AgentWork(x))
  /\ WF_provVars(component = "two" /\ \E e \in effects : Two!CompleteProvision(e))
  /\ \A c \in Conns : WF_tunnelVars(component = "tunnels" /\ Serve(c))
  /\ WF_tunnelVars(component = "tunnels" /\ closing = "waiting" /\ AcceptEnds)
  /\ WF_tunnelVars(component = "tunnels" /\ CloseReturns)
  /\ WF_deadlineVars(component = "deadlines" /\ ClockTick) /\ WF_deadlineVars(component = "deadlines" /\ Fire)
  /\ WF_deadlineVars(component = "deadlines" /\ Fired) /\ WF_deadlineVars(component = "deadlines" /\ ReadEnds)
  /\ SF_credentialVars(component = "credentials" /\ \E p \in Processes : ExpireDue(p))
  /\ \A p \in Processes : WF_credentialVars(component = "credentials" /\ (GoOn(p) \/ InsertFails(p)))

Spec == Init /\ [][Next]_vars /\ Fairness

---------------------------------------------------------------------------
(* Properties, of several components *)

\* What is recorded of instances, connections and accounts is what there is.
InstancesAccounted ==
  StatusIsReal /\ DeletedLeavesNothing /\ OneBastion /\ NothingIsLeft /\ SessionsEnd /\ ActiveLogsIn /\ NothingLeft

\* What has begun ends: a provisioning, a revocation, a forwarder that is
\* closed and a read past its deadline, and none before.
InstancesSettle == ProvisioningSettles /\ ExpiredIsRevoked /\ CloseEnds /\ ReadIsInterrupted /\ NotBeforeTime
===============================================================================
