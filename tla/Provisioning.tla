---------------------------- MODULE Provisioning ----------------------------
(***************************************************************************)
(* Instances that Fleetdock launches as containers on one server.          *)
(*                                                                         *)
(* A request writes the instance's row and enqueues a job, in statements   *)
(* of their own; the server's agent runs docker; the outcome is written to *)
(* the row when the job is finalized.  A container is named after the      *)
(* instance, and the row knows of it once the provisioning was reported.   *)
(*                                                                         *)
(* The agent waits for the answer to a report, which comes after the       *)
(* effects, unless Slow.  Abstracted: passwords, images, the reasons for   *)
(* which docker fails; names, which are free.                              *)
(***************************************************************************)
EXTENDS Operations

CONSTANTS
  Ports,        \* port numbers
  MaxRequests,  \* bound: requests at once
  MaxSetbacks,  \* bound: failures of docker, requests that fail or die
  ServerMayGo   \* the server may be deleted

ASSUME ProvisioningAssumption ==
  MaxRequests \in Nat /\ MaxSetbacks \in Nat /\ ServerMayGo \in BOOLEAN /\ IsFiniteSet(Ports) /\ Ports # {}

Launched == Subjects
Agent == CHOOSE a \in Agents : TRUE

VARIABLES
  instance,   \* the instances table
  container,  \* docker on the server
  requests,   \* requests that have read the row and are to write
  payload,    \* the port in the payload of the agent's job
  wipes,      \* jobs that remove the volume too
  missed,     \* instances whose deletion saw no container
  machine,    \* the server: up, closing (about to be deleted), gone
  setbacks

provVars == <<opsVars, instance, container, requests, payload, wipes, missed, machine, setbacks>>

LifecycleKinds == {"start", "stop", "restart"}
Gone == [state |-> "absent", port |-> CHOOSE p \in Ports : TRUE, volume |-> FALSE]

ProvisioningInit ==
  /\ OpsInit
  /\ instance = [i \in Launched |-> [row |-> "none", status |-> "none", known |-> FALSE, port |-> Gone.port]]
  /\ container = [i \in Launched |-> Gone]
  /\ requests = {} /\ payload = Gone.port /\ wipes = {} /\ missed = {}
  /\ machine = "up" /\ setbacks = 0

\* Nothing has failed so far.
Smooth == faults = 0 /\ setbacks = 0

Setback == setbacks < MaxSetbacks /\ setbacks' = setbacks + 1

IsLive(i) == instance[i].row = "live"

\* Provisioned: the row knows of the container.
Provisioned(i) == IsLive(i) /\ instance[i].known

---------------------------------------------------------------------------
(* Requests *)

Request(i, does) == [of |-> i, does |-> does, port |-> Gone.port, wipe |-> FALSE]

NeedsJob(c) == c.does \in LifecycleKinds \cup {"provision", "remove"}

\* Within the bounds: a request that is begun finds a job id left.
Begin(c) ==
  /\ Cardinality(requests) < MaxRequests /\ c \notin requests /\ requests' = requests \cup {c}
  /\ NeedsJob(c) => Cardinality({d \in requests : NeedsJob(d)}) < Cardinality({j \in Jobs : job[j].status = "none"})

\* Two live rows of a server never have one port.
PortFree(i, p) == \A o \in Launched \ {i} : IsLive(o) => instance[o].port # p

\* Provision: the row first.
Provision(i, p) ==
  /\ instance[i].row = "none" /\ PortFree(i, p)
  /\ Begin(Request(i, "provision"))
  /\ instance' = [instance EXCEPT ![i] = [row |-> "live", status |-> "provisioning", known |-> FALSE, port |-> p]]
  /\ UNCHANGED <<opsVars, container, payload, wipes, missed, machine, setbacks>>

Lifecycle(i, action) ==
  /\ Provisioned(i) /\ Begin(Request(i, action))
  /\ UNCHANGED <<opsVars, instance, container, payload, wipes, missed, machine, setbacks>>

\* Delete: the container's removal first, if the row as read has one.
Delete(i, volume) ==
  /\ IsLive(i)
  /\ Begin(IF Provisioned(i) THEN [Request(i, "remove") EXCEPT !.wipe = volume] ELSE Request(i, "drop"))
  /\ missed' = IF Provisioned(i) THEN missed ELSE missed \cup {i}
  /\ UNCHANGED <<opsVars, instance, container, payload, wipes, machine, setbacks>>

\* Update of the port: refused once the row knows of the container.
ChangePort(i, p) ==
  /\ IsLive(i) /\ ~Provisioned(i) /\ p # instance[i].port
  /\ Begin([Request(i, "port") EXCEPT !.port = p])
  /\ UNCHANGED <<opsVars, instance, container, payload, wipes, missed, machine, setbacks>>

WritePort(c) ==
  /\ c \in requests /\ c.does = "port" /\ requests' = requests \ {c}
  /\ instance' = IF IsLive(c.of) /\ PortFree(c.of, c.port) THEN [instance EXCEPT ![c.of].port = c.port] ELSE instance
  /\ UNCHANGED <<opsVars, container, payload, wipes, missed, machine, setbacks>>

\* The job of a request; a removal goes on to the row.
EnqueueJob(c, j) ==
  /\ c \in requests /\ NeedsJob(c)
  /\ Create(j, c.does, c.of, Agent)
  /\ requests' = (requests \ {c}) \cup IF c.does = "remove" THEN {Request(c.of, "drop")} ELSE {}
  /\ wipes' = IF c.wipe THEN wipes \cup {j} ELSE wipes
  /\ UNCHANGED <<instance, container, payload, missed, machine, setbacks>>

\* The job cannot be created: a provisioning says so in the row.
EnqueueFails(c) ==
  /\ c \in requests /\ c.does = "provision" /\ requests' = requests \ {c}
  /\ Setback
  /\ instance' = IF IsLive(c.of) THEN [instance EXCEPT ![c.of].status = "error"] ELSE instance
  /\ UNCHANGED <<opsVars, container, payload, wipes, missed, machine>>

RequestCut(c) ==
  /\ c \in requests /\ requests' = requests \ {c} /\ Setback
  /\ UNCHANGED <<opsVars, instance, container, payload, wipes, missed, machine>>

DeleteRow(c) ==
  /\ c \in requests /\ c.does = "drop" /\ requests' = requests \ {c}
  /\ instance' = IF IsLive(c.of) THEN [instance EXCEPT ![c.of].row = "deleted", ![c.of].status = "deleting"] ELSE instance
  /\ UNCHANGED <<opsVars, container, payload, wipes, missed, machine, setbacks>>

\* Deleting the server: no live instances, looked up first.
CheckServer ==
  /\ ServerMayGo /\ machine = "up" /\ \A i \in Launched : ~IsLive(i)
  /\ \E i \in Launched : instance[i].row # "none"
  /\ machine' = "closing"
  /\ UNCHANGED <<opsVars, instance, container, requests, payload, wipes, missed, setbacks>>

DropServer ==
  /\ machine = "closing" /\ machine' = "gone"
  /\ UNCHANGED <<opsVars, instance, container, requests, payload, wipes, missed, setbacks>>

---------------------------------------------------------------------------
(* The agent *)

Doing(x, kind) == hand[x].step = "executing" /\ job[hand[x].job].kind = kind
Target(x) == job[hand[x].job].of

\* A published port is free while no other container that is up has it.
Startable(i, p) == \A o \in Launched \ {i} : container[o].state = "up" => container[o].port # p

Claim(x, j) ==
  /\ machine # "gone"
  /\ Slow \/ \A e \in effects : e.by # x
  /\ ClaimNext(x, j)
  /\ UNCHANGED <<instance, container, requests, payload, wipes, missed, machine, setbacks>>

\* provisionPayload: only provisioning looks at the row, and fails without it.
ProvisionPayload(x) ==
  /\ hand[x].step = "claimed"
  /\ LET i == Target(x)
     IN  IF job[hand[x].job].kind = "provision" /\ ~IsLive(i)
         THEN Refuse(x) /\ UNCHANGED payload
         ELSE Prepare(x) /\ payload' = instance[i].port
  /\ UNCHANGED <<instance, container, requests, wipes, missed, machine, setbacks>>

\* docker run: what had the name goes first; a port in use leaves the container created.
ProvisionContainer(x) ==
  /\ Doing(x, "provision")
  /\ container' = [container EXCEPT ![Target(x)] = [state |-> IF Startable(Target(x), payload) THEN "up" ELSE "down",
                                                    port |-> payload, volume |-> TRUE]]
  /\ Execute(x, Startable(Target(x), payload))
  /\ UNCHANGED <<instance, requests, payload, wipes, missed, machine, setbacks>>

DockerStart(x) ==
  /\ Doing(x, "start") \/ Doing(x, "restart")
  /\ LET i == Target(x)
         ok == container[i].state # "absent" /\ Startable(i, container[i].port)
     IN  /\ container' = IF ok THEN [container EXCEPT ![i].state = "up"]
                         ELSE IF Doing(x, "restart") /\ container[i].state = "up" THEN [container EXCEPT ![i].state = "down"]
                         ELSE container
         /\ Execute(x, ok)
  /\ UNCHANGED <<instance, requests, payload, wipes, missed, machine, setbacks>>

DockerStop(x) ==
  /\ Doing(x, "stop")
  /\ LET i == Target(x)
         ok == container[i].state # "absent"
     IN  /\ container' = IF ok THEN [container EXCEPT ![i].state = "down"] ELSE container
         /\ Execute(x, ok)
  /\ UNCHANGED <<instance, requests, payload, wipes, missed, machine, setbacks>>

\* docker rm -f: there may be nothing to remove, which some versions of docker
\* count as a failure; the volume after it, if that was asked for.
RemoveContainer(x) ==
  /\ Doing(x, "remove")
  /\ LET i == Target(x)
     IN  /\ container' = [container EXCEPT ![i] = [Gone EXCEPT !.volume = container[i].volume /\ hand[x].job \notin wipes]]
         /\ \/ Execute(x, TRUE)
            \/ container[i].state = "absent" /\ Execute(x, FALSE)
  /\ UNCHANGED <<instance, requests, payload, wipes, missed, machine, setbacks>>

\* docker fails, or is not there, and nothing is done.
DockerFails(x) ==
  /\ \E kind \in {"provision", "remove"} \cup LifecycleKinds : Doing(x, kind)
  /\ Setback /\ Execute(x, FALSE)
  /\ UNCHANGED <<instance, container, requests, payload, wipes, missed, machine>>

ReportOutcome(x) ==
  /\ machine # "gone" /\ Report(x)
  /\ UNCHANGED <<instance, container, requests, payload, wipes, missed, machine, setbacks>>

AgentDies(x) == Crash(x) /\ UNCHANGED <<instance, container, requests, payload, wipes, missed, machine, setbacks>>

---------------------------------------------------------------------------
(* What is made of the outcome *)

SetInstanceStatus(i, status) ==
  instance' = IF IsLive(i) THEN [instance EXCEPT ![i].status = status] ELSE instance

\* Mutant: a restart counts as a stop.
CompleteProvisionStopped(e) ==
  LET i == job[e.job].of  kind == job[e.job].kind
  IN  /\ Apply(e)
      /\ IF ~e.ok THEN IF kind = "remove" THEN UNCHANGED instance ELSE SetInstanceStatus(i, "error")
         ELSE IF kind = "provision"
              THEN instance' = IF IsLive(i) THEN [instance EXCEPT ![i].known = TRUE, ![i].status = "running"] ELSE instance
         ELSE IF kind = "start" THEN SetInstanceStatus(i, "running")
         ELSE IF kind \in {"stop", "restart"} THEN SetInstanceStatus(i, "stopped")
         ELSE UNCHANGED instance
      /\ UNCHANGED <<container, requests, payload, wipes, missed, machine, setbacks>>

\* completeProvision
CompleteProvision(e) ==
  LET i == job[e.job].of  kind == job[e.job].kind
  IN  /\ Apply(e)
      /\ IF ~e.ok THEN IF kind = "remove" THEN UNCHANGED instance ELSE SetInstanceStatus(i, "error")
         ELSE IF kind = "provision"
              THEN instance' = IF IsLive(i) THEN [instance EXCEPT ![i].known = TRUE, ![i].status = "running"] ELSE instance
         ELSE IF kind \in {"start", "restart"} THEN SetInstanceStatus(i, "running")
         ELSE IF kind = "stop" THEN SetInstanceStatus(i, "stopped")
         ELSE UNCHANGED instance
      /\ UNCHANGED <<container, requests, payload, wipes, missed, machine, setbacks>>

---------------------------------------------------------------------------

Requests ==
  \/ \E i \in Launched, p \in Ports : Provision(i, p) \/ ChangePort(i, p)
  \/ \E i \in Launched, action \in LifecycleKinds : Lifecycle(i, action)
  \/ \E i \in Launched, volume \in BOOLEAN : Delete(i, volume)
  \/ CheckServer \/ DropServer

Writes(c) == WritePort(c) \/ DeleteRow(c) \/ \E j \in Jobs : EnqueueJob(c, j)

AgentWork(x) ==
  \/ \E j \in Jobs : Claim(x, j)
  \/ ProvisionPayload(x) \/ ProvisionContainer(x) \/ DockerStart(x) \/ DockerStop(x) \/ RemoveContainer(x)
  \/ ReportOutcome(x)

ProvisioningNext ==
  \/ Requests
  \/ \E c \in requests : Writes(c) \/ EnqueueFails(c) \/ RequestCut(c)
  \/ \E x \in Agents : AgentWork(x) \/ DockerFails(x) \/ AgentDies(x)
  \/ \E e \in effects : CompleteProvision(e)

\* Requests run to their end, the agent polls and executions are bounded.
ProvisioningSpec ==
  /\ ProvisioningInit /\ [][ProvisioningNext]_provVars
  /\ \A i \in Launched : WF_provVars(\E c \in requests : c.of = i /\ NeedsJob(c) /\ Writes(c))
  /\ \A x \in Agents : WF_provVars(AgentWork(x))
  /\ WF_provVars(\E e \in effects : CompleteProvision(e))

---------------------------------------------------------------------------
(* Properties *)

Pending(i) ==
  \/ \E c \in requests : c.of = i
  \/ \E j \in Jobs : job[j].of = i /\ job[j].status \in Open
  \/ \E e \in effects : job[e.job].of = i

\* What the row says of the container is so, once nothing about the instance
\* is under way: also when starts, stops and restarts overtook one another.
StatusIsReal ==
  \A i \in Launched : Smooth /\ Provisioned(i) /\ ~Pending(i) =>
    /\ instance[i].status = "running" => container[i].state = "up"
    /\ instance[i].status = "stopped" => container[i].state = "down"

\* The container of a deleted instance is removed, unless the deletion came
\* before the row knew of it; its data only if that was asked for.
DeletedLeavesNothing ==
  \A i \in Launched : Smooth /\ instance[i].row = "deleted" /\ ~Pending(i) /\ i \notin missed =>
    /\ container[i].state = "absent"
    /\ \A j \in Jobs : job[j].of = i => (j \in wipes => ~container[i].volume)

\* An instance that is being provisioned ends as running, as failed or deleted,
\* unless something fails on the way or the server is deleted.
ProvisioningSettles ==
  \A i \in Launched :
    instance[i].status = "provisioning" ~> instance[i].status # "provisioning" \/ ~Smooth \/ machine = "gone"

\* A deleted instance leaves no container, whatever its row knew.
RemovedIsGone ==
  \A i \in Launched : Smooth /\ instance[i].row = "deleted" /\ ~Pending(i) => container[i].state = "absent"

\* "the port of a provisioned instance is fixed by its container"
PortIsPublished ==
  \A i \in Launched : Smooth /\ Provisioned(i) /\ ~Pending(i) => instance[i].port = container[i].port

\* "remove all instances on this server before deleting it": their containers too.
ServerLeavesNothing == Smooth /\ machine = "gone" => \A i \in Launched : i \notin missed => container[i].state = "absent"

\* An instance that is provisioning has a job or a request that provisions it.
ProvisioningIsUnderWay == \A i \in Launched : instance[i].status = "provisioning" => Pending(i)
=============================================================================
