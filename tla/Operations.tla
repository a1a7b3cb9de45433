----------------------------- MODULE Operations -----------------------------
(***************************************************************************)
(* The operations engine: the jobs table and those who execute it.         *)
(*                                                                         *)
(* A job without a server belongs to the control plane and is claimed by   *)
(* the worker of any API replica; a job with a server is claimed by the    *)
(* agent there.  An executor claims, executes and reports one job at a     *)
(* time.  Finalizing a job is one guarded UPDATE; the side effects of its  *)
(* kind are separate statements that follow it (effects holds what is      *)
(* still to come), so they are lost with the process or the request that   *)
(* was to make them.                                                       *)
(*                                                                         *)
(* The modules that compose this one give the kinds their meaning.         *)
(*                                                                         *)
(* Abstracted: parameters, payloads, results, logs, progress; time: a      *)
(* control-plane job may come of age (claimed 2h15m ago) once no executor  *)
(* holds it any more, executions being cut off after 2h, or at any time    *)
(* when Slow.                                                              *)
(***************************************************************************)
EXTENDS Integers, FiniteSets

CONSTANTS
  Jobs,      \* job ids, numbered in the order of created_at
  Replicas,  \* API replicas, each with one worker
  Agents,    \* agents, one per server
  Kinds,     \* job types
  Subjects,  \* what a job is about
  Nothing,   \* no server, no job, no subject
  MaxFaults, \* bound: crashes and lost messages
  Slow       \* an execution may outlive the time after which it counts as dead

Executors == Replicas \cup Agents

ASSUME OperationAssumption ==
  /\ Jobs \subseteq Nat /\ IsFiniteSet(Jobs)
  /\ Replicas \cap Agents = {}
  /\ Nothing \notin Jobs /\ Nothing \notin Executors
  /\ Nothing \notin Kinds /\ Nothing \notin Subjects
  /\ MaxFaults \in Nat
  /\ Slow \in BOOLEAN

VARIABLES
  job,      \* the jobs table
  hand,     \* what each executor is doing
  effects,  \* side effects of finalized jobs that are still to be applied
  stuck,    \* the stuck jobs a housekeeping pass has listed and not yet failed
  faults    \* faults so far

opsVars == <<job, hand, effects, stuck, faults>>

Open  == {"pending", "running"}
Final == {"succeeded", "failed"}

Job    == [status : Open \cup Final \cup {"none"}, kind : Kinds \cup {Nothing},
           of : Subjects \cup {Nothing}, server : Agents \cup {Nothing}, old : BOOLEAN]
Hand   == [step : {"idle", "claimed", "executing", "reporting"}, job : Jobs \cup {Nothing},
           ok : BOOLEAN]
Effect == [job : Jobs, ok : BOOLEAN, by : Executors]

NoJob    == [status |-> "none", kind |-> Nothing, of |-> Nothing, server |-> Nothing, old |-> FALSE]
IdleHand == [step |-> "idle", job |-> Nothing, ok |-> FALSE]

Holding(x, j) == hand[x].step # "idle" /\ hand[x].job = j

\* A worker runs a Complete to its end before it goes on.
Completing(x) == x \in Replicas /\ \E e \in effects : e.by = x

---------------------------------------------------------------------------
OpsInit ==
  /\ job = [j \in Jobs |-> NoJob]
  /\ hand = [x \in Executors |-> IdleHand]
  /\ effects = {}
  /\ stuck = [r \in Replicas |-> {}]
  /\ faults = 0

\* Create: a new pending job at the end of the queue.
NewJob(j, kind, of, server) ==
  /\ job[j].status = "none" /\ \A i \in Jobs : i < j => job[i].status # "none"
  /\ job' = [job EXCEPT ![j] = [status |-> "pending", kind |-> kind, of |-> of,
                                server |-> server, old |-> FALSE]]

\* The queue an executor claims from.
Queue(x) ==
  {j \in Jobs : job[j].status = "pending"
                  /\ job[j].server = IF x \in Agents THEN x ELSE Nothing}

\* ClaimNext: the oldest pending job.
ClaimNext(x, j) ==
  /\ hand[x].step = "idle" /\ ~Completing(x)
  /\ x \in Replicas => stuck[x] = {}
  /\ j \in Queue(x) /\ \A i \in Queue(x) : j <= i
  /\ job' = [job EXCEPT ![j].status = "running"]
  /\ hand' = [hand EXCEPT ![x] = [step |-> "claimed", job |-> j, ok |-> FALSE]]
  /\ UNCHANGED <<effects, stuck, faults>>

\* The payload is built and handed over, or the job fails for want of it.
Prepare(x) ==
  /\ hand[x].step = "claimed"
  /\ hand' = [hand EXCEPT ![x].step = "executing"]
  /\ UNCHANGED <<job, effects, stuck, faults>>

Refuse(x) ==
  /\ hand[x].step = "claimed"
  /\ hand' = [hand EXCEPT ![x].step = "reporting", ![x].ok = FALSE]
  /\ UNCHANGED <<job, effects, stuck, faults>>

\* The execution ends.
Execute(x, ok) ==
  /\ hand[x].step = "executing"
  /\ hand' = [hand EXCEPT ![x].step = "reporting", ![x].ok = ok]
  /\ UNCHANGED <<job, effects, stuck, faults>>

\* Mutant: whatever was recorded of the job before.
FinalizableAny(j) == job[j].status # "none"

Finalizable(j) == job[j].status \in Open

\* Complete: a job that is finalized already stays as it is, and nothing more
\* is done for it.
Finalize(j, ok, x) ==
  IF Finalizable(j)
    THEN /\ job' = [job EXCEPT ![j].status = IF ok THEN "succeeded" ELSE "failed"]
         /\ effects' = effects \cup {[job |-> j, ok |-> ok, by |-> x]}
    ELSE UNCHANGED <<job, effects>>

Report(x) ==
  /\ hand[x].step = "reporting"
  /\ Finalize(hand[x].job, hand[x].ok, x)
  /\ hand' = [hand EXCEPT ![x] = IdleHand]
  /\ UNCHANGED <<stuck, faults>>

\* The process dies, or, for an agent, the answer to its claim or its report
\* is lost; it never asks or reports again.
Crash(x) ==
  /\ faults < MaxFaults
  /\ \/ hand[x].step # "idle"
     \/ \E e \in effects : e.by = x
     \/ x \in Replicas /\ stuck[x] # {}
  /\ hand' = [hand EXCEPT ![x] = IdleHand]
  /\ effects' = {e \in effects : e.by # x}
  /\ stuck' = [r \in Replicas |-> IF r = x THEN {} ELSE stuck[r]]
  /\ faults' = faults + 1
  /\ UNCHANGED job

\* A process dies that holds nothing of the engine's.
OtherFault ==
  /\ faults < MaxFaults
  /\ faults' = faults + 1
  /\ UNCHANGED <<job, hand, effects, stuck>>

ComeOfAge(j) ==
  /\ job[j].status = "running" /\ job[j].server = Nothing /\ ~job[j].old
  /\ Slow \/ \A x \in Executors : ~Holding(x, j)
  /\ job' = [job EXCEPT ![j].old = TRUE]
  /\ UNCHANGED <<hand, effects, stuck, faults>>

\* A worker between two jobs holds the housekeeping lock.
FreeForHousekeeping(r) ==
  /\ hand[r].step = "idle" /\ ~Completing(r)
  /\ \A q \in Replicas : stuck[q] = {}

\* Mutant: the jobs of the agents instead of those of the control plane.
FoundStuckAgents ==
  {j \in Jobs : job[j].status = "running" /\ job[j].server # Nothing /\ job[j].old}

FoundStuck ==
  {j \in Jobs : job[j].status = "running" /\ job[j].server = Nothing /\ job[j].old}

ListStuck(r) ==
  /\ FreeForHousekeeping(r)
  /\ FoundStuck # {}
  /\ stuck' = [stuck EXCEPT ![r] = FoundStuck]
  /\ UNCHANGED <<job, hand, effects, faults>>

\* Mutant: an interrupted operation is tried again.
FailStuckRequeued(r, j) ==
  /\ j \in stuck[r] /\ ~Completing(r)
  /\ job' = [job EXCEPT ![j].status = "pending", ![j].old = FALSE]
  /\ stuck' = [stuck EXCEPT ![r] = @ \ {j}]
  /\ UNCHANGED <<hand, effects, faults>>

FailStuck(r, j) ==
  /\ j \in stuck[r] /\ ~Completing(r)
  /\ Finalize(j, FALSE, r)
  /\ stuck' = [stuck EXCEPT ![r] = @ \ {j}]
  /\ UNCHANGED <<hand, faults>>

---------------------------------------------------------------------------
(* The engine alone: a side effect is applied and nothing is seen of it. *)

Apply(e) ==
  /\ e \in effects
  /\ effects' = effects \ {e}
  /\ UNCHANGED <<job, hand, stuck, faults>>

\* A side effect that enqueues the next job.
ApplyCreating(e, j, kind, of, server) ==
  /\ e \in effects
  /\ NewJob(j, kind, of, server)
  /\ effects' = effects \ {e}
  /\ UNCHANGED <<hand, stuck, faults>>

Create(j, kind, of, server) ==
  NewJob(j, kind, of, server) /\ UNCHANGED <<hand, effects, stuck, faults>>

Work(x) ==
  \/ \E j \in Jobs : ClaimNext(x, j)
  \/ Prepare(x) \/ Refuse(x)
  \/ \E ok \in BOOLEAN : Execute(x, ok)
  \/ Report(x)

Housekeep(r) == ListStuck(r) \/ \E j \in stuck[r] : FailStuck(r, j)

OpsNext ==
  \/ \E j \in Jobs, kind \in Kinds, of \in Subjects, server \in Agents \cup {Nothing} :
       Create(j, kind, of, server)
  \/ \E x \in Executors : Work(x) \/ Crash(x)
  \/ \E j \in Jobs : ComeOfAge(j)
  \/ \E r \in Replicas : Housekeep(r)
  \/ \E e \in effects : Apply(e)
  \/ \E e \in effects, j \in Jobs, kind \in Kinds, of \in Subjects, server \in Agents \cup {Nothing} :
       ApplyCreating(e, j, kind, of, server)
  \/ OtherFault

OpsSpec == OpsInit /\ [][OpsNext]_opsVars

\* Workers and agents poll, executions are bounded in time, time passes and
\* housekeeping runs once a minute on some replica.
OpsFairness ==
  /\ \A x \in Executors : WF_opsVars(Work(x)) /\ WF_opsVars(\E e \in effects : e.by = x /\ Apply(e))
  /\ \A j \in Jobs : WF_opsVars(ComeOfAge(j))
  /\ \A r \in Replicas :
       WF_opsVars(ListStuck(r)) /\ WF_opsVars(\E j \in stuck[r] : FailStuck(r, j))

OpsFairSpec == OpsSpec /\ OpsFairness

---------------------------------------------------------------------------
(* Properties *)

OpsTypeOK ==
  /\ job \in [Jobs -> Job]
  /\ hand \in [Executors -> Hand]
  /\ effects \subseteq Effect
  /\ stuck \in [Replicas -> SUBSET Jobs]
  /\ faults \in 0 .. MaxFaults

\* An operation is never executed by two at a time, nor again after it was
\* executed: SKIP LOCKED claims and failing, never requeueing, what is stuck.
SoleExecutor ==
  \A x \in Executors : hand[x].step # "idle" =>
    /\ job[hand[x].job].status # "pending"
    /\ \A y \in Executors \ {x} : ~Holding(y, hand[x].job)

\* The side effects still to come are those of the recorded outcome, once: a
\* late report of a job that was failed meanwhile has none.
EffectsAgree ==
  \A e \in effects :
    /\ job[e.job].status = IF e.ok THEN "succeeded" ELSE "failed"
    /\ \A f \in effects : f.job = e.job => f = e

\* A finalized operation keeps its outcome, whoever reports later.
FinalIsFinal ==
  [][\A j \in Jobs : job[j].status \in Final => job'[j].status = job[j].status]_opsVars

\* Every operation of the control plane ends, whatever crashes: its executor
\* reports it or housekeeping fails it.
ControlPlaneSettles ==
  \A j \in Jobs : (job[j].status \in Open /\ job[j].server = Nothing) ~> job[j].status \in Final

\* The operations guide: "operations orphaned by a crashed replica are failed
\* automatically", whoever executed them.
OrphansFail ==
  \A j \in Jobs : job[j].status = "running" ~> job[j].status \in Final
=============================================================================
