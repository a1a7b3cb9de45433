-------------------------- MODULE OperationsProofs --------------------------
(***************************************************************************)
(* Theorems about the operations engine, for any jobs, replicas and        *)
(* agents, any kinds of jobs and any number of faults.                     *)
(*                                                                         *)
(* Everything rests on the guard of Finalizable: it makes the status of a  *)
(* finalized job immutable, so that an effect never disagrees with it.     *)
(* That an operation has one executor needs HeldIsClaimed as well: what an *)
(* executor holds was claimed, and a claimed job never returns to the      *)
(* queue.                                                                  *)
(***************************************************************************)
EXTENDS Operations, TLAPS

\* What an executor holds has been claimed.
HeldIsClaimed ==
  \A x \in Executors : hand[x].step # "idle" =>
    /\ hand[x].job \in Jobs
    /\ job[hand[x].job].status \notin {"none", "pending"}

OpsInv == OpsTypeOK /\ HeldIsClaimed /\ SoleExecutor /\ EffectsAgree

---------------------------------------------------------------------------
(* What the statements on the jobs table do *)

\* How a step may move the jobs: no job is created anew or requeued, a final
\* status stays, everything else may be claimed or finalized.
JobsMove ==
  \A j \in Jobs :
    /\ job[j].status \notin {"none", "pending"} => job'[j].status \notin {"none", "pending"}
    /\ job[j].status \in Final => job'[j].status = job[j].status

LEMMA OpenIsNotFinal == Open \cap Final = {} /\ "none" \notin Final /\ "pending" \in Open
BY DEF Open, Final

LEMMA NewJobMoves ==
  ASSUME OpsTypeOK, NEW j \in Jobs, NEW kind \in Kinds, NEW of \in Subjects,
         NEW server \in Agents \cup {Nothing}, NewJob(j, kind, of, server)
  PROVE  job' \in [Jobs -> Job] /\ JobsMove
<1>1. job' = [job EXCEPT ![j] = [status |-> "pending", kind |-> kind, of |-> of,
                                 server |-> server, old |-> FALSE]]
      /\ job[j].status = "none"
  BY DEF NewJob
<1>2. job \in [Jobs -> Job]
  BY DEF OpsTypeOK
<1>3. [status |-> "pending", kind |-> kind, of |-> of, server |-> server, old |-> FALSE] \in Job
  BY DEF Job, Open
<1>4. QED
  BY <1>1, <1>2, <1>3 DEF JobsMove, Final

\* Only the status and the age of one job change.
LEMMA StatusMoves ==
  ASSUME OpsTypeOK, NEW j \in Jobs, NEW s \in Open \cup Final,
         job' = [job EXCEPT ![j].status = s],
         job[j].status \in Open, s # "pending"
  PROVE  /\ job' \in [Jobs -> Job]
         /\ JobsMove
         /\ job'[j].status = s
         /\ \A i \in Jobs \ {j} : job'[i] = job[i]
<1>1. job \in [Jobs -> Job]
  BY DEF OpsTypeOK
<1>2. job[j] \in Job /\ [job[j] EXCEPT !.status = s] \in Job
  BY <1>1 DEF Job
<1>3. job' = [job EXCEPT ![j] = [job[j] EXCEPT !.status = s]]
  OBVIOUS
<1>4. job' \in [Jobs -> Job]
  BY <1>1, <1>2, <1>3
<1>5. job'[j].status = s
  BY <1>1, <1>2, <1>3 DEF Job
<1>6. \A i \in Jobs \ {j} : job'[i] = job[i]
  BY <1>1
<1>7. JobsMove
  BY <1>5, <1>6, OpenIsNotFinal DEF JobsMove, Open, Final
<1>8. QED
  BY <1>4, <1>5, <1>6, <1>7

\* A Complete is either without any consequence or the only one of its job.
LEMMA FinalizeMoves ==
  ASSUME OpsTypeOK, EffectsAgree, NEW j \in Jobs, NEW ok \in BOOLEAN, NEW x \in Executors,
         Finalize(j, ok, x)
  PROVE  /\ job' \in [Jobs -> Job]
         /\ effects' \subseteq Effect
         /\ JobsMove
         /\ EffectsAgree'
<1>1. CASE Finalizable(j)
  <2> DEFINE s == IF ok THEN "succeeded" ELSE "failed"
             e == [job |-> j, ok |-> ok, by |-> x]
  <2>1. job' = [job EXCEPT ![j].status = s] /\ effects' = effects \cup {e}
    BY <1>1 DEF Finalize
  <2>2. s \in Final /\ s # "pending" /\ job[j].status \in Open
    BY <1>1 DEF Final, Finalizable
  <2>3. /\ job' \in [Jobs -> Job]
        /\ JobsMove
        /\ job'[j].status = s
        /\ \A i \in Jobs \ {j} : job'[i] = job[i]
    <3> HIDE DEF s
    <3>1. QED
      BY <2>1, <2>2, StatusMoves
  <2>4. e \in Effect /\ effects \subseteq Effect
    BY DEF Effect, OpsTypeOK
  <2>5. \A f \in effects : f.job \in Jobs \ {j}
    BY <2>2, <2>4, OpenIsNotFinal DEF EffectsAgree, Effect, Final
  <2>6. \A f \in effects : job'[f.job].status = IF f.ok THEN "succeeded" ELSE "failed"
    BY <2>3, <2>5 DEF EffectsAgree
  <2>7. EffectsAgree'
    BY <2>1, <2>3, <2>5, <2>6 DEF EffectsAgree
  <2>8. QED
    BY <2>1, <2>3, <2>4, <2>7
<1>2. CASE ~Finalizable(j)
  <2>1. job' = job /\ effects' = effects
    BY <1>2 DEF Finalize
  <2>2. QED
    BY <2>1 DEF OpsTypeOK, JobsMove, EffectsAgree
<1>3. QED
  BY <1>1, <1>2

---------------------------------------------------------------------------
(* The steps *)

LEMMA InitOps == OpsInit => OpsInv
<1> SUFFICES ASSUME OpsInit PROVE OpsInv
  OBVIOUS
<1>1. NoJob \in Job /\ IdleHand \in Hand
  BY DEF NoJob, IdleHand, Job, Hand
<1>2. OpsTypeOK
  BY <1>1, OperationAssumption DEF OpsInit, OpsTypeOK, OperationAssumption
<1>3. \A x \in Executors : hand[x].step = "idle"
  BY DEF OpsInit, IdleHand
<1>4. QED
  BY <1>2, <1>3 DEF OpsInit, OpsInv, HeldIsClaimed, SoleExecutor, EffectsAgree

\* A hand that is emptied or goes on with its job holds no job it did not hold.
HandsKeep ==
  \A x \in Executors : hand'[x].step # "idle" => hand[x].step # "idle" /\ hand'[x].job = hand[x].job

\* When jobs move as they may and nobody takes a new job, everyone still holds
\* a claimed job of his own.
LEMMA HoldersKeep ==
  ASSUME HeldIsClaimed, SoleExecutor, JobsMove, HandsKeep
  PROVE  HeldIsClaimed' /\ SoleExecutor'
<1>1. HeldIsClaimed'
  BY DEF HeldIsClaimed, JobsMove, HandsKeep
<1>2. SoleExecutor'
  BY <1>1 DEF SoleExecutor, HeldIsClaimed, Holding, HandsKeep
<1>3. QED
  BY <1>1, <1>2

\* Effects stay in agreement with jobs whose final statuses stay.
LEMMA EffectsKeep ==
  ASSUME OpsTypeOK, EffectsAgree, JobsMove, effects' \subseteq effects
  PROVE  EffectsAgree'
<1>1. \A e \in effects : e.job \in Jobs /\ job[e.job].status \in Final
  BY DEF OpsTypeOK, Effect, EffectsAgree, Final
<1>2. QED
  BY <1>1 DEF EffectsAgree, JobsMove

LEMMA ClaimKeeps ==
  ASSUME OpsInv, NEW x \in Executors, NEW j \in Jobs, ClaimNext(x, j)
  PROVE  OpsInv' /\ JobsMove
<1>1. job[j].status = "pending" /\ hand[x].step = "idle"
  BY DEF ClaimNext, Queue
<1>2. job' = [job EXCEPT ![j].status = "running"]
  BY DEF ClaimNext
<1>3. /\ job' \in [Jobs -> Job]
      /\ JobsMove
      /\ job'[j].status = "running"
      /\ \A i \in Jobs \ {j} : job'[i] = job[i]
  <2>1. "running" \in Open \cup Final /\ job[j].status \in Open
    BY <1>1 DEF Open
  <2>2. QED
    BY <1>2, <2>1, StatusMoves DEF OpsInv
<1>4. hand \in [Executors -> Hand]
  BY DEF OpsInv, OpsTypeOK
<1>5. hand' = [hand EXCEPT ![x] = [step |-> "claimed", job |-> j, ok |-> FALSE]]
  BY DEF ClaimNext
<1>6. /\ hand' \in [Executors -> Hand]
      /\ hand'[x].job = j
      /\ \A y \in Executors \ {x} : hand'[y] = hand[y]
  BY <1>4, <1>5 DEF Hand
<1>7. OpsTypeOK'
  BY <1>3, <1>6 DEF OpsInv, OpsTypeOK, ClaimNext
<1>8. HeldIsClaimed'
  BY <1>3, <1>6 DEF OpsInv, HeldIsClaimed, JobsMove
<1>9. \A y \in Executors : hand[y].step # "idle" => hand[y].job # j
  BY <1>1 DEF OpsInv, HeldIsClaimed
<1>10. SoleExecutor'
  <2>1. ASSUME NEW y \in Executors \ {x}, NEW z \in Executors \ {y}, hand'[y].step # "idle"
        PROVE  hand'[z].step = "idle" \/ hand'[z].job # hand'[y].job
    BY <1>6, <1>9, <2>1 DEF OpsInv, SoleExecutor, Holding
  <2>2. \A z \in Executors \ {x} : hand'[z].step = "idle" \/ hand'[z].job # j
    BY <1>6, <1>9
  <2>3. QED
    BY <1>6, <1>8, <2>1, <2>2 DEF SoleExecutor, HeldIsClaimed, Holding
<1>11. EffectsAgree'
  BY <1>3, EffectsKeep DEF OpsInv, ClaimNext
<1>12. QED
  BY <1>3, <1>7, <1>8, <1>10, <1>11 DEF OpsInv

\* The steps between a claim and its report.
LEMMA HandKeeps ==
  ASSUME OpsInv, NEW x \in Executors, Prepare(x) \/ Refuse(x) \/ \E ok \in BOOLEAN : Execute(x, ok)
  PROVE  OpsInv' /\ JobsMove
<1>1. UNCHANGED <<job, effects, stuck, faults>>
  BY DEF Prepare, Refuse, Execute
<1>2. hand \in [Executors -> Hand] /\ hand[x].step # "idle"
  BY DEF OpsInv, OpsTypeOK, Prepare, Refuse, Execute
<1>3. \E h \in Hand : hand' = [hand EXCEPT ![x] = h] /\ h.job = hand[x].job
  <2>1. hand[x] \in Hand
    BY <1>2
  <2>2. CASE Prepare(x)
    <3>1. hand' = [hand EXCEPT ![x] = [hand[x] EXCEPT !.step = "executing"]]
      BY <2>2 DEF Prepare
    <3>2. /\ [hand[x] EXCEPT !.step = "executing"] \in Hand
          /\ [hand[x] EXCEPT !.step = "executing"].job = hand[x].job
      BY <2>1 DEF Hand
    <3>3. QED
      BY <3>1, <3>2, Zenon
  <2>3. CASE Refuse(x) \/ \E ok \in BOOLEAN : Execute(x, ok)
    <3>1. PICK ok \in BOOLEAN : hand' = [hand EXCEPT ![x].step = "reporting", ![x].ok = ok]
      BY <2>3 DEF Refuse, Execute
    <3>2. hand' = [hand EXCEPT ![x] = [hand[x] EXCEPT !.step = "reporting", !.ok = ok]]
      BY <1>2, <3>1
    <3>3. /\ [hand[x] EXCEPT !.step = "reporting", !.ok = ok] \in Hand
          /\ [hand[x] EXCEPT !.step = "reporting", !.ok = ok].job = hand[x].job
      BY <2>1 DEF Hand
    <3>4. QED
      BY <3>2, <3>3, Zenon
  <2>4. QED
    BY <2>2, <2>3
<1>4. hand' \in [Executors -> Hand] /\ HandsKeep
  BY <1>2, <1>3 DEF HandsKeep
<1>5. JobsMove
  BY <1>1 DEF JobsMove
<1>6. OpsTypeOK'
  BY <1>1, <1>4 DEF OpsInv, OpsTypeOK
<1>7. QED
  BY <1>1, <1>4, <1>5, <1>6, HoldersKeep, EffectsKeep DEF OpsInv

\* Emptied hands are typed and hold nothing new.
LEMMA IdleKeeps ==
  ASSUME hand \in [Executors -> Hand], NEW x \in Executors, hand' = [hand EXCEPT ![x] = IdleHand]
  PROVE  hand' \in [Executors -> Hand] /\ HandsKeep
<1>1. IdleHand \in Hand /\ IdleHand.step = "idle"
  BY DEF IdleHand, Hand
<1>2. QED
  BY <1>1 DEF HandsKeep

\* A report, by the executor of the job.
LEMMA ReportKeeps ==
  ASSUME OpsInv, NEW x \in Executors, Report(x)
  PROVE  OpsInv' /\ JobsMove
<1>1. hand[x].job \in Jobs /\ hand[x].ok \in BOOLEAN
  BY DEF OpsInv, OpsTypeOK, HeldIsClaimed, Hand, Report
<1>2. Finalize(hand[x].job, hand[x].ok, x)
  BY DEF Report
<1>3. job' \in [Jobs -> Job] /\ effects' \subseteq Effect /\ JobsMove /\ EffectsAgree'
  BY <1>1, <1>2, FinalizeMoves DEF OpsInv
<1>4. hand' \in [Executors -> Hand] /\ HandsKeep
  BY IdleKeeps DEF Report, OpsInv, OpsTypeOK
<1>5. OpsTypeOK'
  BY <1>3, <1>4 DEF OpsInv, OpsTypeOK, Report
<1>6. QED
  BY <1>3, <1>4, <1>5, HoldersKeep DEF OpsInv

\* Housekeeping fails what it has listed, whoever still executes it.
LEMMA FailStuckKeeps ==
  ASSUME OpsInv, NEW r \in Replicas, NEW j \in stuck[r], FailStuck(r, j)
  PROVE  OpsInv' /\ JobsMove
<1>1. stuck \in [Replicas -> SUBSET Jobs] /\ j \in Jobs /\ r \in Executors
  BY DEF OpsInv, OpsTypeOK, Executors
<1>2. Finalize(j, FALSE, r)
  BY DEF FailStuck
<1>3. job' \in [Jobs -> Job] /\ effects' \subseteq Effect /\ JobsMove /\ EffectsAgree'
  BY <1>1, <1>2, FinalizeMoves DEF OpsInv
<1>4. hand' = hand /\ faults' = faults /\ stuck' \in [Replicas -> SUBSET Jobs]
  BY <1>1 DEF FailStuck
<1>5. OpsTypeOK'
  BY <1>3, <1>4 DEF OpsInv, OpsTypeOK
<1>6. HandsKeep
  BY <1>4 DEF HandsKeep
<1>7. QED
  BY <1>3, <1>5, <1>6, HoldersKeep DEF OpsInv

\* A crash loses what was in memory, never what is in the table.
LEMMA CrashKeeps ==
  ASSUME OpsInv, NEW x \in Executors, Crash(x)
  PROVE  OpsInv' /\ JobsMove
<1>1. job' = job /\ effects' \subseteq effects
  BY DEF Crash
<1>2. hand' \in [Executors -> Hand] /\ HandsKeep
  BY IdleKeeps DEF Crash, OpsInv, OpsTypeOK
<1>3. stuck' \in [Replicas -> SUBSET Jobs]
  BY DEF Crash, OpsInv, OpsTypeOK
<1>4. faults' \in 0 .. MaxFaults
  BY OperationAssumption DEF Crash, OpsInv, OpsTypeOK, OperationAssumption
<1>5. JobsMove
  BY <1>1 DEF JobsMove
<1>6. OpsTypeOK'
  BY <1>1, <1>2, <1>3, <1>4 DEF OpsInv, OpsTypeOK
<1>7. QED
  BY <1>1, <1>2, <1>5, <1>6, HoldersKeep, EffectsKeep DEF OpsInv

\* The age of a job is nothing to anyone but housekeeping.
LEMMA AgeKeeps ==
  ASSUME OpsInv, NEW j \in Jobs, ComeOfAge(j)
  PROVE  OpsInv' /\ JobsMove
<1>1. job \in [Jobs -> Job] /\ job' = [job EXCEPT ![j] = [job[j] EXCEPT !.old = TRUE]]
  BY DEF ComeOfAge, OpsInv, OpsTypeOK
<1>2. /\ [job[j] EXCEPT !.old = TRUE] \in Job
      /\ [job[j] EXCEPT !.old = TRUE].status = job[j].status
  BY <1>1 DEF Job
<1>3. job' \in [Jobs -> Job] /\ \A i \in Jobs : job'[i].status = job[i].status
  BY <1>1, <1>2
<1>4. UNCHANGED <<hand, effects, stuck, faults>>
  BY DEF ComeOfAge
<1>5. JobsMove /\ HandsKeep
  BY <1>3, <1>4 DEF JobsMove, HandsKeep
<1>6. OpsTypeOK'
  BY <1>3, <1>4 DEF OpsInv, OpsTypeOK
<1>7. QED
  BY <1>4, <1>5, <1>6, HoldersKeep, EffectsKeep DEF OpsInv

LEMMA ListKeeps ==
  ASSUME OpsInv, NEW r \in Replicas, ListStuck(r)
  PROVE  OpsInv' /\ JobsMove
<1>1. UNCHANGED <<job, hand, effects, faults>> /\ stuck' \in [Replicas -> SUBSET Jobs]
  BY DEF ListStuck, FoundStuck, OpsInv, OpsTypeOK
<1>2. JobsMove /\ HandsKeep
  BY <1>1 DEF JobsMove, HandsKeep
<1>3. OpsTypeOK'
  BY <1>1 DEF OpsInv, OpsTypeOK
<1>4. QED
  BY <1>1, <1>2, <1>3, HoldersKeep, EffectsKeep DEF OpsInv

\* Requests and side effects: at most one new job, at most one effect less.
LEMMA EnqueueKeeps ==
  ASSUME OpsInv, UNCHANGED <<hand, stuck, faults>>, effects' \subseteq effects,
         \/ job' = job
         \/ \E j \in Jobs, kind \in Kinds, of \in Subjects, server \in Agents \cup {Nothing} :
              NewJob(j, kind, of, server)
  PROVE  OpsInv' /\ JobsMove
<1>1. job' \in [Jobs -> Job] /\ JobsMove
  <2>1. CASE job' = job
    BY <2>1 DEF JobsMove, OpsInv, OpsTypeOK
  <2>2. CASE job' # job
    BY <2>2, NewJobMoves DEF OpsInv
  <2>3. QED
    BY <2>1, <2>2
<1>2. HandsKeep
  BY DEF HandsKeep
<1>3. OpsTypeOK'
  BY <1>1 DEF OpsInv, OpsTypeOK
<1>4. QED
  BY <1>1, <1>2, <1>3, HoldersKeep, EffectsKeep DEF OpsInv

LEMMA FaultKeeps ==
  ASSUME OpsInv, OtherFault
  PROVE  OpsInv' /\ JobsMove
<1>1. UNCHANGED <<job, hand, effects, stuck>> /\ faults' \in 0 .. MaxFaults
  BY OperationAssumption DEF OtherFault, OpsInv, OpsTypeOK, OperationAssumption
<1>2. JobsMove /\ HandsKeep
  BY <1>1 DEF JobsMove, HandsKeep
<1>3. OpsTypeOK'
  BY <1>1 DEF OpsInv, OpsTypeOK
<1>4. QED
  BY <1>1, <1>2, <1>3, HoldersKeep, EffectsKeep DEF OpsInv

LEMMA NextOps == OpsInv /\ [OpsNext]_opsVars => OpsInv' /\ JobsMove
<1> SUFFICES ASSUME OpsInv, [OpsNext]_opsVars PROVE OpsInv' /\ JobsMove
  OBVIOUS
<1>1. CASE UNCHANGED opsVars
  <2>1. UNCHANGED <<hand, stuck, faults>> /\ effects' = effects /\ job' = job
    BY <1>1 DEF opsVars
  <2>2. QED
    BY <2>1, EnqueueKeeps
<1>2. CASE \E j \in Jobs, kind \in Kinds, of \in Subjects, server \in Agents \cup {Nothing} :
             Create(j, kind, of, server)
  BY <1>2, EnqueueKeeps DEF Create
<1>3. CASE \E x \in Executors : Work(x)
  BY <1>3, ClaimKeeps, HandKeeps, ReportKeeps DEF Work
<1>4. CASE \E x \in Executors : Crash(x)
  BY <1>4, CrashKeeps
<1>5. CASE \E j \in Jobs : ComeOfAge(j)
  BY <1>5, AgeKeeps
<1>6. CASE \E r \in Replicas : Housekeep(r)
  BY <1>6, ListKeeps, FailStuckKeeps DEF Housekeep
<1>7. CASE \E e \in effects : Apply(e)
  <2>1. UNCHANGED <<hand, stuck, faults>> /\ effects' \subseteq effects /\ job' = job
    BY <1>7 DEF Apply
  <2>2. QED
    BY <2>1, EnqueueKeeps
<1>8. CASE \E e \in effects, j \in Jobs, kind \in Kinds, of \in Subjects,
             server \in Agents \cup {Nothing} : ApplyCreating(e, j, kind, of, server)
  <2>1. PICK e \in effects, j \in Jobs, kind \in Kinds, of \in Subjects,
             server \in Agents \cup {Nothing} : ApplyCreating(e, j, kind, of, server)
    BY <1>8
  <2>2. UNCHANGED <<hand, stuck, faults>> /\ effects' \subseteq effects
        /\ NewJob(j, kind, of, server)
    BY <2>1 DEF ApplyCreating
  <2>3. QED
    BY <2>2, EnqueueKeeps
<1>9. CASE OtherFault
  BY <1>9, FaultKeeps
<1>10. QED
  BY <1>1, <1>2, <1>3, <1>4, <1>5, <1>6, <1>7, <1>8, <1>9 DEF OpsNext

---------------------------------------------------------------------------
(* What jobs are about: the modules that compose the engine ask for it. *)

\* A job that exists is about something.
JobHasSubject == \A j \in Jobs : job[j].kind # Nothing => job[j].of \in Subjects

EngineInv == OpsInv /\ JobHasSubject

AboutStays == \A j \in Jobs : job'[j].kind = job[j].kind /\ job'[j].of = job[j].of

LEMMA NewJobAbout ==
  ASSUME OpsInv, NEW j \in Jobs, NEW kind, NEW of, NEW server, NewJob(j, kind, of, server)
  PROVE  /\ job'[j].kind = kind /\ job'[j].of = of
         /\ \A i \in Jobs \ {j} : job'[i] = job[i]
BY DEF NewJob, OpsInv, OpsTypeOK

LEMMA FinalizeAbout ==
  ASSUME OpsInv, NEW j \in Jobs, NEW ok, NEW x, Finalize(j, ok, x)
  PROVE  AboutStays
<1>1. job \in [Jobs -> Job]
  BY DEF OpsInv, OpsTypeOK
<1>2. \/ job' = job
      \/ \E s : job' = [job EXCEPT ![j] = [job[j] EXCEPT !.status = s]]
  BY <1>1 DEF Finalize
<1>3. \A s : /\ [job[j] EXCEPT !.status = s].kind = job[j].kind
             /\ [job[j] EXCEPT !.status = s].of = job[j].of
  BY <1>1 DEF Job
<1>4. QED
  BY <1>1, <1>2, <1>3 DEF AboutStays

\* Nothing but a new job changes what the jobs are about.
EngineStep ==
  \/ \E x \in Executors : Work(x) \/ Crash(x)
  \/ \E j \in Jobs : ComeOfAge(j)
  \/ \E r \in Replicas : Housekeep(r)
  \/ \E e \in effects : Apply(e)
  \/ OtherFault
  \/ UNCHANGED opsVars

LEMMA EngineAbout ==
  ASSUME OpsInv, EngineStep
  PROVE  AboutStays
<1>1. job \in [Jobs -> Job] /\ OpsTypeOK
  BY DEF OpsInv, OpsTypeOK
<1>2. CASE job' = job
  BY <1>2 DEF AboutStays
<1>3. CASE \E x \in Executors, j \in Jobs : ClaimNext(x, j)
  <2>1. PICK x \in Executors, j \in Jobs : ClaimNext(x, j)
    BY <1>3
  <2>2. job' = [job EXCEPT ![j] = [job[j] EXCEPT !.status = "running"]]
    BY <2>1 DEF ClaimNext
  <2>3. /\ [job[j] EXCEPT !.status = "running"].kind = job[j].kind
        /\ [job[j] EXCEPT !.status = "running"].of = job[j].of
    BY <1>1 DEF Job
  <2>4. QED
    BY <1>1, <2>2, <2>3 DEF AboutStays
<1>4. CASE \E j \in Jobs : ComeOfAge(j)
  <2>1. PICK j \in Jobs : ComeOfAge(j)
    BY <1>4
  <2>2. job' = [job EXCEPT ![j] = [job[j] EXCEPT !.old = TRUE]]
    BY <2>1 DEF ComeOfAge
  <2>3. /\ [job[j] EXCEPT !.old = TRUE].kind = job[j].kind
        /\ [job[j] EXCEPT !.old = TRUE].of = job[j].of
    BY <1>1 DEF Job
  <2>4. QED
    BY <1>1, <2>2, <2>3 DEF AboutStays
<1>5. CASE \E x \in Executors : Report(x)
  <2>1. PICK x \in Executors : Report(x)
    BY <1>5
  <2>2. hand[x].job \in Jobs /\ Finalize(hand[x].job, hand[x].ok, x)
    BY <2>1 DEF Report, OpsInv, HeldIsClaimed
  <2>3. QED
    BY <2>2, FinalizeAbout
<1>6. CASE \E r \in Replicas : \E j \in stuck[r] : FailStuck(r, j)
  <2>1. PICK r \in Replicas : \E j \in stuck[r] : FailStuck(r, j)
    BY <1>6
  <2>2. PICK j \in stuck[r] : FailStuck(r, j)
    BY <2>1
  <2>3. j \in Jobs /\ Finalize(j, FALSE, r)
    BY <1>1, <2>2 DEF FailStuck, OpsTypeOK
  <2>4. QED
    BY <2>3, FinalizeAbout
<1>7. QED
  BY <1>2, <1>3, <1>4, <1>5, <1>6
     DEF EngineStep, opsVars, Work, Prepare, Refuse, Execute, Crash, Housekeep, ListStuck, Apply, OtherFault

LEMMA NextEngine == EngineInv /\ [OpsNext]_opsVars => EngineInv'
<1> SUFFICES ASSUME EngineInv, [OpsNext]_opsVars PROVE EngineInv'
  OBVIOUS
<1>1. OpsInv'
  BY NextOps DEF EngineInv
<1>2. CASE EngineStep
  BY <1>1, <1>2, EngineAbout DEF EngineInv, JobHasSubject, AboutStays
<1>3. CASE \E j \in Jobs, kind \in Kinds, of \in Subjects, server \in Agents \cup {Nothing} :
             NewJob(j, kind, of, server)
  BY <1>1, <1>3, NewJobAbout DEF EngineInv, JobHasSubject
<1>4. EngineStep
      \/ \E j \in Jobs, kind \in Kinds, of \in Subjects, server \in Agents \cup {Nothing} :
           NewJob(j, kind, of, server)
  BY DEF OpsNext, EngineStep, Create, ApplyCreating
<1>5. QED
  BY <1>2, <1>3, <1>4

---------------------------------------------------------------------------
(* How the engine moves while nothing is disturbed.                         *)

\* Jobs are numbered in the order in which they are created.
JobsInOrder ==
  /\ \A j \in Jobs : job[j].status = "none" => job[j] = NoJob
  /\ \A j \in Jobs : job[j].status # "none" => job[j].kind # Nothing
  /\ \A i, j \in Jobs : i < j /\ job[j].status # "none" => job[i].status # "none"

\* Only old jobs are given up, so that a job that is held is running.
GivenUpIsOld ==
  /\ \A r \in Replicas : \A j \in stuck[r] : job[j].old
  /\ \A x \in Executors : hand[x].step # "idle" => job[hand[x].job].status = "running" \/ job[hand[x].job].old

\* A job there is stays what it is, and as old as it was.
JobsLast ==
  \A j \in Jobs : job[j].status # "none" =>
    /\ job'[j].status # "none" /\ job'[j].kind = job[j].kind /\ job'[j].of = job[j].of
    /\ job[j].old => job'[j].old

\* A good outcome at hand is that of an execution that ends now, or was before.
GoodHandsLast ==
  \A x \in Executors : hand'[x].step = "reporting" /\ hand'[x].ok => hand'[x] = hand[x] \/ Execute(x, TRUE)

\* A recorded good outcome, and its side effect, were reported.
ReportedGood(j) == \E x \in Executors : hand[x].step = "reporting" /\ hand[x].job = j /\ hand[x].ok

GoodWasReported ==
  /\ \A e \in effects' : e \in effects \/ ~e.ok \/ ReportedGood(e.job)
  /\ \A j \in Jobs : job'[j].status = "succeeded" => job[j].status = "succeeded" \/ ReportedGood(j)

\* A job is in progress until its side effect is applied.
Alive(j) == job[j].status \in Open \/ \E e \in effects : e.job = j

AliveLast ==
  \A j \in Jobs : Alive(j) =>
    Alive(j)' \/ faults' # 0 \/ \E e \in effects : e.job = j /\ effects' = effects \ {e}

EngineMoves == JobsLast /\ GoodHandsLast /\ GoodWasReported /\ AliveLast /\ (faults' = 0 => faults = 0)

EngineOrder == JobsInOrder /\ GivenUpIsOld

LEMMA NewJobOrder ==
  ASSUME EngineInv, EngineOrder, NEW j \in Jobs, NEW kind \in Kinds, NEW of \in Subjects,
         NEW server \in Agents \cup {Nothing}, NewJob(j, kind, of, server),
         UNCHANGED <<hand, stuck>>
  PROVE  EngineOrder' /\ JobsLast
<1>1. /\ job \in [Jobs -> Job] /\ job[j].status = "none" /\ \A i \in Jobs : i < j => job[i].status # "none"
      /\ job' = [job EXCEPT ![j] = [status |-> "pending", kind |-> kind, of |-> of, server |-> server, old |-> FALSE]]
  BY DEF NewJob, EngineInv, OpsInv, OpsTypeOK
<1>2. job'[j].status = "pending" /\ job'[j].kind = kind /\ \A i \in Jobs \ {j} : job'[i] = job[i]
  BY <1>1
<1>3. kind # Nothing
  BY OperationAssumption DEF OperationAssumption
<1>4. Jobs \subseteq Nat
  BY OperationAssumption DEF OperationAssumption
<1>5. JobsInOrder'
  <2>1. (\A i \in Jobs : job[i].status = "none" => job[i] = NoJob)'
    BY <1>2 DEF EngineOrder, JobsInOrder, NoJob
  <2>2. (\A i \in Jobs : job[i].status # "none" => job[i].kind # Nothing)'
    BY <1>2, <1>3 DEF EngineOrder, JobsInOrder
  <2>3. ASSUME NEW i \in Jobs, NEW k \in Jobs, i < k, job'[k].status # "none" PROVE job'[i].status # "none"
    BY <1>1, <1>2, <1>4, <2>3 DEF EngineOrder, JobsInOrder
  <2> QED BY <2>1, <2>2, <2>3 DEF JobsInOrder
<1>6. job[j].old = FALSE
  BY <1>1 DEF EngineOrder, JobsInOrder, NoJob
<1>7. \A r \in Replicas : \A i \in stuck[r] : i # j /\ i \in Jobs
  BY <1>6 DEF EngineOrder, GivenUpIsOld, EngineInv, OpsInv, OpsTypeOK
<1>8. \A x \in Executors : hand[x].step # "idle" => hand[x].job \in Jobs \ {j}
  BY <1>1 DEF EngineInv, OpsInv, HeldIsClaimed
<1>9. GivenUpIsOld'
  BY <1>2, <1>7, <1>8 DEF EngineOrder, GivenUpIsOld
<1> QED BY <1>1, <1>2, <1>5, <1>9 DEF EngineOrder, JobsLast

\* A statement that changes the status of a job that is open.
LEMMA StatusOrder ==
  ASSUME EngineInv, EngineOrder, NEW j \in Jobs, NEW s \in (Open \cup Final) \ {"pending"}, job[j].status \in Open,
         job' = [job EXCEPT ![j].status = s]
  PROVE  /\ JobsInOrder' /\ JobsLast
         /\ \A i \in Jobs : job'[i].old = job[i].old
         /\ job'[j].status = s /\ \A i \in Jobs \ {j} : job'[i] = job[i]
<1>1. job \in [Jobs -> Job] /\ job[j] \in Job
  BY DEF EngineInv, OpsInv, OpsTypeOK
<1>2. /\ job'[j].status = s /\ job'[j].kind = job[j].kind /\ job'[j].of = job[j].of /\ job'[j].old = job[j].old
      /\ \A i \in Jobs \ {j} : job'[i] = job[i]
  BY <1>1 DEF Job
<1>3. s # "none" /\ job[j].status # "none"
  BY DEF Open, Final
<1>4. \A i \in Jobs : /\ job'[i].status = "none" <=> job[i].status = "none"
                      /\ job'[i].kind = job[i].kind
                      /\ job[i].status = "none" => job'[i] = job[i]
  BY <1>2, <1>3
<1>5. JobsInOrder'
  BY <1>4 DEF EngineOrder, JobsInOrder
<1> QED BY <1>2, <1>3, <1>5 DEF JobsLast

LEMMA ClaimMoves ==
  ASSUME EngineInv, EngineOrder, NEW x \in Executors, NEW j \in Jobs, ClaimNext(x, j)
  PROVE  EngineOrder' /\ EngineMoves
<1>1. job[j].status = "pending" /\ hand[x].step = "idle" /\ hand \in [Executors -> Hand]
  BY DEF ClaimNext, Queue, EngineInv, OpsInv, OpsTypeOK
<1>2. UNCHANGED <<effects, stuck, faults>>
  BY DEF ClaimNext
<1>3. /\ JobsInOrder' /\ JobsLast /\ \A i \in Jobs : job'[i].old = job[i].old
      /\ job'[j].status = "running" /\ \A i \in Jobs \ {j} : job'[i] = job[i]
  <2>1. "running" \in (Open \cup Final) \ {"pending"} /\ job[j].status \in Open
    BY <1>1 DEF Open
  <2>2. job' = [job EXCEPT ![j].status = "running"]
    BY DEF ClaimNext
  <2> QED BY <2>1, <2>2, StatusOrder
<1>4. /\ hand'[x].step = "claimed" /\ hand'[x].job = j /\ \A y \in Executors \ {x} : hand'[y] = hand[y]
  BY <1>1 DEF ClaimNext
<1>5. \A y \in Executors : hand[y].step # "idle" => hand[y].job \in Jobs \ {j}
  BY <1>1 DEF EngineInv, OpsInv, HeldIsClaimed
<1>6. \A r \in Replicas : stuck[r] \subseteq Jobs
  BY DEF EngineInv, OpsInv, OpsTypeOK
<1>7. GivenUpIsOld'
  BY <1>2, <1>3, <1>4, <1>5, <1>6 DEF EngineOrder, GivenUpIsOld
<1>8. GoodHandsLast
  BY <1>4 DEF GoodHandsLast
<1>9. GoodWasReported
  BY <1>2, <1>3 DEF GoodWasReported
<1>10. AliveLast
  BY <1>2, <1>3 DEF AliveLast, Alive, Open
<1> QED BY <1>2, <1>3, <1>7, <1>8, <1>9, <1>10 DEF EngineOrder, EngineMoves

\* Where the jobs stay, nothing is stuck that was not and no hand takes a job.
LEMMA JobsStayMoves ==
  ASSUME EngineInv, EngineOrder, job' = job, HandsKeep, GoodHandsLast,
         \A r \in Replicas : \A j \in stuck'[r] : job[j].old,
         effects' \subseteq effects,
         \/ effects' = effects \/ faults' # 0 \/ \E e \in effects : effects' = effects \ {e},
         faults' = 0 => faults = 0
  PROVE  EngineOrder' /\ EngineMoves
<1>1. JobsInOrder' /\ JobsLast
  BY DEF EngineOrder, JobsInOrder, JobsLast
<1>2. GivenUpIsOld'
  BY DEF EngineOrder, GivenUpIsOld, HandsKeep
<1>3. GoodWasReported
  BY DEF GoodWasReported
<1>4. AliveLast
  BY DEF AliveLast, Alive
<1> QED BY <1>1, <1>2, <1>3, <1>4 DEF EngineOrder, EngineMoves

LEMMA HandMoves ==
  ASSUME EngineInv, EngineOrder, NEW x \in Executors, Prepare(x) \/ Refuse(x) \/ \E ok \in BOOLEAN : Execute(x, ok)
  PROVE  EngineOrder' /\ EngineMoves
<1>1. UNCHANGED <<job, effects, stuck, faults>> /\ hand \in [Executors -> Hand] /\ hand[x].step # "idle"
  BY DEF Prepare, Refuse, Execute, EngineInv, OpsInv, OpsTypeOK
<1>2. (\A y \in Executors \ {x} : hand'[y] = hand[y]) /\ hand'[x].job = hand[x].job
  BY <1>1 DEF Prepare, Refuse, Execute, Hand
<1>3. HandsKeep
  BY <1>1, <1>2 DEF HandsKeep
<1>4. hand'[x].step = "reporting" /\ hand'[x].ok => Execute(x, TRUE)
  <2>1. CASE Prepare(x) \/ Refuse(x)
    BY <1>1, <2>1 DEF Prepare, Refuse, Hand
  <2>2. CASE \E ok \in BOOLEAN : Execute(x, ok)
    <3>1. PICK ok \in BOOLEAN : Execute(x, ok)
      BY <2>2
    <3>2. hand'[x].ok = ok
      BY <1>1, <3>1 DEF Execute, Hand
    <3> QED BY <3>1, <3>2
  <2> QED BY <2>1, <2>2
<1>5. GoodHandsLast
  BY <1>2, <1>4 DEF GoodHandsLast
<1>6. \A r \in Replicas : \A j \in stuck'[r] : job[j].old
  BY <1>1 DEF EngineOrder, GivenUpIsOld
<1> QED BY <1>1, <1>3, <1>5, <1>6, JobsStayMoves

\* A Complete, of a job that is given up or reported.
LEMMA FinalizeOrder ==
  ASSUME EngineInv, EngineOrder, NEW j \in Jobs, NEW ok \in BOOLEAN, NEW x \in Executors, Finalize(j, ok, x),
         \A y \in Executors : hand'[y].step # "idle" => hand'[y] = hand[y] /\ (hand[y].job # j \/ job[j].old),
         \A r \in Replicas : stuck'[r] \subseteq stuck[r],
         ok => ReportedGood(j), faults' = faults
  PROVE  EngineOrder' /\ EngineMoves
<1>0. job \in [Jobs -> Job] /\ (\A r \in Replicas : stuck[r] \subseteq Jobs)
  BY DEF EngineInv, OpsInv, OpsTypeOK
<1>01. \A y \in Executors : hand[y].step # "idle" => hand[y].job \in Jobs
  BY DEF EngineInv, OpsInv, HeldIsClaimed
<1>02. GoodHandsLast
  BY DEF GoodHandsLast
<1>1. CASE Finalizable(j)
  <2> DEFINE s == IF ok THEN "succeeded" ELSE "failed"
             e == [job |-> j, ok |-> ok, by |-> x]
  <2>1. job' = [job EXCEPT ![j].status = s] /\ effects' = effects \cup {e}
    BY <1>1 DEF Finalize
  <2>2. s \in (Open \cup Final) \ {"pending"} /\ job[j].status \in Open /\ (s = "succeeded" => ok)
    BY <1>1 DEF Final, Open, Finalizable
  <2>3. e.job = j /\ e.ok = ok
    OBVIOUS
  <2> HIDE DEF s, e
  <2>4. /\ JobsInOrder' /\ JobsLast /\ \A i \in Jobs : job'[i].old = job[i].old
        /\ job'[j].status = s /\ \A i \in Jobs \ {j} : job'[i] = job[i]
    BY <2>1, <2>2, StatusOrder
  <2>5. GivenUpIsOld'
    BY <1>0, <1>01, <2>4 DEF EngineOrder, GivenUpIsOld
  <2>6. GoodWasReported
    BY <2>1, <2>2, <2>3, <2>4 DEF GoodWasReported
  <2>7. AliveLast
    BY <2>1, <2>3, <2>4 DEF AliveLast, Alive
  <2> QED BY <1>02, <2>4, <2>5, <2>6, <2>7 DEF EngineOrder, EngineMoves
<1>2. CASE ~Finalizable(j)
  <2>1. job' = job /\ effects' = effects
    BY <1>2 DEF Finalize
  <2>2. HandsKeep
    BY DEF HandsKeep
  <2>3. \A r \in Replicas : \A i \in stuck'[r] : job[i].old
    BY DEF EngineOrder, GivenUpIsOld
  <2> QED BY <1>02, <2>1, <2>2, <2>3, JobsStayMoves
<1> QED BY <1>1, <1>2

LEMMA NextEngineMoves == EngineInv /\ EngineOrder /\ [OpsNext]_opsVars => EngineOrder' /\ EngineMoves
<1> SUFFICES ASSUME EngineInv, EngineOrder, [OpsNext]_opsVars PROVE EngineOrder' /\ EngineMoves
  OBVIOUS
<1>t. /\ job \in [Jobs -> Job] /\ hand \in [Executors -> Hand] /\ stuck \in [Replicas -> SUBSET Jobs]
      /\ faults \in Nat
  BY OperationAssumption DEF EngineInv, OpsInv, OpsTypeOK, OperationAssumption
<1>s. \A r \in Replicas : \A j \in stuck[r] : job[j].old
  BY DEF EngineOrder, GivenUpIsOld
<1>1. CASE UNCHANGED opsVars
  <2>1. job' = job /\ hand' = hand /\ effects' = effects /\ stuck' = stuck /\ faults' = faults
    BY <1>1 DEF opsVars
  <2>2. HandsKeep /\ GoodHandsLast
    BY <2>1 DEF HandsKeep, GoodHandsLast
  <2> QED BY <1>s, <2>1, <2>2, JobsStayMoves
<1>2. CASE \/ \E j \in Jobs, kind \in Kinds, of \in Subjects, server \in Agents \cup {Nothing} :
                Create(j, kind, of, server)
           \/ \E e \in effects, j \in Jobs, kind \in Kinds, of \in Subjects, server \in Agents \cup {Nothing} :
                ApplyCreating(e, j, kind, of, server)
  <2>1. PICK j \in Jobs, kind \in Kinds, of \in Subjects, server \in Agents \cup {Nothing} :
          /\ NewJob(j, kind, of, server) /\ UNCHANGED <<hand, stuck, faults>>
          /\ effects' = effects \/ \E e \in effects : effects' = effects \ {e}
    BY <1>2 DEF Create, ApplyCreating
  <2>2. EngineOrder' /\ JobsLast
    BY <2>1, NewJobOrder
  <2>3. GoodHandsLast
    BY <2>1 DEF GoodHandsLast
  <2>4. \A i \in Jobs : (i = j /\ job'[i].status = "pending") \/ job'[i] = job[i]
    BY <1>t, <2>1 DEF NewJob
  <2>5. GoodWasReported
    BY <2>1, <2>4 DEF GoodWasReported
  <2>6. AliveLast
    BY <2>1, <2>4 DEF AliveLast, Alive, Open
  <2> QED BY <2>1, <2>2, <2>3, <2>5, <2>6 DEF EngineMoves
<1>3. CASE \E x \in Executors : Work(x)
  <2>1. PICK x \in Executors : Work(x)
    BY <1>3
  <2>2. CASE Report(x)
    <3>1. /\ hand[x].step = "reporting" /\ hand[x].job \in Jobs /\ hand[x].ok \in BOOLEAN
          /\ Finalize(hand[x].job, hand[x].ok, x) /\ hand' = [hand EXCEPT ![x] = IdleHand]
          /\ UNCHANGED <<stuck, faults>>
      BY <1>t, <2>2 DEF Report, Hand, EngineInv, OpsInv, HeldIsClaimed
    <3>2. \A y \in Executors : hand'[y].step # "idle" => hand'[y] = hand[y] /\ hand[y].job # hand[x].job
      BY <1>t, <3>1 DEF IdleHand, EngineInv, OpsInv, SoleExecutor, Holding
    <3>3. hand[x].ok => ReportedGood(hand[x].job)
      BY <3>1 DEF ReportedGood
    <3> QED BY <3>1, <3>2, <3>3, FinalizeOrder
  <2> QED BY <2>1, <2>2, ClaimMoves, HandMoves DEF Work
<1>4. CASE \E x \in Executors : Crash(x)
  <2>1. PICK x \in Executors : Crash(x)
    BY <1>4
  <2>2. /\ job' = job /\ effects' \subseteq effects /\ faults' = faults + 1
        /\ \A r \in Replicas : stuck'[r] \subseteq stuck[r]
        /\ \A y \in Executors : hand'[y].step = "idle" \/ hand'[y] = hand[y]
    BY <1>t, <2>1 DEF Crash, IdleHand
  <2>3. HandsKeep /\ GoodHandsLast
    BY <2>2 DEF HandsKeep, GoodHandsLast
  <2>4. faults' # 0
    BY <1>t, <2>2
  <2>5. \A r \in Replicas : \A j \in stuck'[r] : job[j].old
    BY <1>s, <2>2
  <2> QED BY <2>2, <2>3, <2>4, <2>5, JobsStayMoves
<1>5. CASE \E j \in Jobs : ComeOfAge(j)
  <2>1. PICK j \in Jobs : ComeOfAge(j)
    BY <1>5
  <2>2. UNCHANGED <<hand, effects, stuck, faults>> /\ job[j].status = "running"
    BY <2>1 DEF ComeOfAge
  <2>3. /\ job'[j].status = job[j].status /\ job'[j].kind = job[j].kind /\ job'[j].of = job[j].of /\ job'[j].old
        /\ \A i \in Jobs \ {j} : job'[i] = job[i]
    BY <1>t, <2>1 DEF ComeOfAge, Job
  <2>4. \A i \in Jobs : /\ job'[i].status = job[i].status /\ job'[i].kind = job[i].kind /\ job'[i].of = job[i].of
                        /\ job[i].old => job'[i].old
                        /\ job[i].status = "none" => job'[i] = job[i]
    BY <2>2, <2>3
  <2>5. JobsInOrder' /\ JobsLast
    BY <2>4 DEF EngineOrder, JobsInOrder, JobsLast
  <2>6. \A x \in Executors : hand[x].step # "idle" => hand[x].job \in Jobs
    BY DEF EngineInv, OpsInv, HeldIsClaimed
  <2>7. GivenUpIsOld'
    BY <1>t, <2>2, <2>4, <2>6 DEF EngineOrder, GivenUpIsOld
  <2>8. GoodHandsLast /\ GoodWasReported /\ AliveLast
    BY <2>2, <2>4 DEF GoodHandsLast, GoodWasReported, AliveLast, Alive
  <2> QED BY <2>2, <2>5, <2>7, <2>8 DEF EngineOrder, EngineMoves
<1>6. CASE \E r \in Replicas : Housekeep(r)
  <2>1. PICK r \in Replicas : Housekeep(r)
    BY <1>6
  <2>2. CASE ListStuck(r)
    <3>1. job' = job /\ hand' = hand /\ effects' = effects /\ faults' = faults
      BY <2>2 DEF ListStuck
    <3>2. \A q \in Replicas : \A j \in stuck'[q] : job[j].old
      BY <1>t, <1>s, <2>2 DEF ListStuck, FoundStuck
    <3>3. HandsKeep /\ GoodHandsLast
      BY <3>1 DEF HandsKeep, GoodHandsLast
    <3> QED BY <3>1, <3>2, <3>3, JobsStayMoves
  <2>3. CASE \E j \in stuck[r] : FailStuck(r, j)
    <3>1. PICK j \in stuck[r] : FailStuck(r, j)
      BY <2>3
    <3>2. /\ j \in Jobs /\ job[j].old /\ Finalize(j, FALSE, r) /\ UNCHANGED <<hand, faults>> /\ r \in Executors
          /\ \A q \in Replicas : stuck'[q] \subseteq stuck[q]
      BY <1>t, <1>s, <3>1 DEF FailStuck, Executors
    <3> QED BY <3>2, FinalizeOrder
  <2> QED BY <2>1, <2>2, <2>3 DEF Housekeep
<1>7. CASE (\E e \in effects : Apply(e)) \/ OtherFault
  <2>1. /\ job' = job /\ hand' = hand /\ stuck' = stuck /\ effects' \subseteq effects
        /\ \/ effects' = effects \/ \E e \in effects : effects' = effects \ {e}
        /\ faults' = 0 => faults = 0
    BY <1>t, <1>7 DEF Apply, OtherFault
  <2>2. HandsKeep /\ GoodHandsLast
    BY <2>1 DEF HandsKeep, GoodHandsLast
  <2> QED BY <1>s, <2>1, <2>2, JobsStayMoves
<1> QED BY <1>1, <1>2, <1>3, <1>4, <1>5, <1>6, <1>7 DEF OpsNext

---------------------------------------------------------------------------
(* The theorems *)

\* The jobs table, the executors and the side effects stay well-formed.
THEOREM OpsTypes == OpsSpec => []OpsTypeOK
<1>1. OpsInv => OpsTypeOK
  BY DEF OpsInv
<1>2. QED
  BY <1>1, InitOps, NextOps, PTL DEF OpsSpec

\* No operation is executed by two executors or returns to the queue, however
\* many claim, crash or are given up: ClaimNext and FailStuck.
THEOREM OneExecutor == OpsSpec => []SoleExecutor
<1>1. OpsInv => SoleExecutor
  BY DEF OpsInv
<1>2. QED
  BY <1>1, InitOps, NextOps, PTL DEF OpsSpec

\* Side effects are applied for the recorded outcome only, and once: the
\* guarded UPDATE of Complete.
THEOREM EffectsMatch == OpsSpec => []EffectsAgree
<1>1. OpsInv => EffectsAgree
  BY DEF OpsInv
<1>2. QED
  BY <1>1, InitOps, NextOps, PTL DEF OpsSpec

\* A recorded outcome is never overwritten, by a late report or otherwise.
THEOREM FinalStays == OpsSpec => FinalIsFinal
<1>1. OpsInv /\ [OpsNext]_opsVars =>
        [\A j \in Jobs : job[j].status \in Final => job'[j].status = job[j].status]_opsVars
  BY NextOps DEF JobsMove
<1>2. QED
  BY <1>1, InitOps, NextOps, PTL DEF OpsSpec, FinalIsFinal
=============================================================================
