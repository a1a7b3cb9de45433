------------------------------ MODULE Backups ------------------------------
(***************************************************************************)
(* Backups and their verification, on top of the operations engine.        *)
(*                                                                         *)
(* A backup is a row, a job that dumps the database and uploads the        *)
(* artifact, and the artifact in the object store.  A verification is a    *)
(* job that restores the artifact into a scratch database whose name       *)
(* depends on the backup only; recording its outcome enqueues another job  *)
(* that drops the scratch database.  Users delete backups, housekeeping    *)
(* prunes expired ones: both remove the object first and mark the row      *)
(* afterwards.                                                             *)
(*                                                                         *)
(* Abstracted: credentials, destinations, dump families, checksums, the    *)
(* notifications; every instance is executed for by one Server.            *)
(***************************************************************************)
EXTENDS Operations

CONSTANTS
  Server,      \* executorFor: the agent of the instance, or Nothing
  MaxRequests, \* bound: jobs users and schedules ask for
  Features     \* what else may happen: "fail", "expire", "delete", "verify"

BackupKinds == {"backup", "verify", "drop"}

ASSUME BackupAssumption ==
  /\ BackupKinds \subseteq Kinds
  /\ Server \in Agents \cup {Nothing}
  /\ MaxRequests \in Nat
  /\ Features \subseteq {"fail", "expire", "delete", "verify"}

VARIABLES
  backup,  \* the rows and their objects
  scratch, \* the scratch databases on the instance
  asked,   \* requests between two of their statements
  half,    \* verifications recorded whose drop is not yet enqueued
  loaded,  \* executors that have restored and not yet counted tables
  prune    \* the expired backups a housekeeping pass has listed

vars == <<opsVars, backup, scratch, asked, half, loaded, prune>>

Deletable == {"completed", "failed", "expired"}

BackupRow == [status : {"none", "pending", "running", "deleted"} \cup Deletable,
              object : BOOLEAN, due : BOOLEAN,
              verify : {"none", "running", "passed", "failed"}]

NotBackedUp == [status |-> "none", object |-> FALSE, due |-> FALSE, verify |-> "none"]

Request == [kind : {"trigger", "verify", "delete"}, of : Subjects, job : Jobs \cup {Nothing}]

NotPruning == [list |-> {}, at |-> Nothing]

Doing(x, kind) == hand[x].job # Nothing /\ job[hand[x].job].kind = kind
Of(x) == job[hand[x].job].of

---------------------------------------------------------------------------
Init ==
  /\ OpsInit
  /\ backup = [b \in Subjects |-> NotBackedUp]
  /\ scratch = [b \in Subjects |-> "absent"]
  /\ asked = {}
  /\ half = {}
  /\ loaded = {}
  /\ prune = [r \in Replicas |-> NotPruning]

MayAsk == Cardinality({j \in Jobs : job[j].kind \in {"backup", "verify"}}) < MaxRequests

---------------------------------------------------------------------------
(* Requests *)

\* trigger: the job first, the row that refers to it later.
TriggerJob(b, j) ==
  /\ MayAsk
  /\ \A i \in Jobs : ~(job[i].kind = "backup" /\ job[i].of = b)
  /\ NewJob(j, "backup", b, Server)
  /\ asked' = asked \cup {[kind |-> "trigger", of |-> b, job |-> j]}
  /\ UNCHANGED <<hand, effects, stuck, faults, backup, scratch, half, loaded, prune>>

TriggerRow(a) ==
  /\ a.kind = "trigger"
  /\ backup' = [backup EXCEPT ![a.of].status = "pending"]
  /\ asked' = asked \ {a}
  /\ UNCHANGED <<opsVars, scratch, half, loaded, prune>>

\* Verify: a completed backup whose verification is not running.  That it is
\* running is recorded after the job was created.
VerifyJob(b, j) ==
  /\ "verify" \in Features /\ MayAsk
  /\ backup[b].status = "completed" /\ backup[b].verify # "running"
  /\ NewJob(j, "verify", b, Server)
  /\ asked' = asked \cup {[kind |-> "verify", of |-> b, job |-> j]}
  /\ UNCHANGED <<hand, effects, stuck, faults, backup, scratch, half, loaded, prune>>

VerifyMark(a) ==
  /\ a.kind = "verify"
  /\ backup' = [backup EXCEPT ![a.of].verify = "running"]
  /\ asked' = asked \ {a}
  /\ UNCHANGED <<opsVars, scratch, half, loaded, prune>>

\* DeleteBackup: the object of a completed backup, then the row.
DeleteObject(b) ==
  LET a == [kind |-> "delete", of |-> b, job |-> Nothing] IN
  /\ "delete" \in Features
  /\ backup[b].status \in Deletable
  /\ a \notin asked
  /\ backup' = [backup EXCEPT ![b].object = @ /\ backup[b].status # "completed"]
  /\ asked' = asked \cup {a}
  /\ UNCHANGED <<opsVars, scratch, half, loaded, prune>>

DeleteMark(a) ==
  /\ a.kind = "delete"
  /\ backup' = [backup EXCEPT ![a.of].status = IF @ \in Deletable THEN "deleted" ELSE @]
  /\ asked' = asked \ {a}
  /\ UNCHANGED <<opsVars, scratch, half, loaded, prune>>

---------------------------------------------------------------------------
(* Executors *)

\* The worker does not claim while its housekeeping prunes.
ClaimJob(x, j) ==
  /\ x \in Replicas => prune[x] = NotPruning
  /\ ClaimNext(x, j)
  /\ UNCHANGED <<backup, scratch, asked, half, loaded, prune>>

\* MarkRunning: a backup whose row exists and is pending.
PrepareJob(x) ==
  /\ Prepare(x)
  /\ backup' = IF Doing(x, "backup") /\ backup[Of(x)].status = "pending"
                 THEN [backup EXCEPT ![Of(x)].status = "running"] ELSE backup
  /\ UNCHANGED <<scratch, asked, half, loaded, prune>>

RefuseJob(x) ==
  /\ "fail" \in Features
  /\ Refuse(x)
  /\ UNCHANGED <<backup, scratch, asked, half, loaded, prune>>

ExecuteFails(x) ==
  /\ "fail" \in Features
  /\ Execute(x, FALSE)
  /\ loaded' = loaded \ {x}
  /\ UNCHANGED <<backup, scratch, asked, half, prune>>

\* runBackup: the dump is uploaded.
Upload(x) ==
  /\ Doing(x, "backup")
  /\ Execute(x, TRUE)
  /\ backup' = [backup EXCEPT ![Of(x)].object = TRUE]
  /\ UNCHANGED <<scratch, asked, half, loaded, prune>>

\* runRestore: without the artifact nothing is touched; with it the database
\* is created, filled and, last, looked into.
Restore(x) ==
  /\ Doing(x, "verify") /\ hand[x].step = "executing" /\ x \notin loaded
  /\ IF backup[Of(x)].object
       THEN /\ scratch' = [scratch EXCEPT ![Of(x)] = "present"]
            /\ loaded' = loaded \cup {x}
            /\ UNCHANGED <<job, hand, effects, stuck, faults>>
       ELSE Execute(x, FALSE) /\ UNCHANGED <<scratch, loaded>>
  /\ UNCHANGED <<backup, asked, half, prune>>

CountTables(x) ==
  /\ x \in loaded
  /\ Execute(x, scratch[Of(x)] = "present")
  /\ loaded' = loaded \ {x}
  /\ UNCHANGED <<backup, scratch, asked, half, prune>>

\* DROP DATABASE IF EXISTS
Drop(x) ==
  /\ Doing(x, "drop")
  /\ Execute(x, TRUE)
  /\ scratch' = [scratch EXCEPT ![Of(x)] = "absent"]
  /\ UNCHANGED <<backup, asked, half, loaded, prune>>

ReportJob(x) ==
  /\ Report(x)
  /\ UNCHANGED <<backup, scratch, asked, half, loaded, prune>>

---------------------------------------------------------------------------
(* Side effects of Complete *)

Outcome(b, ok) == IF ok THEN "completed" ELSE "failed"

\* completeBackup: a row that is still pending or running.
CompleteBackup(e) ==
  LET b == job[e.job].of IN
  /\ job[e.job].kind = "backup"
  /\ backup' = IF backup[b].status \in {"pending", "running"}
                 THEN [backup EXCEPT ![b].status = Outcome(b, e.ok)] ELSE backup
  /\ effects' = effects \ {e}
  /\ UNCHANGED <<job, hand, stuck, faults, scratch, asked, half, loaded, prune>>

\* completeVerification: the result first, then the drop.
RecordVerification(e) ==
  /\ job[e.job].kind = "verify" /\ e.job \notin half
  /\ backup' = [backup EXCEPT ![job[e.job].of].verify = IF e.ok THEN "passed" ELSE "failed"]
  /\ half' = half \cup {e.job}
  /\ UNCHANGED <<opsVars, scratch, asked, loaded, prune>>

\* Mutant: the scratch database is dropped after the first verification only.
EnqueueDropOnce(e, j) ==
  /\ job[e.job].kind = "verify" /\ e.job \in half
  /\ IF \E i \in Jobs : job[i].kind = "drop" /\ job[i].of = job[e.job].of
       THEN UNCHANGED job ELSE NewJob(j, "drop", job[e.job].of, Server)
  /\ effects' = effects \ {e}
  /\ UNCHANGED <<hand, stuck, faults, backup, scratch, asked, half, loaded, prune>>

EnqueueDrop(e, j) ==
  /\ job[e.job].kind = "verify" /\ e.job \in half
  /\ NewJob(j, "drop", job[e.job].of, Server)
  /\ effects' = effects \ {e}
  /\ UNCHANGED <<hand, stuck, faults, backup, scratch, asked, half, loaded, prune>>

\* Mutant: a failed drop is queued again under its old id.
DropDoneRetried(e) ==
  /\ job[e.job].kind = "drop"
  /\ job' = IF e.ok THEN job ELSE [job EXCEPT ![e.job].status = "pending"]
  /\ effects' = effects \ {e}
  /\ UNCHANGED <<hand, stuck, faults, backup, scratch, asked, half, loaded, prune>>

DropDone(e) ==
  /\ job[e.job].kind = "drop"
  /\ Apply(e)
  /\ UNCHANGED <<backup, scratch, asked, half, loaded, prune>>

ApplyEffect(e) ==
  \/ CompleteBackup(e) \/ RecordVerification(e)
  \/ \E j \in Jobs : EnqueueDrop(e, j)
  \/ DropDone(e)

---------------------------------------------------------------------------
(* Housekeeping *)

NoOnePrunes == \A r \in Replicas : prune[r] = NotPruning

FailStuckJobs(r) ==
  /\ NoOnePrunes
  /\ Housekeep(r)
  /\ UNCHANGED <<backup, scratch, asked, half, loaded, prune>>

Expire(b) ==
  /\ "expire" \in Features
  /\ backup[b].status # "none" /\ ~backup[b].due
  /\ backup' = [backup EXCEPT ![b].due = TRUE]
  /\ UNCHANGED <<opsVars, scratch, asked, half, loaded, prune>>

ListedExpired == {b \in Subjects : backup[b].due /\ backup[b].status = "completed"}

ListExpired(r) ==
  /\ FreeForHousekeeping(r) /\ NoOnePrunes
  /\ ListedExpired # {}
  /\ prune' = [prune EXCEPT ![r].list = ListedExpired]
  /\ UNCHANGED <<opsVars, backup, scratch, asked, half, loaded>>

PruneObject(r, b) ==
  /\ b \in prune[r].list /\ prune[r].at = Nothing
  /\ backup' = [backup EXCEPT ![b].object = FALSE]
  /\ prune' = [prune EXCEPT ![r].at = b]
  /\ UNCHANGED <<opsVars, scratch, asked, half, loaded>>

\* Mutant: the row keeps its status.
PruneMarkNothing(r) ==
  /\ prune[r].at # Nothing
  /\ prune' = [prune EXCEPT ![r] = [list |-> @.list \ {@.at}, at |-> Nothing]]
  /\ UNCHANGED <<opsVars, backup, scratch, asked, half, loaded>>

\* MarkExpired: whatever the row's status is by now.
PruneMark(r) ==
  /\ prune[r].at # Nothing
  /\ backup' = [backup EXCEPT ![prune[r].at].status = "expired"]
  /\ prune' = [prune EXCEPT ![r] = [list |-> @.list \ {@.at}, at |-> Nothing]]
  /\ UNCHANGED <<opsVars, scratch, asked, half, loaded>>

Prune(r) ==
  ListExpired(r) \/ (\E b \in prune[r].list : PruneObject(r, b)) \/ PruneMark(r)

---------------------------------------------------------------------------
(* Faults *)

Dies(x) ==
  /\ \/ Crash(x)
     \/ /\ x \in Replicas /\ prune[x] # NotPruning
        /\ OtherFault
  /\ loaded' = loaded \ {x}
  /\ prune' = [r \in Replicas |-> IF r = x THEN NotPruning ELSE prune[r]]
  /\ UNCHANGED <<backup, scratch, asked, half>>

\* The process serving a request dies between its statements.
RequestDies(a) ==
  /\ OtherFault
  /\ asked' = asked \ {a}
  /\ UNCHANGED <<backup, scratch, half, loaded, prune>>

Ages(j) ==
  ComeOfAge(j) /\ UNCHANGED <<backup, scratch, asked, half, loaded, prune>>

---------------------------------------------------------------------------
Working(x) ==
  \/ \E j \in Jobs : ClaimJob(x, j)
  \/ PrepareJob(x) \/ RefuseJob(x)
  \/ Upload(x) \/ Restore(x) \/ CountTables(x) \/ Drop(x) \/ ExecuteFails(x)
  \/ ReportJob(x)

Continue(a) == TriggerRow(a) \/ VerifyMark(a) \/ DeleteMark(a)

Next ==
  \/ \E b \in Subjects :
       \/ \E j \in Jobs : TriggerJob(b, j) \/ VerifyJob(b, j)
       \/ DeleteObject(b) \/ Expire(b)
  \/ \E a \in asked : Continue(a) \/ RequestDies(a)
  \/ \E x \in Executors : Working(x) \/ Dies(x)
  \/ \E e \in effects : ApplyEffect(e)
  \/ \E r \in Replicas : FailStuckJobs(r) \/ Prune(r)
  \/ \E j \in Jobs : Ages(j)

Spec == Init /\ [][Next]_vars

\* Workers and agents poll, requests run to their end, time passes and
\* housekeeping runs on every replica, between its jobs.
Fairness ==
  /\ \A x \in Executors :
       WF_vars(Working(x)) /\ WF_vars(\E e \in effects : e.by = x /\ ApplyEffect(e))
  /\ WF_vars(\E a \in asked : Continue(a))
  /\ \A j \in Jobs : WF_vars(Ages(j))
  /\ \A r \in Replicas : WF_vars(FailStuckJobs(r)) /\ WF_vars(Prune(r))

FairSpec == Spec /\ Fairness

---------------------------------------------------------------------------
(* Properties *)

TypeOK ==
  /\ OpsTypeOK
  /\ backup \in [Subjects -> BackupRow]
  /\ scratch \in [Subjects -> {"absent", "present"}]
  /\ asked \subseteq Request
  /\ half \subseteq Jobs
  /\ loaded \subseteq Executors
  /\ prune \in [Replicas -> [list : SUBSET Subjects, at : Subjects \cup {Nothing}]]

\* A job of kind about b is open, or its side effects are still to come.
InProgress(kind, b) ==
  \E j \in Jobs :
    /\ job[j].kind = kind /\ job[j].of = b
    /\ job[j].status \in Open \/ \E e \in effects : e.job = j

Removing(b) ==
  \/ \E a \in asked : a.kind = "delete" /\ a.of = b
  \/ \E r \in Replicas : prune[r].at = b

\* A backup shown as completed can be restored: its object is in the store,
\* except while it is being removed, unless a process died (which may be
\* between removing the object and marking the row).
CompletedHasObject ==
  faults = 0 => \A b \in Subjects : backup[b].status = "completed" => backup[b].object \/ Removing(b)

\* A backup shown as running is: nobody waits for a dump that has ended.
RunningHasJob ==
  \A b \in Subjects : backup[b].status = "running" => InProgress("backup", b)

\* The comment on FailStuck: completing runs the side effects, "e.g. a backup
\* row is marked failed".  Once its job is over a backup is not pending.
BackupFollowsJob ==
  \A b \in Subjects : backup[b].status \in {"pending", "running"} => InProgress("backup", b)

\* "a verification of this backup is already running" is told only of one
\* that is.
VerifyingHasJob ==
  \A b \in Subjects : backup[b].verify = "running" => InProgress("verify", b)

\* Where nothing fails and no backup is removed, no verification fails.
GoodBackupsPass == \A b \in Subjects : backup[b].verify # "failed"

\* The comment on completeVerification: the throwaway database is dropped,
\* "whether or not the restore got far enough to create it".  While one
\* exists its verification or a drop is under way, or the last drop failed.
ScratchAccounted ==
  \A b \in Subjects : scratch[b] = "present" =>
    \/ InProgress("verify", b) \/ InProgress("drop", b)
    \/ \E j \in Jobs : /\ job[j].kind = "drop" /\ job[j].of = b /\ job[j].status = "failed"
                      /\ \A i \in Jobs : job[i].kind = "drop" /\ job[i].of = b => i <= j

\* No process died, and no execution outlived the time after which its job
\* counts as orphaned.
Undisturbed == faults = 0 /\ \A j \in Jobs : ~job[j].old

\* A backup shown as running is, where nothing is disturbed: nobody waits for
\* a dump that has ended.
RunningIsRunning == Undisturbed => RunningHasJob

\* Likewise no scratch database is forgotten.
ScratchIsKnown == Undisturbed => ScratchAccounted

\* The rows of backups, the jobs behind them, the objects in storage and the
\* scratch databases agree.
BackupsAccounted == CompletedHasObject /\ RunningIsRunning /\ ScratchIsKnown
=============================================================================
