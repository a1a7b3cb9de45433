---------------------------- MODULE BackupCopies ----------------------------
(***************************************************************************)
(* Backup copies: a completed backup of one database opened for a while as *)
(* a scratch database beside it, on top of the operations engine.          *)
(*                                                                         *)
(* Opening inserts the row and then creates the job that restores into a   *)
(* scratch database of the copy's own name; when that job has ended the    *)
(* copy is ready, or its drop is enqueued.  Users extend and discard;      *)
(* housekeeping drops what has expired or failed, and tries again the      *)
(* drops that nothing was heard of for 15 minutes, up to a limit.          *)
(*                                                                         *)
(* All copies are of one database.  Abstracted: the backup (checked to be  *)
(* completed when the copy is opened), names, sizes, the login; time in    *)
(* units of the TTL.                                                       *)
(***************************************************************************)
EXTENDS Operations

CONSTANTS
  MaxDropAttempts, \* backupcopydom.MaxDropAttempts
  Lives,           \* MaxTTL / TTL
  CopyFeatures     \* what else may happen: "fail", "hasty"

CopyKinds == {"restore", "drop"}

ASSUME CopyAssumption ==
  /\ CopyKinds \subseteq Kinds
  /\ MaxDropAttempts \in Nat \ {0, 1} /\ Lives \in Nat \ {0}
  /\ CopyFeatures \subseteq {"fail", "hasty"}

VARIABLES
  hostedOn, \* executorFor: the agent of the instance, or Nothing
  copy,    \* the backup_copies table
  scratch, \* the scratch databases on the instance
  asked,   \* what users' requests and completions do after their first statement
  half,    \* completed restores whose copy is found restoring and being prepared
  loaded,  \* executors that have created the scratch database and are filling it
  expire   \* the due copies a housekeeping pass has listed

copyVars == <<opsVars, hostedOn, copy, scratch, asked, half, loaded, expire>>

CopyRow == [status : {"none", "restoring", "ready", "failed", "dropping", "dropped"},
            drop : BOOLEAN, attempts : Nat, stale : BOOLEAN, age : 0 .. Lives, until : 0 .. Lives]

NotOpened == [status |-> "none", drop |-> FALSE, attempts |-> 0, stale |-> FALSE,
              age |-> 0, until |-> 0]

\* A statement still to come, of a user's request (by Nothing) or of the
\* completion or the housekeeping of an executor.
Statement == [do : {"open", "refuse", "discard", "droppingJob"},
              of : Subjects, by : Executors \cup {Nothing}]

Step(do, c, x) == [do |-> do, of |-> c, by |-> x]

Doing(x, kind) == hand[x].job # Nothing /\ job[hand[x].job].kind = kind
Of(x) == job[hand[x].job].of

Live(c) == copy[c].status \in {"restoring", "ready"}

---------------------------------------------------------------------------
(* The repository: each of these is one statement. *)

Touched(c, row) == copy' = [copy EXCEPT ![c] = [row EXCEPT !.stale = FALSE]]

\* Create: the unique index lets one live copy of the database in.
InsertCopy(c) ==
  /\ copy[c].status = "none" /\ \A d \in Subjects : ~Live(d)
  /\ Touched(c, [NotOpened EXCEPT !.status = "restoring"])

\* Mutant: whatever became of the copy meanwhile.
MarkReadyAnyway(c) ==
  Touched(c, [copy[c] EXCEPT !.status = "ready", !.age = 0, !.until = 1])

MarkReady(c) ==
  IF copy[c].status = "restoring"
    THEN Touched(c, [copy[c] EXCEPT !.status = "ready", !.age = 0, !.until = 1])
    ELSE UNCHANGED copy

MarkFailed(c) ==
  IF Live(c) THEN Touched(c, [copy[c] EXCEPT !.status = "failed"]) ELSE UNCHANGED copy

\* MarkDropping, with the job that drops or without.
MarkDropping(c, withJob) ==
  IF copy[c].status # "dropped"
    THEN Touched(c, [copy[c] EXCEPT !.status = "dropping", !.drop = @ \/ withJob,
                                    !.attempts = IF withJob THEN @ + 1 ELSE @])
    ELSE UNCHANGED copy

MarkDropped(c) == Touched(c, [copy[c] EXCEPT !.status = "dropped"])

\* Mutant: a drop nothing was heard of is not tried again.
DueWithoutStalled(c) ==
  \/ copy[c].status = "ready" /\ copy[c].age >= copy[c].until
  \/ copy[c].status = "failed" /\ ~copy[c].drop

\* ListDue: expired, failed and never dropped, or a drop that stalled.
Due(c) ==
  \/ copy[c].status = "ready" /\ copy[c].age >= copy[c].until
  \/ copy[c].status = "failed" /\ ~copy[c].drop
  \/ copy[c].status = "dropping" /\ copy[c].stale /\ copy[c].attempts < MaxDropAttempts

---------------------------------------------------------------------------
CopyInit ==
  /\ OpsInit
  /\ hostedOn \in Agents \cup {Nothing}
  /\ copy = [c \in Subjects |-> NotOpened]
  /\ scratch = [c \in Subjects |-> "absent"]
  /\ asked = {}
  /\ half = {}
  /\ loaded = {}
  /\ expire = [r \in Replicas |-> {}]

\* An executor completes, or a replica keeps house: one statement at a time.
Pending(x) == \E a \in asked : a.by = x

---------------------------------------------------------------------------
(* Requests *)

\* Create: the row first.
OpenCopy(c) ==
  /\ InsertCopy(c)
  /\ asked' = asked \cup {Step("open", c, Nothing)}
  /\ UNCHANGED <<hostedOn, opsVars, scratch, half, loaded, expire>>

\* RestoreCopy: then the job.
OpenJob(a, j) ==
  /\ a.do = "open"
  /\ NewJob(j, "restore", a.of, hostedOn)
  /\ asked' = asked \ {a}
  /\ UNCHANGED <<hostedOn, hand, effects, stuck, faults, copy, scratch, half, loaded, expire>>

\* The job cannot be created: the copy has failed, and is dropped at once.
OpenRefused(a) ==
  /\ a.do = "open" /\ "fail" \in CopyFeatures
  /\ MarkFailed(a.of)
  /\ asked' = (asked \ {a}) \cup {Step("refuse", a.of, Nothing)}
  /\ UNCHANGED <<hostedOn, opsVars, scratch, half, loaded, expire>>

Refused(a) ==
  /\ a.do = "refuse"
  /\ MarkDropped(a.of)
  /\ asked' = asked \ {a}
  /\ UNCHANGED <<hostedOn, opsVars, scratch, half, loaded, expire>>

\* Extend: another TTL from now, up to MaxTTL.
Extend(c) ==
  /\ copy[c].status = "ready" /\ copy[c].age < Lives
  /\ Touched(c, [copy[c] EXCEPT !.until = copy[c].age + 1])
  /\ UNCHANGED <<hostedOn, opsVars, scratch, asked, half, loaded, expire>>

\* Discard of a copy that is found restoring.
DiscardRestoring(c) ==
  /\ copy[c].status = "restoring"
  /\ asked' = asked \cup {Step("discard", c, Nothing)}
  /\ UNCHANGED <<hostedOn, opsVars, copy, scratch, half, loaded, expire>>

Discarded(a) ==
  /\ a.do = "discard"
  /\ MarkDropping(a.of, FALSE)
  /\ asked' = asked \ {a}
  /\ UNCHANGED <<hostedOn, opsVars, scratch, half, loaded, expire>>

\* drop: the job first, then the row.
DropJob(c, j, x) ==
  /\ NewJob(j, "drop", c, hostedOn)
  /\ asked' = asked \cup {Step("droppingJob", c, x)}

DropMarked(a) ==
  /\ a.do = "droppingJob"
  /\ MarkDropping(a.of, TRUE)
  /\ asked' = asked \ {a}
  /\ expire' = [r \in Replicas |-> IF r = a.by THEN expire[r] \ {a.of} ELSE expire[r]]
  /\ UNCHANGED <<hostedOn, opsVars, scratch, half, loaded>>

\* Discard of any other copy that is neither dropping nor dropped.
DiscardNow(c, j) ==
  /\ copy[c].status \in {"ready", "failed"}
  /\ Step("droppingJob", c, Nothing) \notin asked
  /\ DropJob(c, j, Nothing)
  /\ UNCHANGED <<hostedOn, hand, effects, stuck, faults, copy, scratch, half, loaded, expire>>

---------------------------------------------------------------------------
(* Executors *)

ClaimJob(x, j) ==
  /\ x \in Replicas => expire[x] = {} /\ ~Pending(x)
  /\ ClaimNext(x, j)
  /\ UNCHANGED <<hostedOn, copy, scratch, asked, half, loaded, expire>>

PrepareJob(x) == Prepare(x) /\ UNCHANGED <<hostedOn, copy, scratch, asked, half, loaded, expire>>

RefuseJob(x) ==
  /\ "fail" \in CopyFeatures
  /\ Refuse(x)
  /\ UNCHANGED <<hostedOn, copy, scratch, asked, half, loaded, expire>>

\* runRestore: with the artifact at hand the database is created.
CreateScratch(x) ==
  /\ Doing(x, "restore") /\ hand[x].step = "executing" /\ x \notin loaded
  /\ scratch' = [scratch EXCEPT ![Of(x)] = "present"]
  /\ loaded' = loaded \cup {x}
  /\ UNCHANGED <<hostedOn, opsVars, copy, asked, half, expire>>

\* It is filled, unless it was dropped meanwhile.
FillScratch(x) ==
  /\ x \in loaded
  /\ Execute(x, scratch[Of(x)] = "present")
  /\ loaded' = loaded \ {x}
  /\ UNCHANGED <<hostedOn, copy, scratch, asked, half, expire>>

\* A restore fails before or after it created the database; a drop fails.
ExecuteFails(x) ==
  /\ "fail" \in CopyFeatures
  /\ Execute(x, FALSE)
  /\ loaded' = loaded \ {x}
  /\ UNCHANGED <<hostedOn, copy, scratch, asked, half, expire>>

\* DROP DATABASE IF EXISTS
DropScratch(x) ==
  /\ Doing(x, "drop")
  /\ Execute(x, TRUE)
  /\ scratch' = [scratch EXCEPT ![Of(x)] = "absent"]
  /\ UNCHANGED <<hostedOn, copy, asked, half, loaded, expire>>

ReportJob(x) == Report(x) /\ UNCHANGED <<hostedOn, copy, scratch, asked, half, loaded, expire>>

---------------------------------------------------------------------------
(* Side effects of Complete *)

\* OnCopyRestored, of a copy that is not being dropped: it is prepared...
CopyRestored(e) ==
  /\ job[e.job].kind = "restore" /\ e.job \notin half
  /\ e.ok /\ copy[job[e.job].of].status # "dropping"
  /\ half' = half \cup {e.job}
  /\ UNCHANGED <<hostedOn, opsVars, copy, scratch, asked, loaded, expire>>

\* ... and marked ready, if it is still restoring.
CopyReady(e) ==
  /\ e.job \in half /\ e.ok
  /\ MarkReady(job[e.job].of)
  /\ half' = half \ {e.job}
  /\ effects' = effects \ {e}
  /\ UNCHANGED <<hostedOn, job, hand, stuck, faults, scratch, asked, loaded, expire>>

\* OnCopyRestored, of a restore that failed.
CopyFailed(e) ==
  /\ job[e.job].kind = "restore" /\ e.job \notin half
  /\ ~e.ok
  /\ MarkFailed(job[e.job].of)
  /\ half' = half \cup {e.job}
  /\ UNCHANGED <<hostedOn, opsVars, scratch, asked, loaded, expire>>

\* Whatever the restore created of a failed or discarded copy is dropped.
DropRestored(e, j) ==
  LET c == job[e.job].of IN
  /\ job[e.job].kind = "restore"
  /\ IF e.ok THEN e.job \notin half /\ copy[c].status = "dropping" ELSE e.job \in half
  /\ DropJob(c, j, e.by)
  /\ half' = half \ {e.job}
  /\ effects' = effects \ {e}
  /\ UNCHANGED <<hostedOn, hand, stuck, faults, copy, scratch, loaded, expire>>

\* Mutant: a drop that failed counts as done.
CopyDroppedAnyway(e) ==
  /\ job[e.job].kind = "drop"
  /\ MarkDropped(job[e.job].of)
  /\ effects' = effects \ {e}
  /\ UNCHANGED <<hostedOn, job, hand, stuck, faults, scratch, asked, half, loaded, expire>>

\* OnCopyDropped
CopyDropped(e) ==
  /\ job[e.job].kind = "drop"
  /\ IF e.ok THEN MarkDropped(job[e.job].of) ELSE UNCHANGED copy
  /\ effects' = effects \ {e}
  /\ UNCHANGED <<hostedOn, job, hand, stuck, faults, scratch, asked, half, loaded, expire>>

ApplyEffect(e) ==
  /\ ~Pending(e.by)
  /\ \/ CopyRestored(e) \/ CopyReady(e) \/ CopyFailed(e) \/ CopyDropped(e)
     \/ \E j \in Jobs : DropRestored(e, j)

---------------------------------------------------------------------------
(* Housekeeping and time *)

NoOneExpires == \A r \in Replicas : expire[r] = {}

FailStuckJobs(r) ==
  /\ NoOneExpires /\ ~Pending(r)
  /\ Housekeep(r)
  /\ UNCHANGED <<hostedOn, copy, scratch, asked, half, loaded, expire>>

\* ExpireDue
ListDue(r) ==
  /\ FreeForHousekeeping(r) /\ NoOneExpires /\ ~Pending(r)
  /\ \E c \in Subjects : Due(c)
  /\ expire' = [expire EXCEPT ![r] = {c \in Subjects : Due(c)}]
  /\ UNCHANGED <<hostedOn, opsVars, copy, scratch, asked, half, loaded>>

ExpireCopy(r, c, j) ==
  /\ c \in expire[r] /\ ~Pending(r)
  /\ DropJob(c, j, r)
  /\ UNCHANGED <<hostedOn, hand, effects, stuck, faults, copy, scratch, half, loaded, expire>>

Expiring(r) == ListDue(r) \/ \E c \in expire[r], j \in Jobs : ExpireCopy(r, c, j)

\* A TTL passes.
GrowsOld(c) ==
  /\ copy[c].status = "ready" /\ copy[c].age < Lives
  /\ copy' = [copy EXCEPT ![c].age = @ + 1]
  /\ UNCHANGED <<hostedOn, opsVars, scratch, asked, half, loaded, expire>>

\* A job about c is open, or its side effects or marks are still to come.
InProgress(kind, c) ==
  \/ \E j \in Jobs :
       /\ job[j].kind = kind /\ job[j].of = c
       /\ job[j].status \in Open \/ \E e \in effects : e.job = j

\* An executor still holds a job about c, or one waits in a queue.
UnderWay(c) ==
  \E j \in Jobs :
    /\ job[j].of = c
    /\ \/ job[j].status = "pending"
       \/ \E x \in Executors : Holding(x, j)
       \/ \E e \in effects : e.job = j

\* 15 minutes pass: long enough for a statement that follows another, and for
\* the jobs that are under way, unless "hasty".
Stalls(c) ==
  /\ copy[c].status = "dropping" /\ ~copy[c].stale
  /\ \A a \in asked : a.of # c
  /\ "hasty" \in CopyFeatures \/ ~UnderWay(c)
  /\ copy' = [copy EXCEPT ![c].stale = TRUE]
  /\ UNCHANGED <<hostedOn, opsVars, scratch, asked, half, loaded, expire>>

Ages(j) == ComeOfAge(j) /\ UNCHANGED <<hostedOn, copy, scratch, asked, half, loaded, expire>>

---------------------------------------------------------------------------
(* Faults *)

Dies(x) ==
  /\ \/ Crash(x)
     \/ /\ Pending(x) \/ (x \in Replicas /\ expire[x] # {})
        /\ hand[x].step = "idle" /\ \A e \in effects : e.by # x
        /\ x \in Replicas => stuck[x] = {}
        /\ OtherFault
  /\ loaded' = loaded \ {x}
  /\ expire' = [r \in Replicas |-> IF r = x THEN {} ELSE expire[r]]
  /\ asked' = {a \in asked : a.by # x}
  /\ half' = {j \in half : \E e \in effects : e.job = j /\ e.by # x}
  /\ UNCHANGED <<hostedOn, copy, scratch>>

\* The process serving a user's request dies between two statements.
RequestDies(a) ==
  /\ a.by = Nothing
  /\ OtherFault
  /\ asked' = asked \ {a}
  /\ UNCHANGED <<hostedOn, copy, scratch, half, loaded, expire>>

---------------------------------------------------------------------------
Working(x) ==
  \/ \E j \in Jobs : ClaimJob(x, j)
  \/ PrepareJob(x) \/ RefuseJob(x)
  \/ CreateScratch(x) \/ FillScratch(x) \/ DropScratch(x) \/ ExecuteFails(x)
  \/ ReportJob(x)

Continue(a) ==
  \/ \E j \in Jobs : OpenJob(a, j)
  \/ OpenRefused(a) \/ Refused(a) \/ Discarded(a) \/ DropMarked(a)

CopyNext ==
  \/ \E c \in Subjects :
       \/ OpenCopy(c) \/ Extend(c) \/ DiscardRestoring(c) \/ GrowsOld(c) \/ Stalls(c)
       \/ \E j \in Jobs : DiscardNow(c, j)
  \/ \E a \in asked : Continue(a) \/ RequestDies(a)
  \/ \E x \in Executors : Working(x) \/ Dies(x)
  \/ \E e \in effects : ApplyEffect(e)
  \/ \E r \in Replicas : FailStuckJobs(r) \/ Expiring(r)
  \/ \E j \in Jobs : Ages(j)

CopySpec == CopyInit /\ [][CopyNext]_copyVars

\* As for backups; the hours of a copy and the minutes of a drop pass.
CopyFairness ==
  /\ \A x \in Executors :
       WF_copyVars(Working(x)) /\ WF_copyVars(\E e \in effects : e.by = x /\ ApplyEffect(e))
  /\ WF_copyVars(\E a \in asked : Continue(a))
  /\ \A c \in Subjects : WF_copyVars(GrowsOld(c)) /\ WF_copyVars(Stalls(c))
  /\ \A j \in Jobs : WF_copyVars(Ages(j))
  /\ \A r \in Replicas : WF_copyVars(FailStuckJobs(r)) /\ WF_copyVars(Expiring(r))

CopyFairSpec == CopySpec /\ CopyFairness

---------------------------------------------------------------------------
(* Properties *)

CopyTypeOK ==
  /\ OpsTypeOK
  /\ hostedOn \in Agents \cup {Nothing}
  /\ copy \in [Subjects -> CopyRow]
  /\ scratch \in [Subjects -> {"absent", "present"}]
  /\ asked \subseteq Statement
  /\ half \subseteq Jobs
  /\ loaded \subseteq Executors
  /\ expire \in [Replicas -> SUBSET Subjects]

\* No process died, or one did and executions are cut off in time.
OneMishap == faults = 0 \/ (faults = 1 /\ ~Slow)

\* A copy that is shown as ready can be compared with: its database is there,
\* unless a drop that was asked for has not reached the row yet.
ReadyHasDatabase ==
  OneMishap => \A c \in Subjects : copy[c].status = "ready" =>
    \/ scratch[c] = "present" \/ InProgress("drop", c)
    \/ \E a \in asked : a.do = "droppingJob" /\ a.of = c

\* The jobs of the instance are executed one after the other.
OneServes == hostedOn \in Agents \/ \A q, r \in Replicas : q = r

\* What Discard promises, "One still restoring is dropped as soon as its
\* restore finishes": a dropped copy has left no database.
DroppedLeavesNothing ==
  OneServes => \A c \in Subjects : copy[c].status = "dropped" => scratch[c] = "absent"

\* "MaxDropAttempts bounds retries": housekeeping stops, and at most the drops
\* of a completion and a discard come on top of a failed copy's.
DropsAreLimited == \A c \in Subjects : copy[c].attempts <= MaxDropAttempts + 1

\* The copies of a database hold a slot: one is live at a time, and one that
\* was failed, dropping or dropped is never live again.
LiveCopy == INSTANCE Lease WITH
  Clients <- Subjects, Nobody <- Nothing,
  holder <- IF \E c \in Subjects : Live(c) THEN CHOOSE c \in Subjects : Live(c) ELSE Nothing,
  past <- {c \in Subjects : copy[c].status \in {"failed", "dropping", "dropped"}}

OneLiveCopy == LiveCopy!LeaseSpec

\* A copy that is being dropped is dropped, or the attempts are used up.
DropsSettle ==
  \A c \in Subjects :
    copy[c].status = "dropping" ~> copy[c].status = "dropped" \/ copy[c].attempts >= MaxDropAttempts

\* No copy stays ready for ever, however often it is extended.
ReadyEnds == \A c \in Subjects : copy[c].status = "ready" ~> copy[c].status # "ready"

\* A copy that is being restored gets ready or is dropped.
RestoringEnds == \A c \in Subjects : copy[c].status = "restoring" ~> copy[c].status # "restoring"

\* What a copy's row says of its database: one that is ready has it, one that
\* is dropped has left none, and no drop is tried without end.
RowsTellOfCopies == ReadyHasDatabase /\ DroppedLeavesNothing /\ DropsAreLimited

\* No copy stays for ever: one that is ready expires, and one that is being
\* dropped is dropped.
CopiesEnd == DropsSettle /\ ReadyEnds
===============================================================================
