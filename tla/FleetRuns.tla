----------------------------- MODULE FleetRuns -----------------------------
(***************************************************************************)
(* Fleet queries: one SQL script run on many databases, a few at a time,   *)
(* by a background runner in every API replica.                            *)
(*                                                                         *)
(* The run and its targets live in two tables; every operation of the      *)
(* repository is one READ COMMITTED transaction.  An operation that locks  *)
(* the run row before it reads is one atomic action here.  Two are not:    *)
(*                                                                         *)
(*   Claim        lists the runs, with a computed count of their running   *)
(*                targets, in the statement that also locks them.  The     *)
(*                count is of the statement's snapshot; the lock comes     *)
(*                later and does not refresh it.  ClaimRead, ClaimCommit.  *)
(*   ReapOrphans  updates targets first and reaches for the run row only   *)
(*                in settle, whose counts are again of a snapshot that a   *)
(*                wait for the row lock does not refresh.  ReapRead,       *)
(*                ReapCommit.                                              *)
(*                                                                         *)
(* Abstracted: the script, its results and error texts, who may run it,    *)
(* the stored counters (totals of the target statuses), and time: a        *)
(* target may be reaped whenever no live execution of it remains, or, with *)
(* the "overrun" fault, at any time.                                       *)
(***************************************************************************)
EXTENDS Integers, FiniteSets

CONSTANTS
  Runs,        \* run ids, numbered in the order of created_at
  N,           \* targets per run; positions are 0 .. N-1
  Owners,      \* runner ids: a restarted process draws a fresh one
  Nobody,      \* claimed_by of a target that was never claimed
  RunnerMax,   \* FLEETDOCK_FLEET_MAX_PARALLEL: executions per process
  Window,      \* runs one claim looks at (LIMIT 20)
  Options,     \* the options a run may be created with
  MaxRetries,  \* bound: user retries per run
  Faults       \* which of the faults below happen

FaultKinds == {"crash", "shutdown", "lost", "overrun"}

Positions == 0 .. (N - 1)

OptionType == [concurrency : Nat \ {0}, stopOnError : BOOLEAN, canary : BOOLEAN]

ASSUME FleetAssumption ==
  /\ Runs \subseteq Nat /\ IsFiniteSet(Runs)
  /\ N \in Nat \ {0}
  /\ IsFiniteSet(Owners)
  /\ Nobody \notin Owners
  /\ RunnerMax \in Nat \ {0}
  /\ Window \in Nat \ {0}
  /\ Options \subseteq OptionType
  /\ \A c \in Options : c.canary => N > 1
  /\ MaxRetries \in Nat
  /\ Faults \subseteq FaultKinds

VARIABLES
  runStatus,   \* fleet_runs.status; "none" before the insert, "deleted" after pruning
  opts,        \* the options fixed at creation
  canary,      \* fleet_runs.canary: cleared by Resume and Retry
  finishedAt,  \* fleet_runs.finished_at IS NOT NULL
  tstatus,     \* fleet_run_targets.status
  claimedBy,   \* fleet_run_targets.claimed_by
  attempt,     \* how often a target was claimed; stands for started_at
  retries,     \* how often the user retried the run
  process,     \* the runner processes: up, stopping (signal received), down
  claimTx,     \* what an open claim transaction has read
  execs,       \* executions in the runners' memory
  reapTx       \* what an open reap transaction has marked and read

dbvars == <<runStatus, opts, canary, finishedAt, tstatus, claimedBy, attempt, retries>>
vars   == <<dbvars, process, claimTx, execs, reapTx>>

LiveStatus   == {"running", "paused", "canceling"}
OverStatus   == {"succeeded", "failed", "canceled"}
RunStatus    == LiveStatus \cup OverStatus \cup {"none", "deleted"}
OpenTarget   == {"pending", "running"}

\* What Retry queues again.
RetryTarget  == {"failed", "skipped", "canceled", "unknown"}
TargetStatus == OpenTarget \cup RetryTarget \cup {"succeeded"}

Exec == [owner : Owners, run : Runs, pos : Positions, attempt : Nat,
         stop : {"no", "cancel", "shutdown"}]

\* Nothing running is seen by a transaction that is not open.
NoClaim == [open |-> FALSE, max |-> 0, listed |-> {}, running |-> [r \in Runs |-> {}]]
NoReap  == [open |-> FALSE, marked |-> {}, seen |-> [r \in Runs |-> [p \in Positions |-> "pending"]]]

---------------------------------------------------------------------------
(* Operators of the transactions *)

\* Mutant: a running target is not counted as open.
HasOpenPendingOnly(ts) == \E p \in Positions : ts[p] = "pending"

HasOpen(ts) == \E p \in Positions : ts[p] \in OpenTarget

\* settle: the run's next status, from its own row and the target statuses
\* the counting subquery saw.
SettledStatus(status, ts) ==
  IF HasOpen(ts) \/ status \notin LiveStatus THEN status
  ELSE IF status = "canceling" THEN "canceled"
  ELSE IF \E p \in Positions : ts[p] \in {"failed", "unknown"} THEN "failed"
  ELSE "succeeded"

\* Every pending target becomes s (skip on error, cancel).
ClosePending(ts, s) == [p \in Positions |-> IF ts[p] = "pending" THEN s ELSE ts[p]]

\* The n smallest members of a set of numbers (ORDER BY ... LIMIT n).
Lowest(S, n) == {x \in S : Cardinality({y \in S : y < x}) < n}

Least(a, b) == IF a <= b THEN a ELSE b

RunningAt(r) == {p \in Positions : tstatus[r][p] = "running"}

\* The runner's in-memory map has one entry per target key.
InFlight(o) == {<<e.run, e.pos>> : e \in {x \in execs : x.owner = o}}

\* The execution's context is canceled.
Told(e, why) == [e EXCEPT !.stop = why]

---------------------------------------------------------------------------
Init ==
  /\ runStatus  = [r \in Runs |-> "none"]
  /\ opts       \in [Runs -> Options]
  /\ canary     = [r \in Runs |-> opts[r].canary]
  /\ finishedAt = [r \in Runs |-> FALSE]
  /\ tstatus    = [r \in Runs |-> [p \in Positions |-> "pending"]]
  /\ claimedBy  = [r \in Runs |-> [p \in Positions |-> Nobody]]
  /\ attempt    = [r \in Runs |-> [p \in Positions |-> 0]]
  /\ retries    = [r \in Runs |-> 0]
  /\ process    = [o \in Owners |-> "up"]
  /\ claimTx    = [o \in Owners |-> NoClaim]
  /\ execs      = {}
  /\ reapTx     = NoReap

---------------------------------------------------------------------------
(* The user *)

\* The run row and its pending targets, in one transaction.
Create(r) ==
  /\ runStatus[r] = "none"
  /\ \A q \in Runs : q < r => runStatus[q] # "none"
  /\ runStatus' = [runStatus EXCEPT ![r] = "running"]
  /\ UNCHANGED <<opts, canary, finishedAt, tstatus, claimedBy, attempt, retries,
                 process, claimTx, execs, reapTx>>

\* Mutant: the run stays a canary.
ResumeStillCanary(r) ==
  /\ runStatus[r] = "paused"
  /\ runStatus' = [runStatus EXCEPT ![r] = "running"]
  /\ UNCHANGED <<opts, canary, finishedAt, tstatus, claimedBy, attempt, retries,
                 process, claimTx, execs, reapTx>>

Resume(r) ==
  /\ runStatus[r] = "paused"
  /\ runStatus' = [runStatus EXCEPT ![r] = "running"]
  /\ canary' = [canary EXCEPT ![r] = FALSE]
  /\ UNCHANGED <<opts, finishedAt, tstatus, claimedBy, attempt, retries,
                 process, claimTx, execs, reapTx>>

Cancel(r) ==
  /\ runStatus[r] \in {"running", "paused"}
  /\ LET ts == ClosePending(tstatus[r], "canceled") IN
       /\ tstatus'    = [tstatus EXCEPT ![r] = ts]
       /\ runStatus'  = [runStatus EXCEPT ![r] = SettledStatus("canceling", ts)]
       /\ finishedAt' = [finishedAt EXCEPT ![r] = ~HasOpen(ts)]
  /\ UNCHANGED <<opts, canary, claimedBy, attempt, retries, process, claimTx, execs, reapTx>>

Retry(r) ==
  /\ retries[r] < MaxRetries
  /\ runStatus[r] \in {"failed", "canceled"}
  /\ \E p \in Positions : tstatus[r][p] \in RetryTarget
  /\ LET again == {p \in Positions : tstatus[r][p] \in RetryTarget}
         ts    == [p \in Positions |-> IF p \in again THEN "pending" ELSE tstatus[r][p]] IN
       /\ tstatus'    = [tstatus EXCEPT ![r] = ts]
       /\ claimedBy'  = [claimedBy EXCEPT ![r] =
                           [p \in Positions |-> IF p \in again THEN Nobody ELSE claimedBy[r][p]]]
       /\ runStatus'  = [runStatus EXCEPT ![r] = SettledStatus("running", ts)]
       /\ finishedAt' = [finishedAt EXCEPT ![r] = ~HasOpen(ts)]
  /\ canary'  = [canary EXCEPT ![r] = FALSE]
  /\ retries' = [retries EXCEPT ![r] = @ + 1]
  /\ UNCHANGED <<opts, attempt, process, claimTx, execs, reapTx>>

---------------------------------------------------------------------------
(* A runner's polling loop *)

\* The listing statement: takes its snapshot, with no lock held yet.
ClaimRead(o) ==
  /\ process[o] = "up"
  /\ ~claimTx[o].open
  /\ Cardinality(InFlight(o)) < RunnerMax
  /\ claimTx' = [claimTx EXCEPT ![o] =
       [open    |-> TRUE,
        max     |-> RunnerMax - Cardinality(InFlight(o)),
        listed  |-> {r \in Runs : runStatus[r] = "running"},
        running |-> [r \in Runs |-> IF runStatus[r] = "running" THEN RunningAt(r) ELSE {}]]]
  /\ UNCHANGED <<dbvars, process, execs, reapTx>>

\* The rows the statement locks: status is checked again on the row's latest
\* version, and rows that no longer match do not count towards the limit.
Locked(o) == Lowest({r \in claimTx[o].listed : runStatus[r] = "running"}, Window)

\* Mutant: targets already running are not deducted.
FreeIgnoringRunning(o, r) == IF canary[r] THEN 1 ELSE opts[r].concurrency

\* Slots of the run by the count the snapshot saw; the canary runs alone.
Free(o, r) ==
  (IF canary[r] THEN 1 ELSE opts[r].concurrency) - Cardinality(claimTx[o].running[r])

Claimable(r) == {p \in Positions : tstatus[r][p] = "pending" /\ (canary[r] => p = 0)}

\* What the claim may still take when it comes to run r.
Left(o, taken, r) ==
  claimTx[o].max - Cardinality({x \in Runs \X Positions : x[1] < r /\ x[2] \in taken[x[1]]})

Share(o, taken, r) ==
  IF r \in Locked(o)
    THEN Lowest(Claimable(r), Least(Free(o, r), Left(o, taken, r)))
    ELSE {}

\* The rows are locked, targets handed out run by run, and the transaction
\* commits; the runner then starts one execution per claimed target.
ClaimCommit(o) ==
  /\ claimTx[o].open
  /\ \E taken \in [Runs -> SUBSET Positions] :
       /\ \A r \in Runs : taken[r] = Share(o, taken, r)
       /\ tstatus'   = [r \in Runs |-> [p \in Positions |->
                          IF p \in taken[r] THEN "running" ELSE tstatus[r][p]]]
       /\ claimedBy' = [r \in Runs |-> [p \in Positions |->
                          IF p \in taken[r] THEN o ELSE claimedBy[r][p]]]
       /\ attempt'   = [r \in Runs |-> [p \in Positions |->
                          IF p \in taken[r] THEN attempt[r][p] + 1 ELSE attempt[r][p]]]
       /\ execs'     = execs \cup
            {[owner |-> o, run |-> x[1], pos |-> x[2], attempt |-> attempt[x[1]][x[2]] + 1,
              stop |-> IF process[o] = "stopping" THEN "shutdown" ELSE "no"] :
                x \in {y \in Runs \X Positions : y[2] \in taken[y[1]]}}
  /\ claimTx' = [claimTx EXCEPT ![o] = NoClaim]
  /\ UNCHANGED <<runStatus, opts, canary, finishedAt, retries, process, reapTx>>

\* stopCanceled: the runner's executions of targets it still holds in runs
\* being canceled are told to stop.
StopCanceled(o) ==
  /\ process[o] = "up"
  /\ LET hit == {e \in execs : /\ e.owner = o /\ e.stop = "no"
                               /\ runStatus[e.run] = "canceling"
                               /\ tstatus[e.run][e.pos] = "running"
                               /\ claimedBy[e.run][e.pos] = o} IN
       /\ hit # {}
       /\ execs' = (execs \ hit) \cup {Told(e, "cancel") : e \in hit}
  /\ UNCHANGED <<dbvars, process, claimTx, reapTx>>

---------------------------------------------------------------------------
(* Executions *)

\* How an execution can end: a success stands whatever was asked of it; a
\* canceled one that failed is reported canceled; one whose context ended
\* with the process is reported canceled, or failed when an earlier
\* statement of the script had already run.
Outcomes(e) ==
  CASE e.stop = "no"       -> {"succeeded", "failed"}
    [] e.stop = "cancel"   -> {"succeeded", "canceled"}
    [] e.stop = "shutdown" -> {"succeeded", "failed", "canceled"}

\* Mutant: a late outcome replaces whatever was recorded meanwhile.
RecordableLate(r, p) == runStatus[r] # "deleted" /\ tstatus[r][p] # "pending"

\* A target that is no longer running was reaped meanwhile.
Recordable(r, p) == runStatus[r] # "deleted" /\ tstatus[r][p] = "running"

\* Mutant: only a failing canary stops the run.
StopsCanaryOnly(r, outcome) ==
  outcome # "succeeded" /\ opts[r].stopOnError /\ canary[r] /\ runStatus[r] = "running"

\* Stop on error: the rest of the run is skipped.
Stops(r, outcome) ==
  outcome # "succeeded" /\ opts[r].stopOnError /\ runStatus[r] = "running"

\* The canary is done: wait for the user before the rest, unless nothing is left.
Waits(r, p, ts) ==
  canary[r] /\ p = 0 /\ runStatus[r] = "running" /\ \E q \in Positions : ts[q] = "pending"

\* Complete: a no-op unless the target is still running.
Complete(r, p, outcome) ==
  IF Recordable(r, p)
  THEN LET done == [tstatus[r] EXCEPT ![p] = outcome]
           ts   == IF Stops(r, outcome) THEN ClosePending(done, "skipped") ELSE done
       IN /\ tstatus'    = [tstatus EXCEPT ![r] = ts]
          /\ runStatus'  = [runStatus EXCEPT ![r] =
                              SettledStatus(IF Waits(r, p, ts) THEN "paused" ELSE @, ts)]
          /\ finishedAt' = [finishedAt EXCEPT ![r] = ~HasOpen(ts)]
          /\ UNCHANGED <<opts, canary, claimedBy, attempt, retries>>
  ELSE UNCHANGED dbvars

\* An execution ends and records its outcome.  The update waits for a reap
\* that holds the target's row.
ExecEnd(e, outcome) ==
  /\ e \in execs
  /\ outcome \in Outcomes(e)
  /\ <<e.run, e.pos>> \notin reapTx.marked
  /\ Complete(e.run, e.pos, outcome)
  /\ execs' = execs \ {e}
  /\ UNCHANGED <<process, claimTx, reapTx>>

\* The outcome cannot be recorded (the database is away for 30 s, or the
\* update is the victim of a deadlock with a reap): it is logged and dropped.
ExecLost(e) ==
  /\ "lost" \in Faults
  /\ e \in execs
  /\ execs' = execs \ {e}
  /\ UNCHANGED <<dbvars, process, claimTx, reapTx>>

---------------------------------------------------------------------------
(* Housekeeping, by any replica and under no lock *)

\* Only a target running well past its timeout is an orphan: one without a
\* live execution, unless executions overrun.
Orphan(r, p) ==
  /\ runStatus[r] # "deleted" /\ tstatus[r][p] = "running"
  /\ \/ "overrun" \in Faults
     \/ \A e \in execs : ~(e.run = r /\ e.pos = p)

\* Mutant: an interrupted target is queued again.
InterruptedRequeued(r, marked) ==
  [p \in Positions |-> IF <<r, p>> \in marked THEN "pending" ELSE tstatus[r][p]]

\* What the marked targets of a run become: their outcome is unknown.
Interrupted(r, marked) ==
  [p \in Positions |-> IF <<r, p>> \in marked THEN "unknown" ELSE tstatus[r][p]]

\* The targets are marked (uncommitted) and settle's snapshot is taken.
ReapRead(marked) ==
  /\ ~reapTx.open
  /\ \E o \in Owners : process[o] = "up"
  /\ marked # {}
  /\ \A x \in marked : Orphan(x[1], x[2])
  /\ reapTx' = [open |-> TRUE, marked |-> marked,
                seen |-> [r \in Runs |-> Interrupted(r, marked)]]
  /\ UNCHANGED <<dbvars, process, claimTx, execs>>

\* settle gets the run rows: their latest status, the counts of its snapshot.
ReapCommit ==
  /\ reapTx.open
  /\ LET touched == {x[1] : x \in reapTx.marked} IN
       /\ tstatus'    = [r \in Runs |-> Interrupted(r, reapTx.marked)]
       /\ runStatus'  = [r \in Runs |-> IF r \in touched
                           THEN SettledStatus(runStatus[r], reapTx.seen[r]) ELSE runStatus[r]]
       /\ finishedAt' = [r \in Runs |-> IF r \in touched
                           THEN ~HasOpen(reapTx.seen[r]) ELSE finishedAt[r]]
  /\ reapTx' = NoReap
  /\ UNCHANGED <<opts, canary, claimedBy, attempt, retries, process, claimTx, execs>>

\* The reap fails (the other victim of that deadlock, or its process died)
\* and is rolled back.
ReapAbort ==
  /\ Faults \cap {"lost", "crash", "shutdown"} # {}
  /\ reapTx.open
  /\ reapTx' = NoReap
  /\ UNCHANGED <<dbvars, process, claimTx, execs>>

\* Retention: finished runs are deleted with their targets.
PruneFinished(r) ==
  /\ finishedAt[r] /\ runStatus[r] # "deleted"
  /\ runStatus' = [runStatus EXCEPT ![r] = "deleted"]
  /\ UNCHANGED <<opts, canary, finishedAt, tstatus, claimedBy, attempt, retries,
                 process, claimTx, execs, reapTx>>

---------------------------------------------------------------------------
(* Processes *)

\* SIGTERM: the runner stops polling and cancels its executions, which then
\* race the end of the process (nothing waits for them).
Shutdown(o) ==
  /\ "shutdown" \in Faults
  /\ process[o] = "up"
  /\ process' = [process EXCEPT ![o] = "stopping"]
  /\ execs' = {IF e.owner = o /\ e.stop = "no" THEN Told(e, "shutdown") ELSE e : e \in execs}
  /\ UNCHANGED <<dbvars, claimTx, reapTx>>

\* The process is gone: its memory and its open transaction with it.
Die(o) ==
  /\ process[o] = "stopping" \/ (process[o] = "up" /\ "crash" \in Faults)
  /\ process' = [process EXCEPT ![o] = "down"]
  /\ execs' = {e \in execs : e.owner # o}
  /\ claimTx' = [claimTx EXCEPT ![o] = NoClaim]
  /\ UNCHANGED <<dbvars, reapTx>>

---------------------------------------------------------------------------
Next ==
  \/ \E r \in Runs : Create(r) \/ Resume(r) \/ Cancel(r) \/ Retry(r) \/ PruneFinished(r)
  \/ \E o \in Owners : ClaimRead(o) \/ ClaimCommit(o) \/ StopCanceled(o) \/ Shutdown(o) \/ Die(o)
  \/ \E e \in execs : ExecLost(e) \/ \E outcome \in TargetStatus : ExecEnd(e, outcome)
  \/ \E marked \in SUBSET (Runs \X Positions) : ReapRead(marked)
  \/ ReapCommit \/ ReapAbort

Spec == Init /\ [][Next]_vars

\* Runners poll and executions end (every statement has a timeout) as long
\* as their process lives; every replica polls, so a reap is retried.
Fairness ==
  /\ \A o \in Owners : /\ WF_vars(ClaimRead(o))
                        /\ WF_vars(ClaimCommit(o))
                        /\ WF_vars(StopCanceled(o))
                        /\ WF_vars(\E e \in execs, outcome \in TargetStatus :
                                     e.owner = o /\ ExecEnd(e, outcome))
  /\ WF_vars(\E marked \in SUBSET (Runs \X Positions) : ReapRead(marked))
  /\ WF_vars(ReapCommit)

FairSpec == Spec /\ Fairness

---------------------------------------------------------------------------
(* Properties *)

TypeOK ==
  /\ runStatus \in [Runs -> RunStatus]
  /\ opts \in [Runs -> Options]
  /\ canary \in [Runs -> BOOLEAN]
  /\ finishedAt \in [Runs -> BOOLEAN]
  /\ tstatus \in [Runs -> [Positions -> TargetStatus]]
  /\ claimedBy \in [Runs -> [Positions -> Owners \cup {Nobody}]]
  /\ attempt \in [Runs -> [Positions -> Nat]]
  /\ retries \in [Runs -> Nat]
  /\ process \in [Owners -> {"up", "stopping", "down"}]
  /\ claimTx \in [Owners -> [open : BOOLEAN, max : Nat, listed : SUBSET Runs,
                             running : [Runs -> SUBSET Positions]]]
  /\ execs \subseteq Exec
  /\ reapTx \in [open : BOOLEAN, marked : SUBSET (Runs \X Positions),
                 seen : [Runs -> [Positions -> TargetStatus]]]

\* A run that is reported over has no target left pending or running, and
\* only such a run carries the finish time retention deletes by.  settle must
\* not finish a run on counts an overlapping transaction has made stale.
FinishedIsOver ==
  \A r \in Runs :
    /\ runStatus[r] \in OverStatus => ~HasOpen(tstatus[r])
    /\ finishedAt[r] => runStatus[r] \in OverStatus \cup {"deleted"}

\* No single replica ever runs more targets of a run at once than the run's
\* concurrency, even when it hands out work on an outdated count.
OwnerConcurrency ==
  \A r \in Runs, o \in Owners :
    Cardinality({p \in RunningAt(r) : claimedBy[r][p] = o}) <= opts[r].concurrency

\* While a run still is a canary, only its first target has ever been
\* started: no interleaving of claims lets another database see the script
\* before the user resumes (or retries) the run.
CanaryFirst ==
  \A r \in Runs : canary[r] => \A p \in Positions \ {0} : attempt[r][p] = 0

\* A target is started at most once for the run's creation and once for each
\* retry the user asked for: an interrupted target is never re-run on its own.
AtMostOncePerRequest ==
  \A r \in Runs, p \in Positions : attempt[r][p] <= 1 + retries[r]

\* So, together: targets are started when asked for and not more often, and
\* the canary before all others.
StartsAsRequested == AtMostOncePerRequest /\ CanaryFirst

\* Unless executions overrun the reaping delay, an execution in some runner's
\* memory is the current attempt of a target still running under that runner,
\* so its outcome is recorded for the attempt it belongs to.
ExecutionIsCurrent ==
  "overrun" \notin Faults =>
    \A e \in execs : /\ tstatus[e.run][e.pos] = "running"
                     /\ claimedBy[e.run][e.pos] = e.owner
                     /\ attempt[e.run][e.pos] = e.attempt

\* A recorded success is final: no late outcome, reap, cancel or retry of the
\* run touches it.
SuccessKept ==
  [][\A r \in Runs, p \in Positions :
       tstatus[r][p] = "succeeded" => tstatus'[r][p] = "succeeded"]_vars

\* The comment on Claim: "its concurrency holds across replicas".
ConcurrencyHeld ==
  \A r \in Runs : Cardinality(RunningAt(r)) <= opts[r].concurrency

\* The comment on settle: it "finishes [the run] when no target is left
\* pending or running".
FinishesWhenDone ==
  \A r \in Runs : runStatus[r] \in LiveStatus => HasOpen(tstatus[r])

\* The user guide: the script "runs on the first database alone and waits for
\* you to continue".
CanaryWaits ==
  \A r \in Runs :
    (canary[r] /\ runStatus[r] = "running" /\ tstatus[r][0] \notin OpenTarget)
      => \A p \in Positions : tstatus[r][p] # "pending"

\* The user guide: the script "stops at the first failure"; an interrupted
\* target counts as a failure of its run.
StopsAtFirstFailure ==
  \A r \in Runs :
    (opts[r].stopOnError /\ runStatus[r] = "running"
       /\ \E p \in Positions : tstatus[r][p] \in {"failed", "unknown"})
      => \A p \in Positions : tstatus[r][p] # "pending"

\* The comment on TargetCanceled: "not run, or stopped, because the run was
\* canceled".
CanceledOnlyByCancel ==
  \A r \in Runs, p \in Positions :
    tstatus[r][p] = "canceled" => runStatus[r] \in {"canceling", "canceled", "deleted"}

\* What the documentation promises of a run: it finishes when its last target
\* ends, a canary that ended pauses it, a failure stops it if it was to, and
\* only a cancellation cancels targets.  Without faults it keeps all four.
PromisesKept == FinishesWhenDone /\ CanaryWaits /\ StopsAtFirstFailure /\ CanceledOnlyByCancel

\* A started run comes to an end or waits for its user, and a canceled one
\* comes to an end: runners share the work without losing any of it.
RunSettles ==
  \A r \in Runs : runStatus[r] = "running" ~> runStatus[r] # "running"

CancelSettles ==
  \A r \in Runs : runStatus[r] = "canceling" ~> runStatus[r] # "canceling"
=============================================================================
