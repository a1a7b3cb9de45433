-------------------------- MODULE FleetRunsProofs --------------------------
(***************************************************************************)
(* Theorems about FleetRuns, for any number of runs, targets and replicas, *)
(* any options and any faults.                                             *)
(*                                                                         *)
(* The inductive invariant is about what the table says and about a reap   *)
(* in flight.  ReapSound: the targets a reap has marked are still running, *)
(* and what it has read may be out of date in one direction only, it never *)
(* misses a target that is still open.  This is why outdated counts can    *)
(* delay the end of a run but never end one early.                         *)
(***************************************************************************)
EXTENDS FleetRuns, FiniteSetTheorems, TLAPS

\* ClaimCommit's witness, as a predicate of its own.
ShareOut(o, taken) ==
  /\ taken \in [Runs -> SUBSET Positions]
  /\ \A r \in Runs : taken[r] = Share(o, taken, r)

\* A marked target stays running until the reap ends, and settle's snapshot
\* has every target of a touched run that is still open as open.
ReapSound ==
  /\ ~reapTx.open => reapTx.marked = {}
  /\ \A x \in reapTx.marked :
       /\ runStatus[x[1]] \in LiveStatus
       /\ tstatus[x[1]][x[2]] = "running"
       /\ \A p \in Positions :
            /\ <<x[1], p>> \notin reapTx.marked
            /\ tstatus[x[1]][p] \in OpenTarget
            => reapTx.seen[x[1]][p] \in OpenTarget

\* A run that was not created yet has only pending targets.
NoneIsPending ==
  \A r \in Runs : runStatus[r] = "none" => \A p \in Positions : tstatus[r][p] = "pending"

OverInv == TypeOK /\ ReapSound /\ NoneIsPending /\ FinishedIsOver

---------------------------------------------------------------------------
(* Lemmas about the operators *)

\* settle moves a run only within the statuses of a created run.
LEMMA SettledType ==
  ASSUME NEW s \in RunStatus, NEW ts
  PROVE  SettledStatus(s, ts) \in RunStatus
BY DEF SettledStatus, RunStatus, OverStatus, LiveStatus

\* settle reports a run over, from a live status, only when it saw no open target.
LEMMA SettledOver ==
  ASSUME NEW s, NEW ts, s \in LiveStatus
  PROVE  /\ HasOpen(ts) => SettledStatus(s, ts) = s
         /\ ~HasOpen(ts) => SettledStatus(s, ts) \in OverStatus
BY DEF SettledStatus, OverStatus, LiveStatus

LEMMA SettledElse ==
  ASSUME NEW s, NEW ts, s \notin LiveStatus
  PROVE  SettledStatus(s, ts) = s
BY DEF SettledStatus

\* What a claim hands out of a run is pending and, from a canary, is its first target.
LEMMA ShareIsClaimable ==
  ASSUME NEW o \in Owners, NEW taken, ShareOut(o, taken), NEW r \in Runs, NEW p \in taken[r]
  PROVE  /\ p \in Positions
         /\ tstatus[r][p] = "pending"
         /\ canary[r] => p = 0
         /\ r \in claimTx[o].listed
         /\ runStatus[r] = "running"
BY DEF ShareOut, Share, Claimable, Lowest, Locked

\* A told execution is the same attempt of the same target.
LEMMA ToldType ==
  ASSUME NEW e \in Exec, NEW why \in {"no", "cancel", "shutdown"}
  PROVE  /\ Told(e, why) \in Exec
         /\ Told(e, why).owner = e.owner /\ Told(e, why).run = e.run
         /\ Told(e, why).pos = e.pos /\ Told(e, why).attempt = e.attempt
BY DEF Told, Exec

\* Closing the pending targets gives every target a status.
LEMMA ClosePendingType ==
  ASSUME NEW ts \in [Positions -> TargetStatus], NEW s \in TargetStatus
  PROVE  ClosePending(ts, s) \in [Positions -> TargetStatus]
BY DEF ClosePending

\* The marked targets of a run become unknown, the others stay.
LEMMA InterruptedType ==
  ASSUME TypeOK, NEW r \in Runs, NEW marked
  PROVE  Interrupted(r, marked) \in [Positions -> TargetStatus]
<1>1. tstatus[r] \in [Positions -> TargetStatus]
  BY DEF TypeOK
<1>2. "unknown" \in TargetStatus
  BY DEF TargetStatus, RetryTarget
<1>3. QED
  BY <1>1, <1>2 DEF Interrupted

---------------------------------------------------------------------------
(* Type correctness *)

LEMMA InitType == Init => TypeOK
BY FleetAssumption DEF Init, TypeOK, RunStatus, OverStatus, LiveStatus, TargetStatus,
   OpenTarget, RetryTarget, NoClaim, NoReap, OptionType, Exec

\* Each action keeps the types; the statuses come from settle and the literals.
LEMMA NextType == TypeOK /\ [Next]_vars => TypeOK'
<1> SUFFICES ASSUME TypeOK, [Next]_vars PROVE TypeOK'
  OBVIOUS
<1> USE FleetAssumption
<1>1. ASSUME NEW r \in Runs, Create(r) PROVE TypeOK'
  BY <1>1 DEF Create, TypeOK, RunStatus, LiveStatus
<1>2. ASSUME NEW r \in Runs, Resume(r) PROVE TypeOK'
  BY <1>2 DEF Resume, TypeOK, RunStatus, LiveStatus
<1>3. ASSUME NEW r \in Runs, Cancel(r) PROVE TypeOK'
  <2> DEFINE ts == ClosePending(tstatus[r], "canceled")
  <2>1. ts \in [Positions -> TargetStatus]
    BY ClosePendingType DEF TypeOK, TargetStatus, RetryTarget
  <2>2. SettledStatus("canceling", ts) \in RunStatus
    BY SettledType DEF RunStatus, LiveStatus
  <2>3. HasOpen(ts) \in BOOLEAN
    BY DEF HasOpen
  <2>4. QED
    BY <1>3, <2>1, <2>2, <2>3 DEF Cancel, TypeOK
<1>4. ASSUME NEW r \in Runs, Retry(r) PROVE TypeOK'
  <2> DEFINE again == {p \in Positions : tstatus[r][p] \in RetryTarget}
  <2> DEFINE ts == [p \in Positions |-> IF p \in again THEN "pending" ELSE tstatus[r][p]]
  <2> DEFINE cb == [p \in Positions |-> IF p \in again THEN Nobody ELSE claimedBy[r][p]]
  <2>1. ts \in [Positions -> TargetStatus] /\ cb \in [Positions -> Owners \cup {Nobody}]
    BY DEF TypeOK, TargetStatus, OpenTarget
  <2>2. SettledStatus("running", ts) \in RunStatus
    BY SettledType DEF RunStatus, LiveStatus
  <2>3. HasOpen(ts) \in BOOLEAN
    BY DEF HasOpen
  <2>4. /\ tstatus' = [tstatus EXCEPT ![r] = ts]
        /\ claimedBy' = [claimedBy EXCEPT ![r] = cb]
        /\ runStatus' = [runStatus EXCEPT ![r] = SettledStatus("running", ts)]
        /\ finishedAt' = [finishedAt EXCEPT ![r] = ~HasOpen(ts)]
        /\ canary' = [canary EXCEPT ![r] = FALSE]
        /\ retries' = [retries EXCEPT ![r] = retries[r] + 1]
        /\ UNCHANGED <<opts, attempt, process, claimTx, execs, reapTx>>
    BY <1>4 DEF Retry
  <2> HIDE DEF ts, cb, again
  <2>5. QED
    BY <2>1, <2>2, <2>3, <2>4 DEF TypeOK
<1>5. ASSUME NEW r \in Runs, PruneFinished(r) PROVE TypeOK'
  BY <1>5 DEF PruneFinished, TypeOK, RunStatus
<1>6. ASSUME NEW o \in Owners, ClaimRead(o) PROVE TypeOK'
  <2> DEFINE n == Cardinality(InFlight(o))
  <2>1. IsFiniteSet(InFlight(o))
    <3>1. InFlight(o) \subseteq Runs \X Positions
      BY DEF InFlight, TypeOK, Exec
    <3>2. IsFiniteSet(Runs \X Positions)
      <4>1. IsFiniteSet(Positions) /\ IsFiniteSet(Runs)
        BY FS_Interval DEF Positions, FleetAssumption
      <4>2. QED
        BY <4>1, FS_Product
    <3>3. QED
      BY <3>1, <3>2, FS_Subset
  <2>2. n \in Nat
    BY <2>1, FS_CardinalityType
  <2>3. n < RunnerMax => RunnerMax - n \in Nat
    BY <2>2
  <2>4. \A r \in Runs : RunningAt(r) \in SUBSET Positions
    BY DEF RunningAt
  <2>5. QED
    BY <1>6, <2>3, <2>4 DEF ClaimRead, TypeOK, dbvars
<1>7. ASSUME NEW o \in Owners, ClaimCommit(o) PROVE TypeOK'
  <2>1. PICK taken \in [Runs -> SUBSET Positions] :
          /\ tstatus'   = [r \in Runs |-> [p \in Positions |->
                             IF p \in taken[r] THEN "running" ELSE tstatus[r][p]]]
          /\ claimedBy' = [r \in Runs |-> [p \in Positions |->
                             IF p \in taken[r] THEN o ELSE claimedBy[r][p]]]
          /\ attempt'   = [r \in Runs |-> [p \in Positions |->
                             IF p \in taken[r] THEN attempt[r][p] + 1 ELSE attempt[r][p]]]
          /\ execs'     = execs \cup
               {[owner |-> o, run |-> x[1], pos |-> x[2], attempt |-> attempt[x[1]][x[2]] + 1,
                 stop |-> IF process[o] = "stopping" THEN "shutdown" ELSE "no"] :
                   x \in {y \in Runs \X Positions : y[2] \in taken[y[1]]}}
    BY <1>7 DEF ClaimCommit
  <2>2. tstatus' \in [Runs -> [Positions -> TargetStatus]]
    BY <2>1 DEF TypeOK, TargetStatus, OpenTarget
  <2>3. claimedBy' \in [Runs -> [Positions -> Owners \cup {Nobody}]]
    BY <2>1 DEF TypeOK
  <2>4. attempt' \in [Runs -> [Positions -> Nat]]
    BY <2>1 DEF TypeOK
  <2>5. execs' \subseteq Exec
    <3>1. SUFFICES ASSUME NEW x \in Runs \X Positions
                   PROVE  [owner |-> o, run |-> x[1], pos |-> x[2],
                           attempt |-> attempt[x[1]][x[2]] + 1,
                           stop |-> IF process[o] = "stopping" THEN "shutdown" ELSE "no"] \in Exec
      BY <2>1 DEF TypeOK
    <3>2. x[1] \in Runs /\ x[2] \in Positions
      OBVIOUS
    <3>3. attempt[x[1]][x[2]] + 1 \in Nat
      <4>1. attempt[x[1]] \in [Positions -> Nat]
        BY <3>2 DEF TypeOK
      <4>2. attempt[x[1]][x[2]] \in Nat
        BY <3>2, <4>1
      <4>3. QED
        BY <4>2
    <3>4. QED
      BY <3>2, <3>3 DEF Exec
  <2>6. claimTx' \in [Owners -> [open : BOOLEAN, max : Nat, listed : SUBSET Runs,
                                running : [Runs -> SUBSET Positions]]]
    BY <1>7 DEF ClaimCommit, TypeOK, NoClaim
  <2>7. QED
    BY <1>7, <2>2, <2>3, <2>4, <2>5, <2>6 DEF ClaimCommit, TypeOK
<1>8. ASSUME NEW o \in Owners, StopCanceled(o) PROVE TypeOK'
  <2>1. \A e \in execs : Told(e, "cancel") \in Exec
    BY ToldType DEF TypeOK
  <2>2. execs' \subseteq Exec
    BY <1>8, <2>1 DEF StopCanceled, TypeOK
  <2>3. QED
    BY <1>8, <2>2 DEF StopCanceled, TypeOK, dbvars
<1>9. ASSUME NEW o \in Owners, Shutdown(o) PROVE TypeOK'
  <2>1. \A e \in execs : Told(e, "shutdown") \in Exec
    BY ToldType DEF TypeOK
  <2>2. execs' \subseteq Exec
    BY <1>9, <2>1 DEF Shutdown, TypeOK
  <2>3. QED
    BY <1>9, <2>2 DEF Shutdown, TypeOK, dbvars
<1>10. ASSUME NEW o \in Owners, Die(o) PROVE TypeOK'
  BY <1>10 DEF Die, TypeOK, NoClaim, dbvars
<1>11. ASSUME NEW e \in execs, ExecLost(e) PROVE TypeOK'
  BY <1>11 DEF ExecLost, TypeOK, dbvars
<1>12. ASSUME NEW e \in execs, NEW outcome \in TargetStatus, ExecEnd(e, outcome) PROVE TypeOK'
  <2>1. e.run \in Runs /\ e.pos \in Positions
    BY DEF TypeOK, Exec
  <2> DEFINE done == [tstatus[e.run] EXCEPT ![e.pos] = outcome]
  <2> DEFINE ts == IF Stops(e.run, outcome) THEN ClosePending(done, "skipped") ELSE done
  <2> DEFINE st == IF Waits(e.run, e.pos, ts) THEN "paused" ELSE runStatus[e.run]
  <2>2. done \in [Positions -> TargetStatus]
    BY <2>1 DEF TypeOK
  <2>3. ts \in [Positions -> TargetStatus]
    BY <2>2, ClosePendingType DEF TargetStatus, RetryTarget
  <2>4. SettledStatus(st, ts) \in RunStatus
    <3>1. st \in RunStatus
      BY <2>1 DEF TypeOK, RunStatus, LiveStatus
    <3> HIDE DEF st, ts
    <3>2. QED
      BY <3>1, SettledType
  <2>5. HasOpen(ts) \in BOOLEAN
    BY DEF HasOpen
  <2>6. CASE Recordable(e.run, e.pos)
    <3>1. /\ tstatus' = [tstatus EXCEPT ![e.run] = ts]
          /\ runStatus' = [runStatus EXCEPT ![e.run] = SettledStatus(st, ts)]
          /\ finishedAt' = [finishedAt EXCEPT ![e.run] = ~HasOpen(ts)]
          /\ UNCHANGED <<opts, canary, claimedBy, attempt, retries, process, claimTx, reapTx>>
          /\ execs' \subseteq execs
      BY <1>12, <2>6 DEF ExecEnd, Complete
    <3> HIDE DEF ts, st, done
    <3>2. QED
      BY <3>1, <2>1, <2>3, <2>4, <2>5 DEF TypeOK
  <2>7. CASE ~Recordable(e.run, e.pos)
    BY <1>12, <2>7 DEF ExecEnd, Complete, TypeOK, dbvars
  <2>8. QED
    BY <2>6, <2>7
<1>13. ASSUME NEW marked \in SUBSET (Runs \X Positions), ReapRead(marked) PROVE TypeOK'
  <2>1. \A r \in Runs : Interrupted(r, marked) \in [Positions -> TargetStatus]
    BY InterruptedType
  <2>2. QED
    BY <1>13, <2>1 DEF ReapRead, TypeOK, dbvars
<1>14. ASSUME ReapCommit PROVE TypeOK'
  <2>1. \A r \in Runs : Interrupted(r, reapTx.marked) \in [Positions -> TargetStatus]
    BY InterruptedType
  <2>2. \A r \in Runs : SettledStatus(runStatus[r], reapTx.seen[r]) \in RunStatus
    BY SettledType DEF TypeOK
  <2>3. \A r \in Runs : HasOpen(reapTx.seen[r]) \in BOOLEAN
    BY DEF HasOpen
  <2>4. reapTx' \in [open : BOOLEAN, marked : SUBSET (Runs \X Positions),
                     seen : [Runs -> [Positions -> TargetStatus]]]
    BY <1>14 DEF ReapCommit, NoReap, TargetStatus, OpenTarget
  <2>5. QED
    BY <1>14, <2>1, <2>2, <2>3, <2>4 DEF ReapCommit, TypeOK
<1>15. ASSUME ReapAbort PROVE TypeOK'
  BY <1>15 DEF ReapAbort, TypeOK, NoReap, TargetStatus, OpenTarget, dbvars
<1>16. CASE UNCHANGED vars
  BY <1>16 DEF TypeOK, vars, dbvars
<1>17. QED
  BY <1>1, <1>2, <1>3, <1>4, <1>5, <1>6, <1>7, <1>8, <1>9, <1>10, <1>11, <1>12,
     <1>13, <1>14, <1>15, <1>16 DEF Next

\* Every variable keeps its type in every behaviour.
THEOREM TypeCorrect == Spec => []TypeOK
<1>1. QED
  BY InitType, NextType, PTL DEF Spec

---------------------------------------------------------------------------
(* A finished run has no open target *)

LEMMA InitOver == Init => OverInv
<1> SUFFICES ASSUME Init PROVE OverInv
  OBVIOUS
<1>1. TypeOK
  BY InitType
<1>2. ReapSound
  BY DEF Init, ReapSound, NoReap
<1>3. NoneIsPending
  BY DEF Init, NoneIsPending
<1>4. FinishedIsOver
  BY DEF Init, FinishedIsOver, OverStatus
<1>5. QED
  BY <1>1, <1>2, <1>3, <1>4 DEF OverInv

\* The actions of the user on a created run.
LEMMA CancelOver ==
  ASSUME OverInv, NEW r \in Runs, Cancel(r)
  PROVE  ReapSound' /\ NoneIsPending' /\ FinishedIsOver'
<1> DEFINE ts == ClosePending(tstatus[r], "canceled")
<1>1. /\ tstatus' = [tstatus EXCEPT ![r] = ts]
      /\ runStatus' = [runStatus EXCEPT ![r] = SettledStatus("canceling", ts)]
      /\ finishedAt' = [finishedAt EXCEPT ![r] = ~HasOpen(ts)]
      /\ reapTx' = reapTx
      /\ runStatus[r] \in {"running", "paused"}
  BY DEF Cancel
<1>2. \A p \in Positions :
        /\ ts[p] \in OpenTarget => tstatus[r][p] \in OpenTarget
        /\ tstatus[r][p] = "running" => ts[p] = "running"
  BY DEF ClosePending, OpenTarget
<1>3. /\ HasOpen(ts) => SettledStatus("canceling", ts) = "canceling"
      /\ ~HasOpen(ts) => SettledStatus("canceling", ts) \in OverStatus
  BY SettledOver DEF LiveStatus
<1> HIDE DEF ts
<1>4. SettledStatus("canceling", ts) \notin {"none"}
  BY <1>3 DEF OverStatus
<1>5. \A q \in Runs :
        /\ q # r => tstatus'[q] = tstatus[q] /\ runStatus'[q] = runStatus[q] /\ finishedAt'[q] = finishedAt[q]
        /\ tstatus'[r] = ts
        /\ runStatus'[r] = SettledStatus("canceling", ts)
        /\ finishedAt'[r] = ~HasOpen(ts)
  BY <1>1 DEF OverInv, TypeOK
<1>6. ReapSound'
  <2>1. \A x \in reapTx.marked : x[1] \in Runs /\ x[2] \in Positions
    BY DEF OverInv, TypeOK
  <2>2. \A x \in reapTx.marked : x[1] = r => HasOpen(ts)
    BY <1>2, <2>1 DEF OverInv, ReapSound, HasOpen, OpenTarget
  <2>3. "canceling" \in LiveStatus
    BY DEF LiveStatus
  <2>4. ASSUME NEW x \in reapTx.marked
        PROVE  /\ runStatus'[x[1]] \in LiveStatus
               /\ tstatus'[x[1]][x[2]] = "running"
               /\ \A p \in Positions :
                    <<x[1], p>> \notin reapTx.marked /\ tstatus'[x[1]][p] \in OpenTarget
                    => reapTx.seen[x[1]][p] \in OpenTarget
    <3>1. /\ runStatus[x[1]] \in LiveStatus
          /\ tstatus[x[1]][x[2]] = "running"
          /\ \A p \in Positions :
               <<x[1], p>> \notin reapTx.marked /\ tstatus[x[1]][p] \in OpenTarget
               => reapTx.seen[x[1]][p] \in OpenTarget
      BY DEF OverInv, ReapSound
    <3>2. CASE x[1] # r
      BY <1>5, <2>1, <3>1, <3>2
    <3>3. CASE x[1] = r
      <4>1. tstatus'[r] = ts /\ runStatus'[r] = "canceling"
        BY <1>3, <1>5, <2>2, <3>3
      <4>2. ts[x[2]] = "running"
        BY <1>2, <2>1, <3>1, <3>3
      <4>3. QED
        BY <1>2, <2>3, <3>1, <3>3, <4>1, <4>2
    <3>4. QED
      BY <3>2, <3>3
  <2>5. QED
    BY <1>1, <2>4 DEF OverInv, ReapSound
<1>7. NoneIsPending'
  BY <1>4, <1>5 DEF OverInv, NoneIsPending
<1>8. FinishedIsOver'
  BY <1>3, <1>5 DEF OverInv, FinishedIsOver, OverStatus, HasOpen
<1>9. QED
  BY <1>6, <1>7, <1>8

LEMMA RetryOver ==
  ASSUME OverInv, NEW r \in Runs, Retry(r)
  PROVE  ReapSound' /\ NoneIsPending' /\ FinishedIsOver'
<1> DEFINE again == {p \in Positions : tstatus[r][p] \in RetryTarget}
<1> DEFINE ts == [p \in Positions |-> IF p \in again THEN "pending" ELSE tstatus[r][p]]
<1>1. /\ tstatus' = [tstatus EXCEPT ![r] = ts]
      /\ runStatus' = [runStatus EXCEPT ![r] = SettledStatus("running", ts)]
      /\ finishedAt' = [finishedAt EXCEPT ![r] = ~HasOpen(ts)]
      /\ reapTx' = reapTx
      /\ runStatus[r] \in OverStatus
  BY DEF Retry, OverStatus
<1>2. HasOpen(ts)
  BY DEF Retry, HasOpen, OpenTarget
<1> HIDE DEF ts, again
<1>3. SettledStatus("running", ts) = "running"
  BY <1>2, SettledOver DEF LiveStatus
<1>4. \A x \in reapTx.marked : x[1] # r
  <2>1. ~HasOpen(tstatus[r])
    BY <1>1 DEF OverInv, FinishedIsOver
  <2>2. \A x \in reapTx.marked : x[2] \in Positions
    BY DEF OverInv, TypeOK
  <2>3. QED
    BY <2>1, <2>2 DEF OverInv, ReapSound, HasOpen, OpenTarget
<1>5. \A q \in Runs :
        /\ q # r => tstatus'[q] = tstatus[q] /\ runStatus'[q] = runStatus[q] /\ finishedAt'[q] = finishedAt[q]
        /\ tstatus'[r] = ts
        /\ runStatus'[r] = "running"
        /\ finishedAt'[r] = FALSE
  BY <1>1, <1>2, <1>3 DEF OverInv, TypeOK
<1>6. ReapSound'
  BY <1>1, <1>4, <1>5 DEF OverInv, ReapSound, TypeOK
<1>7. NoneIsPending'
  BY <1>5 DEF OverInv, NoneIsPending
<1>8. FinishedIsOver'
  BY <1>5 DEF OverInv, FinishedIsOver, OverStatus
<1>9. QED
  BY <1>6, <1>7, <1>8

\* A claim turns pending targets of running runs into running ones.
LEMMA ClaimOver ==
  ASSUME OverInv, NEW o \in Owners, ClaimCommit(o)
  PROVE  ReapSound' /\ NoneIsPending' /\ FinishedIsOver'
<1>1. PICK taken : /\ ShareOut(o, taken)
                   /\ tstatus' = [r \in Runs |-> [p \in Positions |->
                          IF p \in taken[r] THEN "running" ELSE tstatus[r][p]]]
  BY DEF ClaimCommit, ShareOut
<1>2. UNCHANGED <<runStatus, finishedAt, reapTx>>
  BY DEF ClaimCommit
<1>3. \A r \in Runs, p \in Positions :
        \/ tstatus'[r][p] = tstatus[r][p]
        \/ tstatus'[r][p] = "running" /\ tstatus[r][p] = "pending" /\ runStatus[r] = "running"
  BY <1>1, ShareIsClaimable
<1>4. ReapSound'
  BY <1>2, <1>3 DEF OverInv, ReapSound, TypeOK, OpenTarget
<1>5. NoneIsPending'
  BY <1>2, <1>3 DEF OverInv, NoneIsPending
<1>6. FinishedIsOver'
  BY <1>2, <1>3 DEF OverInv, FinishedIsOver, OverStatus, HasOpen, OpenTarget
<1>7. QED
  BY <1>4, <1>5, <1>6

\* An execution's outcome closes its target, which no reap has marked.
LEMMA ExecEndOver ==
  ASSUME OverInv, NEW e \in execs, NEW outcome \in TargetStatus, ExecEnd(e, outcome)
  PROVE  ReapSound' /\ NoneIsPending' /\ FinishedIsOver'
<1>1. e.run \in Runs /\ e.pos \in Positions
  BY DEF OverInv, TypeOK, Exec
<1> DEFINE r == e.run
<1> DEFINE done == [tstatus[r] EXCEPT ![e.pos] = outcome]
<1> DEFINE ts == IF Stops(r, outcome) THEN ClosePending(done, "skipped") ELSE done
<1> DEFINE st == IF Waits(r, e.pos, ts) THEN "paused" ELSE runStatus[r]
<1>2. CASE ~Recordable(r, e.pos)
  BY <1>2 DEF ExecEnd, Complete, dbvars, OverInv, ReapSound, NoneIsPending, FinishedIsOver
<1>3. CASE Recordable(r, e.pos)
  <2>1. outcome \notin OpenTarget
    BY DEF ExecEnd, Outcomes, OpenTarget, OverInv, TypeOK, Exec
  <2>2. /\ tstatus' = [tstatus EXCEPT ![r] = ts]
        /\ runStatus' = [runStatus EXCEPT ![r] = SettledStatus(st, ts)]
        /\ finishedAt' = [finishedAt EXCEPT ![r] = ~HasOpen(ts)]
        /\ reapTx' = reapTx
        /\ <<r, e.pos>> \notin reapTx.marked
    BY <1>3 DEF ExecEnd, Complete
  <2>3. \A p \in Positions :
          /\ ts[p] \in OpenTarget => tstatus[r][p] \in OpenTarget
          /\ p # e.pos /\ tstatus[r][p] = "running" => ts[p] = "running"
    BY <1>1, <2>1 DEF ClosePending, OpenTarget, OverInv, TypeOK
  <2>4. runStatus[r] \in LiveStatus
    <3>1. HasOpen(tstatus[r]) /\ tstatus[r][e.pos] # "pending" /\ runStatus[r] # "deleted"
      BY <1>1, <1>3 DEF Recordable, HasOpen, OpenTarget
    <3>2. QED
      BY <1>1, <3>1 DEF OverInv, FinishedIsOver, NoneIsPending, TypeOK, RunStatus
  <2>5. st \in LiveStatus
    BY <2>4 DEF LiveStatus
  <2> HIDE DEF st, ts, done
  <2>6. /\ HasOpen(ts) => SettledStatus(st, ts) = st
        /\ ~HasOpen(ts) => SettledStatus(st, ts) \in OverStatus
    BY <2>5, SettledOver
  <2>7. SettledStatus(st, ts) # "none"
    BY <2>5, <2>6 DEF LiveStatus, OverStatus
  <2>8. \A q \in Runs :
          /\ q # r => tstatus'[q] = tstatus[q] /\ runStatus'[q] = runStatus[q] /\ finishedAt'[q] = finishedAt[q]
          /\ tstatus'[r] = ts
          /\ runStatus'[r] = SettledStatus(st, ts)
          /\ finishedAt'[r] = ~HasOpen(ts)
    BY <1>1, <2>2 DEF OverInv, TypeOK
  <2> HIDE DEF r
  <2>9. ReapSound'
    <3>1. \A x \in reapTx.marked : x[1] \in Runs /\ x[2] \in Positions /\ x = <<x[1], x[2]>>
      BY DEF OverInv, TypeOK
    <3>2. ~reapTx.open => reapTx.marked = {}
      BY DEF OverInv, ReapSound
    <3>3. ASSUME NEW x \in reapTx.marked
          PROVE  /\ runStatus'[x[1]] \in LiveStatus
                 /\ tstatus'[x[1]][x[2]] = "running"
                 /\ \A p \in Positions :
                      <<x[1], p>> \notin reapTx.marked /\ tstatus'[x[1]][p] \in OpenTarget
                      => reapTx.seen[x[1]][p] \in OpenTarget
      <4>1. /\ runStatus[x[1]] \in LiveStatus
            /\ tstatus[x[1]][x[2]] = "running"
            /\ \A p \in Positions :
                 <<x[1], p>> \notin reapTx.marked /\ tstatus[x[1]][p] \in OpenTarget
                 => reapTx.seen[x[1]][p] \in OpenTarget
        BY DEF OverInv, ReapSound
      <4>2. CASE x[1] # r
        BY <4>1, <4>2, <3>1, <2>8
      <4>3. CASE x[1] = r
        <5>1. x[2] # e.pos
          BY <4>3, <3>1, <2>2
        <5>2. QED
          <6>1. x[2] \in Positions
            BY <3>1
          <6>2. tstatus[r][x[2]] = "running"
            BY <4>1, <4>3
          <6>3. ts[x[2]] = "running"
            BY <5>1, <6>1, <6>2, <2>3
          <6>4. HasOpen(ts)
            BY <6>1, <6>3 DEF HasOpen, OpenTarget
          <6>5. runStatus'[r] \in LiveStatus /\ tstatus'[r] = ts
            BY <1>1, <2>5, <2>6, <2>8, <6>4
          <6>6. \A p \in Positions :
                  <<r, p>> \notin reapTx.marked /\ ts[p] \in OpenTarget
                  => reapTx.seen[r][p] \in OpenTarget
            BY <4>1, <4>3, <2>3
          <6>7. QED
            BY <4>3, <6>3, <6>5, <6>6
      <4>4. QED
        BY <4>2, <4>3
    <3>4. QED
      BY <2>2, <3>2, <3>3 DEF ReapSound
  <2>10. NoneIsPending'
    BY <2>7, <2>8 DEF OverInv, NoneIsPending
  <2>11. FinishedIsOver'
    BY <2>5, <2>6, <2>8 DEF OverInv, FinishedIsOver, OverStatus, LiveStatus
  <2>12. QED
    BY <2>9, <2>10, <2>11
<1>4. QED
  BY <1>2, <1>3

\* The end of a reap: by ReapSound its stale snapshot had every target that
\* is open now, so a run settled as over really is.
LEMMA ReapCommitOver ==
  ASSUME OverInv, ReapCommit
  PROVE  ReapSound' /\ NoneIsPending' /\ FinishedIsOver'
<1> DEFINE touched == {x[1] : x \in reapTx.marked}
<1>1. /\ tstatus' = [r \in Runs |-> Interrupted(r, reapTx.marked)]
      /\ runStatus' = [r \in Runs |-> IF r \in touched
                         THEN SettledStatus(runStatus[r], reapTx.seen[r]) ELSE runStatus[r]]
      /\ finishedAt' = [r \in Runs |-> IF r \in touched
                          THEN ~HasOpen(reapTx.seen[r]) ELSE finishedAt[r]]
      /\ reapTx' = NoReap
  BY DEF ReapCommit
<1>2. ReapSound'
  BY <1>1 DEF ReapSound, NoReap
<1>3. ASSUME NEW r \in Runs, r \in touched
      PROVE  /\ runStatus[r] \in LiveStatus
             /\ HasOpen(Interrupted(r, reapTx.marked)) => HasOpen(reapTx.seen[r])
  <2>1. PICK x \in reapTx.marked : x[1] = r
    BY <1>3
  <2>2. runStatus[r] \in LiveStatus
    BY <2>1 DEF OverInv, ReapSound
  <2>3. \A p \in Positions :
          Interrupted(r, reapTx.marked)[p] \in OpenTarget => reapTx.seen[r][p] \in OpenTarget
    BY <2>1 DEF OverInv, ReapSound, Interrupted, OpenTarget
  <2>4. QED
    BY <2>2, <2>3 DEF HasOpen
<1>4. NoneIsPending'
  <2>1. ASSUME NEW r \in Runs, runStatus'[r] = "none", NEW p \in Positions
        PROVE  tstatus'[r][p] = "pending"
    <3>1. r \notin touched
      <4>1. SUFFICES ASSUME r \in touched PROVE FALSE
        OBVIOUS
      <4>2. runStatus[r] \in LiveStatus
        BY <1>3, <4>1
      <4>3. SettledStatus(runStatus[r], reapTx.seen[r]) # "none"
        BY <4>2 DEF SettledStatus, LiveStatus
      <4>4. QED
        BY <1>1, <2>1, <4>1, <4>3
    <3>2. <<r, p>> \notin reapTx.marked
      BY <3>1
    <3>3. QED
      BY <1>1, <2>1, <3>1, <3>2 DEF OverInv, NoneIsPending, Interrupted
  <2>2. QED
    BY <2>1 DEF NoneIsPending
<1>5. FinishedIsOver'
  <2>1. ASSUME NEW r \in Runs
        PROVE  /\ runStatus'[r] \in OverStatus => ~HasOpen(tstatus'[r])
               /\ finishedAt'[r] => runStatus'[r] \in OverStatus \cup {"deleted"}
    <3>1. CASE r \in touched
      <4>1. /\ HasOpen(reapTx.seen[r]) => runStatus'[r] = runStatus[r]
            /\ ~HasOpen(reapTx.seen[r]) => runStatus'[r] \in OverStatus
        BY <1>1, <1>3, <3>1, SettledOver
      <4>2. runStatus[r] \notin OverStatus
        BY <1>3, <3>1 DEF LiveStatus, OverStatus
      <4>3. tstatus'[r] = Interrupted(r, reapTx.marked) /\ finishedAt'[r] = ~HasOpen(reapTx.seen[r])
        BY <1>1, <3>1
      <4>4. QED
        BY <1>3, <3>1, <4>1, <4>2, <4>3
    <3>2. CASE r \notin touched
      <4>1. \A p \in Positions : <<r, p>> \notin reapTx.marked
        BY <3>2
      <4>2. \A p \in Positions : tstatus'[r][p] = tstatus[r][p]
        BY <1>1, <4>1 DEF Interrupted
      <4>3. runStatus'[r] = runStatus[r] /\ finishedAt'[r] = finishedAt[r]
        BY <1>1, <3>2
      <4>4. QED
        BY <4>2, <4>3 DEF OverInv, FinishedIsOver, HasOpen
    <3>3. QED
      BY <3>1, <3>2
  <2>2. QED
    BY <2>1 DEF FinishedIsOver
<1>6. QED
  BY <1>2, <1>4, <1>5

LEMMA NextOver == OverInv /\ [Next]_vars => OverInv'
<1> SUFFICES ASSUME OverInv, [Next]_vars PROVE OverInv'
  OBVIOUS
<1> DEFINE Safe == ReapSound /\ NoneIsPending /\ FinishedIsOver
<1>1. TypeOK'
  BY NextType DEF OverInv
<1>2. ASSUME NEW r \in Runs, Create(r) PROVE Safe'
  <2>1. /\ runStatus[r] = "none"
        /\ runStatus' = [runStatus EXCEPT ![r] = "running"]
        /\ UNCHANGED <<finishedAt, tstatus, reapTx>>
    BY <1>2 DEF Create
  <2>2. \A q \in Runs : q # r => runStatus'[q] = runStatus[q]
    BY <2>1
  <2>3. runStatus'[r] = "running"
    BY <2>1 DEF OverInv, TypeOK
  <2>4. \A x \in reapTx.marked : x[1] \in Runs /\ x[1] # r
    BY <2>1 DEF OverInv, TypeOK, ReapSound, LiveStatus
  <2>5. QED
    BY <2>1, <2>2, <2>3, <2>4 DEF OverInv, ReapSound, NoneIsPending, FinishedIsOver, OverStatus
<1>3. ASSUME NEW r \in Runs, Resume(r) PROVE Safe'
  <2>1. /\ runStatus[r] = "paused"
        /\ runStatus' = [runStatus EXCEPT ![r] = "running"]
        /\ UNCHANGED <<finishedAt, tstatus, reapTx>>
    BY <1>3 DEF Resume
  <2>2. \A q \in Runs : q # r => runStatus'[q] = runStatus[q]
    BY <2>1
  <2>3. runStatus'[r] = "running"
    BY <2>1 DEF OverInv, TypeOK
  <2>4. \A x \in reapTx.marked : x[1] \in Runs
    BY DEF OverInv, TypeOK
  <2>5. QED
    BY <2>1, <2>2, <2>3, <2>4
       DEF OverInv, ReapSound, NoneIsPending, FinishedIsOver, OverStatus, LiveStatus
<1>4. ASSUME NEW r \in Runs, PruneFinished(r) PROVE Safe'
  <2>1. /\ finishedAt[r] /\ runStatus[r] # "deleted"
        /\ runStatus' = [runStatus EXCEPT ![r] = "deleted"]
        /\ UNCHANGED <<finishedAt, tstatus, reapTx>>
    BY <1>4 DEF PruneFinished
  <2>2. \A q \in Runs : q # r => runStatus'[q] = runStatus[q]
    BY <2>1
  <2>3. runStatus'[r] = "deleted"
    BY <2>1 DEF OverInv, TypeOK
  <2>4. \A x \in reapTx.marked : x[1] \in Runs /\ x[1] # r
    BY <2>1 DEF OverInv, TypeOK, ReapSound, FinishedIsOver, LiveStatus, OverStatus
  <2>5. QED
    BY <2>1, <2>2, <2>3, <2>4 DEF OverInv, ReapSound, NoneIsPending, FinishedIsOver, OverStatus
<1>5. ASSUME NEW marked \in SUBSET (Runs \X Positions), ReapRead(marked) PROVE Safe'
  <2>1. /\ reapTx' = [open |-> TRUE, marked |-> marked,
                      seen |-> [r \in Runs |-> Interrupted(r, marked)]]
        /\ \A x \in marked : Orphan(x[1], x[2])
        /\ UNCHANGED <<runStatus, finishedAt, tstatus>>
    BY <1>5 DEF ReapRead, dbvars
  <2>2. ASSUME NEW x \in marked
        PROVE  /\ runStatus[x[1]] \in LiveStatus
               /\ tstatus[x[1]][x[2]] = "running"
               /\ \A p \in Positions : <<x[1], p>> \notin marked
                    => Interrupted(x[1], marked)[p] = tstatus[x[1]][p]
    <3>1. x[1] \in Runs /\ x[2] \in Positions
      OBVIOUS
    <3>2. runStatus[x[1]] # "deleted" /\ tstatus[x[1]][x[2]] = "running"
      BY <2>1 DEF Orphan
    <3>3. HasOpen(tstatus[x[1]]) /\ runStatus[x[1]] # "none"
      BY <3>1, <3>2 DEF HasOpen, OpenTarget, OverInv, NoneIsPending
    <3>4. runStatus[x[1]] \in LiveStatus
      BY <3>1, <3>2, <3>3 DEF OverInv, FinishedIsOver, TypeOK, RunStatus
    <3>5. QED
      BY <3>2, <3>4 DEF Interrupted
  <2>3. ReapSound'
    BY <2>1, <2>2 DEF ReapSound
  <2>4. QED
    BY <2>1, <2>3 DEF OverInv, NoneIsPending, FinishedIsOver
<1>6. ASSUME ReapAbort PROVE Safe'
  BY <1>6 DEF ReapAbort, NoReap, dbvars, OverInv, ReapSound, NoneIsPending, FinishedIsOver
<1>7. UNCHANGED <<runStatus, finishedAt, tstatus, reapTx>> => Safe'
  BY DEF OverInv, ReapSound, NoneIsPending, FinishedIsOver
<1>8. ASSUME NEW o \in Owners, ClaimRead(o) \/ StopCanceled(o) \/ Shutdown(o) \/ Die(o)
      PROVE  Safe'
  BY <1>7, <1>8 DEF ClaimRead, StopCanceled, Shutdown, Die, dbvars
<1>9. ASSUME NEW e \in execs, ExecLost(e) PROVE Safe'
  BY <1>7, <1>9 DEF ExecLost, dbvars
<1>10. ASSUME UNCHANGED vars PROVE Safe'
  <2>1. UNCHANGED <<runStatus, finishedAt, tstatus, reapTx>>
    BY <1>10 DEF vars, dbvars
  <2>2. QED
    BY <1>7, <2>1
<1> HIDE DEF Safe
<1>11. Safe'
  BY <1>2, <1>3, <1>4, <1>5, <1>6, <1>8, <1>9, <1>10,
     CancelOver, RetryOver, ClaimOver, ExecEndOver, ReapCommitOver DEF Next, Safe
<1>12. QED
  BY <1>1, <1>11 DEF OverInv, Safe

\* A run that is reported over has no open target, and only such a run can be
\* deleted by retention, whatever transactions overlap its last ones.
THEOREM FinishedSafe == Spec => []FinishedIsOver
<1>1. Spec => []OverInv
  BY InitOver, NextOver, PTL DEF Spec
<1>2. OverInv => FinishedIsOver
  BY DEF OverInv
<1>3. QED
  BY <1>1, <1>2, PTL

---------------------------------------------------------------------------
(* The life of a target *)

\* The only moves a target's status makes.
TargetMove(r, p) ==
  \/ tstatus'[r][p] = tstatus[r][p] /\ retries[r] <= retries'[r]
  \/ /\ tstatus[r][p] = "pending"
     /\ \/ tstatus'[r][p] \in {"canceled", "skipped"}
        \/ tstatus'[r][p] = "running" /\ \E o \in Owners : ClaimCommit(o)
     /\ retries'[r] = retries[r]
  \/ /\ tstatus[r][p] = "running"
     /\ tstatus'[r][p] \in {"succeeded", "failed", "canceled", "unknown"}
     /\ retries'[r] = retries[r]
  \/ /\ tstatus[r][p] \in RetryTarget /\ tstatus'[r][p] = "pending"
     /\ retries'[r] = retries[r] + 1

\* Every step of the system makes only these moves.
LEMMA TargetMoves ==
  ASSUME OverInv, [Next]_vars, NEW r \in Runs, NEW p \in Positions
  PROVE  TargetMove(r, p)
<1>1. retries[r] \in Nat /\ tstatus[r] \in [Positions -> TargetStatus]
  BY DEF OverInv, TypeOK
<1>2. UNCHANGED <<tstatus, retries>> => TargetMove(r, p)
  BY <1>1 DEF TargetMove
<1>3. ASSUME NEW q \in Runs, Create(q) \/ Resume(q) \/ PruneFinished(q) PROVE TargetMove(r, p)
  BY <1>2, <1>3 DEF Create, Resume, PruneFinished
<1>4. ASSUME NEW q \in Runs, Cancel(q) PROVE TargetMove(r, p)
  <2>1. tstatus' = [tstatus EXCEPT ![q] = ClosePending(tstatus[q], "canceled")] /\ retries' = retries
    BY <1>4 DEF Cancel
  <2>2. tstatus'[r] = IF q = r THEN ClosePending(tstatus[r], "canceled") ELSE tstatus[r]
    BY <2>1 DEF OverInv, TypeOK
  <2>3. QED
    BY <1>1, <2>1, <2>2 DEF TargetMove, ClosePending
<1>5. ASSUME NEW q \in Runs, Retry(q) PROVE TargetMove(r, p)
  <2> DEFINE again == {x \in Positions : tstatus[q][x] \in RetryTarget}
  <2> DEFINE ts == [x \in Positions |-> IF x \in again THEN "pending" ELSE tstatus[q][x]]
  <2>1. tstatus' = [tstatus EXCEPT ![q] = ts] /\ retries' = [retries EXCEPT ![q] = retries[q] + 1]
    BY <1>5 DEF Retry
  <2>2. ts[p] = IF tstatus[q][p] \in RetryTarget THEN "pending" ELSE tstatus[q][p]
    OBVIOUS
  <2> HIDE DEF ts
  <2>3. /\ q = r => tstatus'[r] = ts /\ retries'[r] = retries[r] + 1
        /\ q # r => tstatus'[r] = tstatus[r] /\ retries'[r] = retries[r]
    BY <2>1 DEF OverInv, TypeOK
  <2>4. QED
    BY <1>1, <2>2, <2>3 DEF TargetMove
<1>6. ASSUME NEW o \in Owners, ClaimCommit(o) PROVE TargetMove(r, p)
  <2>1. PICK taken : /\ ShareOut(o, taken)
                     /\ tstatus' = [q \in Runs |-> [x \in Positions |->
                            IF x \in taken[q] THEN "running" ELSE tstatus[q][x]]]
    BY <1>6 DEF ClaimCommit, ShareOut
  <2>2. retries' = retries
    BY <1>6 DEF ClaimCommit
  <2>3. QED
    BY <1>1, <1>6, <2>1, <2>2, ShareIsClaimable DEF TargetMove
<1>7. ASSUME NEW o \in Owners, ClaimRead(o) \/ StopCanceled(o) \/ Shutdown(o) \/ Die(o)
      PROVE  TargetMove(r, p)
  BY <1>2, <1>7 DEF ClaimRead, StopCanceled, Shutdown, Die, dbvars
<1>8. ASSUME NEW e \in execs, ExecLost(e) PROVE TargetMove(r, p)
  BY <1>2, <1>8 DEF ExecLost, dbvars
<1>9. ASSUME NEW e \in execs, NEW outcome \in TargetStatus, ExecEnd(e, outcome) PROVE TargetMove(r, p)
  <2> DEFINE done == [tstatus[e.run] EXCEPT ![e.pos] = outcome]
  <2> DEFINE ts == IF Stops(e.run, outcome) THEN ClosePending(done, "skipped") ELSE done
  <2>1. CASE ~Recordable(e.run, e.pos)
    BY <1>2, <1>9, <2>1 DEF ExecEnd, Complete, dbvars
  <2>2. CASE Recordable(e.run, e.pos)
    <3>1. e.run \in Runs /\ e.pos \in Positions
      BY DEF OverInv, TypeOK, Exec
    <3>2. tstatus' = [tstatus EXCEPT ![e.run] = ts] /\ retries' = retries
      BY <1>9, <2>2 DEF ExecEnd, Complete
    <3>3. outcome \in {"succeeded", "failed", "canceled"}
      BY <1>9 DEF ExecEnd, Outcomes, OverInv, TypeOK, Exec
    <3>4. tstatus[e.run][e.pos] = "running" /\ tstatus[e.run] \in [Positions -> TargetStatus]
      BY <3>1, <2>2 DEF Recordable, OverInv, TypeOK
    <3>5. ts[p] = IF p = e.pos THEN outcome
                  ELSE IF Stops(e.run, outcome) /\ tstatus[e.run][p] = "pending"
                  THEN "skipped" ELSE tstatus[e.run][p]
      BY <3>1, <3>3, <3>4 DEF ClosePending
    <3> HIDE DEF ts
    <3>6. tstatus'[r] = IF r = e.run THEN ts ELSE tstatus[r]
      BY <3>1, <3>2 DEF OverInv, TypeOK
    <3>7. QED
      BY <1>1, <3>2, <3>3, <3>4, <3>5, <3>6 DEF TargetMove
  <2>3. QED
    BY <2>1, <2>2
<1>10. ASSUME NEW marked \in SUBSET (Runs \X Positions), ReapRead(marked) PROVE TargetMove(r, p)
  BY <1>2, <1>10 DEF ReapRead, dbvars
<1>11. ASSUME ReapCommit PROVE TargetMove(r, p)
  <2>1. tstatus' = [q \in Runs |-> Interrupted(q, reapTx.marked)] /\ retries' = retries
    BY <1>11 DEF ReapCommit
  <2>2. <<r, p>> \in reapTx.marked => tstatus[r][p] = "running"
    BY DEF OverInv, ReapSound
  <2>3. QED
    BY <1>1, <2>1, <2>2 DEF TargetMove, Interrupted
<1>12. ASSUME ReapAbort PROVE TargetMove(r, p)
  BY <1>2, <1>12 DEF ReapAbort, dbvars
<1>13. ASSUME UNCHANGED vars PROVE TargetMove(r, p)
  <2>1. UNCHANGED <<tstatus, retries>>
    BY <1>13 DEF vars, dbvars
  <2>2. QED
    BY <1>2, <2>1
<1>14. QED
  BY <1>3, <1>4, <1>5, <1>6, <1>7, <1>8, <1>9, <1>10, <1>11, <1>12, <1>13 DEF Next

\* A recorded success is final in every behaviour.
THEOREM SuccessIsKept == Spec => SuccessKept
<1>1. OverInv /\ [Next]_vars
        => [\A r \in Runs, p \in Positions :
              tstatus[r][p] = "succeeded" => tstatus'[r][p] = "succeeded"]_vars
  <2> SUFFICES ASSUME OverInv, [Next]_vars, NEW r \in Runs, NEW p \in Positions,
                      tstatus[r][p] = "succeeded"
               PROVE  tstatus'[r][p] = "succeeded"
    OBVIOUS
  <2>1. TargetMove(r, p)
    BY TargetMoves
  <2>2. QED
    BY <2>1 DEF TargetMove, RetryTarget
<1>2. QED
  BY <1>1, InitOver, NextOver, PTL DEF Spec, SuccessKept

---------------------------------------------------------------------------
(* How often a target is started, and when *)

\* A pending target still has its start of this request to come.
StartsInv ==
  /\ AtMostOncePerRequest
  /\ \A r \in Runs, p \in Positions : tstatus[r][p] = "pending" => attempt[r][p] <= retries[r]
  /\ CanaryFirst

LEMMA NextStarts == OverInv /\ StartsInv /\ [Next]_vars => StartsInv'
<1> SUFFICES ASSUME OverInv, StartsInv, [Next]_vars PROVE StartsInv'
  OBVIOUS
<1>1. \A r \in Runs, p \in Positions :
        /\ attempt[r][p] \in Nat /\ retries[r] \in Nat
        /\ attempt[r][p] <= 1 + retries[r]
        /\ tstatus[r][p] = "pending" => attempt[r][p] <= retries[r]
        /\ canary[r] /\ p # 0 => attempt[r][p] = 0
  BY DEF OverInv, TypeOK, StartsInv, AtMostOncePerRequest, CanaryFirst
<1>2. \A r \in Runs, p \in Positions : TargetMove(r, p)
  BY TargetMoves
<1>3. \A r \in Runs : canary'[r] => canary[r]
  BY DEF Next, Create, Resume, Cancel, Retry, PruneFinished, ClaimRead, ClaimCommit, StopCanceled,
     Shutdown, Die, ExecLost, ExecEnd, Complete, ReapRead, ReapCommit, ReapAbort, vars, dbvars,
     OverInv, TypeOK
<1>4. CASE \E o \in Owners : ClaimCommit(o)
  <2>1. PICK o \in Owners : ClaimCommit(o)
    BY <1>4
  <2>2. PICK taken :
          /\ ShareOut(o, taken)
          /\ tstatus' = [r \in Runs |-> [p \in Positions |->
                 IF p \in taken[r] THEN "running" ELSE tstatus[r][p]]]
          /\ attempt' = [r \in Runs |-> [p \in Positions |->
                 IF p \in taken[r] THEN attempt[r][p] + 1 ELSE attempt[r][p]]]
    BY <2>1 DEF ClaimCommit, ShareOut
  <2>3. canary' = canary /\ retries' = retries
    BY <2>1 DEF ClaimCommit
  <2>4. ASSUME NEW r \in Runs, NEW p \in Positions
        PROVE  /\ attempt'[r][p] <= 1 + retries'[r]
               /\ tstatus'[r][p] = "pending" => attempt'[r][p] <= retries'[r]
               /\ canary'[r] /\ p # 0 => attempt'[r][p] = 0
    <3>1. CASE p \in taken[r]
      <4>1. tstatus[r][p] = "pending" /\ (canary[r] => p = 0)
        BY <2>2, <3>1, ShareIsClaimable
      <4>2. attempt'[r][p] = attempt[r][p] + 1 /\ tstatus'[r][p] = "running"
        BY <2>2, <3>1
      <4>3. QED
        BY <1>1, <2>3, <4>1, <4>2
    <3>2. CASE p \notin taken[r]
      <4>1. attempt'[r][p] = attempt[r][p] /\ tstatus'[r][p] = tstatus[r][p]
        BY <2>2, <3>2
      <4>2. QED
        BY <1>1, <2>3, <4>1
    <3>3. QED
      BY <3>1, <3>2
  <2>5. QED
    BY <2>4 DEF StartsInv, AtMostOncePerRequest, CanaryFirst
<1>5. CASE ~\E o \in Owners : ClaimCommit(o)
  <2>1. attempt' = attempt
    BY <1>5 DEF Next, Create, Resume, Cancel, Retry, PruneFinished, ClaimRead, StopCanceled,
       Shutdown, Die, ExecLost, ExecEnd, Complete, ReapRead, ReapCommit, ReapAbort, vars, dbvars
  <2>2. ASSUME NEW r \in Runs, NEW p \in Positions
        PROVE  /\ attempt'[r][p] <= 1 + retries'[r]
               /\ tstatus'[r][p] = "pending" => attempt'[r][p] <= retries'[r]
               /\ canary'[r] /\ p # 0 => attempt'[r][p] = 0
    <3>1. retries'[r] \in Nat
      BY NextType DEF OverInv, TypeOK
    <3>2. QED
      BY <1>1, <1>2, <1>3, <2>1, <3>1 DEF TargetMove
  <2>3. QED
    BY <2>2 DEF StartsInv, AtMostOncePerRequest, CanaryFirst
<1>6. QED
  BY <1>4, <1>5

\* No target is started more often than the user asked for, and as long as a
\* run is a canary only its first target has been started.
THEOREM StartsBounded == Spec => []StartsAsRequested
<1>1. Init => StartsInv
  BY DEF Init, StartsInv, AtMostOncePerRequest, CanaryFirst
<1>2. StartsInv => StartsAsRequested
  BY DEF StartsInv, StartsAsRequested
<1>3. QED
  BY <1>1, <1>2, InitOver, NextOver, NextStarts, PTL DEF Spec
---------------------------------------------------------------------------
(* The concurrency of one replica *)

Below(S, x) == {y \in S : y < x}

\* The n lowest of a finite set of numbers are at most n: each is determined
\* by how many of the set are below it.
LEMMA LowestCardinality ==
  ASSUME NEW S, S \subseteq Nat, IsFiniteSet(S), NEW n \in Nat
  PROVE  IsFiniteSet(Lowest(S, n)) /\ Cardinality(Lowest(S, n)) <= n
<1> DEFINE L == Lowest(S, n)
           rank == [x \in L |-> Cardinality(Below(S, x))]
<1>1. ASSUME NEW x \in S
      PROVE  IsFiniteSet(Below(S, x)) /\ Cardinality(Below(S, x)) \in Nat
  BY FS_Subset, FS_CardinalityType DEF Below
<1>2. L \subseteq S /\ \A x \in L : Cardinality(Below(S, x)) < n
  BY DEF Lowest, Below
<1> HIDE DEF L
<1>3. ASSUME NEW x \in L, NEW y \in L, x < y PROVE rank[x] # rank[y]
  <2>1. x \in S /\ y \in S /\ x \in Nat /\ y \in Nat
    BY <1>2
  <2>2. Below(S, x) \subseteq Below(S, y)
    <3> SUFFICES ASSUME NEW z \in S, z < x PROVE z < y
      BY DEF Below
    <3>1. z \in Nat
      OBVIOUS
    <3>2. QED
      BY <1>3, <2>1, <3>1
  <2>3. x \in Below(S, y)
    BY <1>3, <2>1 DEF Below
  <2>4. x \notin Below(S, x)
    BY <2>1 DEF Below
  <2>5. Cardinality(Below(S, y)) # Cardinality(Below(S, x))
    BY <1>1, <2>1, <2>2, <2>3, <2>4, FS_Subset
  <2>6. QED
    BY <2>5
<1>4. rank \in [L -> 0 .. (n - 1)]
  <2>1. ASSUME NEW x \in L PROVE Cardinality(Below(S, x)) \in 0 .. (n - 1)
    <3>1. Cardinality(Below(S, x)) \in Nat /\ Cardinality(Below(S, x)) < n
      BY <1>1, <1>2
    <3>2. QED
      BY <3>1
  <2>2. QED
    BY <2>1
<1>5. rank \in Injection(L, 0 .. (n - 1))
  <2>1. ASSUME NEW x \in L, NEW y \in L, rank[x] = rank[y] PROVE x = y
    <3>1. x \in Nat /\ y \in Nat
      BY <1>2
    <3>2. ~(x < y) /\ ~(y < x)
      BY <1>3, <2>1
    <3>3. QED
      BY <3>1, <3>2
  <2>2. QED
    BY <1>4, <2>1 DEF Injection, IsInjective
<1>6. IsFiniteSet(0 .. (n - 1)) /\ Cardinality(0 .. (n - 1)) = n
  BY FS_Interval
<1>7. IsFiniteSet(L) /\ Cardinality(L) <= n
  BY <1>5, <1>6, FS_Injection
<1>8. QED
  BY <1>7 DEF L

\* The targets a replica runs of r, by what the table says.
Held(r, o) == {p \in RunningAt(r) : claimedBy[r][p] = o}

\* While a claim is open, its replica runs of each listed run nothing but what
\* the claim has counted: only the claim itself could add to it.
CountsHold ==
  \A r \in Runs, o \in Owners :
    claimTx[o].open /\ r \in claimTx[o].listed => Held(r, o) \subseteq claimTx[o].running[r]

ConcurrencyInv == OwnerConcurrency /\ CountsHold

LEMMA FinitePositions ==
  ASSUME NEW S, S \subseteq Positions
  PROVE  S \subseteq Nat /\ IsFiniteSet(S) /\ Cardinality(S) \in Nat
<1>1. N - 1 \in Int /\ Positions \subseteq Nat
  BY FleetAssumption DEF Positions
<1>2. IsFiniteSet(Positions)
  BY <1>1, FS_Interval DEF Positions
<1>3. IsFiniteSet(S)
  BY <1>2, FS_Subset
<1>4. QED
  BY <1>1, <1>3, FS_CardinalityType

\* A claim hands out of a run no more than the slots left by its own count.
LEMMA ShareIsBounded ==
  ASSUME TypeOK, NEW o \in Owners, NEW taken, ShareOut(o, taken), NEW r \in Runs
  PROVE  /\ IsFiniteSet(taken[r])
         /\ taken[r] # {} => Cardinality(taken[r]) + Cardinality(claimTx[o].running[r]) <= opts[r].concurrency
<1>1. opts[r].concurrency \in Nat \ {0} /\ claimTx[o].running[r] \subseteq Positions /\ claimTx[o].max \in Nat
  BY FleetAssumption DEF TypeOK, OptionType
<1> DEFINE c == Cardinality(claimTx[o].running[r])
           n == Least(Free(o, r), Left(o, taken, r))
           S == Claimable(r)
<1>2. c \in Nat
  BY <1>1, FinitePositions
<1>3. taken[r] \subseteq Positions /\ taken[r] = Share(o, taken, r)
  BY DEF ShareOut
<1>4. IsFiniteSet(taken[r])
  BY <1>3, FinitePositions
<1>5. Free(o, r) \in Int /\ Free(o, r) + c <= opts[r].concurrency
  BY <1>1, <1>2 DEF Free
<1>6. ASSUME taken[r] # {} PROVE Cardinality(taken[r]) + c <= opts[r].concurrency
  <2>1. taken[r] = Lowest(S, n)
    BY <1>3, <1>6 DEF Share
  <2>2. S \subseteq Positions
    BY DEF Claimable
  <2>3. PICK x \in S : Cardinality({y \in S : y < x}) < n
    BY <1>6, <2>1 DEF Lowest
  <2>4. Cardinality({y \in S : y < x}) \in Nat
    BY <2>2, FinitePositions
  <2>5. Left(o, taken, r) \in Int
    <3> DEFINE others == {y \in Runs \X Positions : y[1] < r /\ y[2] \in taken[y[1]]}
    <3>1. IsFiniteSet(Runs) /\ IsFiniteSet(Positions)
      BY FleetAssumption, FinitePositions
    <3>2. IsFiniteSet(Runs \X Positions)
      BY <3>1, FS_Product
    <3>3. Cardinality(others) \in Nat
      BY <3>2, FS_Subset, FS_CardinalityType
    <3>4. QED
      BY <1>1, <3>3 DEF Left
  <2>6. n \in Nat /\ n <= Free(o, r)
    BY <1>5, <2>3, <2>4, <2>5 DEF Least
  <2> HIDE DEF n, S
  <2>7. Cardinality(taken[r]) <= n
    BY <2>1, <2>2, <2>6, FinitePositions, LowestCardinality
  <2>8. Cardinality(taken[r]) \in Nat
    BY <1>3, FinitePositions
  <2>9. QED
    BY <1>1, <1>2, <1>5, <2>6, <2>7, <2>8
<1>7. QED
  BY <1>4, <1>6

\* Only a replica's own claim adds to what it runs.
LEMMA HeldByClaim ==
  ASSUME OverInv, [Next]_vars, NEW r \in Runs, NEW o \in Owners, ~ClaimCommit(o)
  PROVE  Held(r, o)' \subseteq Held(r, o)
<1> SUFFICES ASSUME NEW p \in Positions, tstatus'[r][p] = "running", claimedBy'[r][p] = o
             PROVE  tstatus[r][p] = "running" /\ claimedBy[r][p] = o
  BY DEF Held, RunningAt
<1>0. TypeOK /\ Nobody \notin Owners
  BY FleetAssumption DEF OverInv
<1>1. CASE \E q \in Owners : ClaimCommit(q)
  <2>1. PICK q \in Owners : ClaimCommit(q)
    BY <1>1
  <2>2. PICK taken : /\ tstatus' = [x \in Runs |-> [y \in Positions |->
                            IF y \in taken[x] THEN "running" ELSE tstatus[x][y]]]
                     /\ claimedBy' = [x \in Runs |-> [y \in Positions |->
                            IF y \in taken[x] THEN q ELSE claimedBy[x][y]]]
    BY <2>1 DEF ClaimCommit
  <2>3. q # o
    BY <2>1
  <2>4. QED
    BY <2>2, <2>3
<1>2. CASE ~\E q \in Owners : ClaimCommit(q)
  <2>1. TargetMove(r, p)
    BY TargetMoves
  <2>2. tstatus[r][p] = "running"
    BY <1>2, <2>1 DEF TargetMove, RetryTarget
  <2>3. claimedBy'[r][p] \in {claimedBy[r][p], Nobody}
    <3>1. ASSUME NEW q \in Runs, Retry(q) PROVE claimedBy'[r][p] \in {claimedBy[r][p], Nobody}
      <4> DEFINE again == {x \in Positions : tstatus[q][x] \in RetryTarget}
                 by == [x \in Positions |-> IF x \in again THEN Nobody ELSE claimedBy[q][x]]
      <4>1. claimedBy' = [claimedBy EXCEPT ![q] = by]
        BY <3>1 DEF Retry
      <4>2. by[p] \in {claimedBy[q][p], Nobody}
        OBVIOUS
      <4> HIDE DEF by
      <4>3. QED
        BY <1>0, <4>1, <4>2 DEF TypeOK
    <3>2. ASSUME ~\E q \in Runs : Retry(q) PROVE claimedBy' = claimedBy
      BY <1>2, <3>2 DEF Next, Create, Resume, Cancel, PruneFinished, ClaimRead, StopCanceled,
         Shutdown, Die, ExecLost, ExecEnd, Complete, ReapRead, ReapCommit, ReapAbort, vars, dbvars
    <3>3. QED
      BY <3>1, <3>2
  <2>4. QED
    BY <1>0, <2>2, <2>3
<1>3. QED
  BY <1>1, <1>2

LEMMA NextConcurrency == OverInv /\ ConcurrencyInv /\ [Next]_vars => ConcurrencyInv'
<1> SUFFICES ASSUME OverInv, ConcurrencyInv, [Next]_vars PROVE ConcurrencyInv'
  OBVIOUS
<1>1. TypeOK /\ TypeOK' /\ OwnerConcurrency /\ CountsHold
  BY NextType DEF OverInv, ConcurrencyInv
<1>2. opts' = opts
  BY DEF Next, Create, Resume, Cancel, Retry, PruneFinished, ClaimRead, ClaimCommit, StopCanceled,
     Shutdown, Die, ExecLost, ExecEnd, Complete, ReapRead, ReapCommit, ReapAbort, vars, dbvars
<1>3. ASSUME NEW r \in Runs, NEW o \in Owners
      PROVE  /\ Held(r, o) \subseteq Positions /\ Held(r, o)' \subseteq Positions
             /\ Cardinality(Held(r, o)) \in Nat /\ Cardinality(Held(r, o)') \in Nat
             /\ Cardinality(Held(r, o)) <= opts[r].concurrency
             /\ opts[r].concurrency \in Nat
  <2>1. Held(r, o) \subseteq Positions /\ Held(r, o)' \subseteq Positions
    BY DEF Held, RunningAt
  <2>2. Cardinality(Held(r, o)) <= opts[r].concurrency
    BY <1>1 DEF OwnerConcurrency, Held
  <2>3. opts[r].concurrency \in Nat
    BY <1>1, FleetAssumption DEF TypeOK, OptionType
  <2>4. QED
    BY <2>1, <2>2, <2>3, FinitePositions
<1>4. ASSUME NEW r \in Runs, NEW o \in Owners
      PROVE  Cardinality(Held(r, o)') <= opts[r].concurrency
  <2>1. CASE ClaimCommit(o)
    <3>1. PICK taken :
            /\ ShareOut(o, taken)
            /\ tstatus' = [x \in Runs |-> [p \in Positions |-> IF p \in taken[x] THEN "running" ELSE tstatus[x][p]]]
            /\ claimedBy' = [x \in Runs |-> [p \in Positions |-> IF p \in taken[x] THEN o ELSE claimedBy[x][p]]]
      BY <2>1 DEF ClaimCommit, ShareOut
    <3>2. Held(r, o)' \subseteq Held(r, o) \cup taken[r]
      BY <3>1 DEF Held, RunningAt
    <3>3. CASE taken[r] = {}
      BY <1>3, <3>2, <3>3, FinitePositions, FS_Subset
    <3>4. CASE taken[r] # {}
      <4>1. taken[r] \subseteq Positions /\ claimTx[o].open /\ r \in claimTx[o].listed
        BY <2>1, <3>1, <3>4, ShareIsClaimable DEF ClaimCommit, ShareOut
      <4> DEFINE c == claimTx[o].running[r]
      <4>2. Held(r, o) \subseteq c /\ c \subseteq Positions
        BY <1>1, <4>1 DEF CountsHold, TypeOK
      <4>3. Cardinality(taken[r]) + Cardinality(c) <= opts[r].concurrency
        BY <1>1, <3>1, <3>4, ShareIsBounded
      <4> HIDE DEF c
      <4>4. /\ IsFiniteSet(c \cup taken[r]) /\ Cardinality(c \cap taken[r]) \in Nat
            /\ Cardinality(c) \in Nat /\ Cardinality(taken[r]) \in Nat
        BY <4>1, <4>2, FinitePositions, FS_Union
      <4>5. Cardinality(c \cup taken[r]) = Cardinality(c) + Cardinality(taken[r]) - Cardinality(c \cap taken[r])
        BY <4>1, <4>2, FinitePositions, FS_Union
      <4>6. Cardinality(Held(r, o)') <= Cardinality(c \cup taken[r])
        BY <3>2, <4>2, <4>4, FS_Subset
      <4>7. QED
        BY <1>3, <4>3, <4>4, <4>5, <4>6
    <3>5. QED
      BY <3>3, <3>4
  <2>2. CASE ~ClaimCommit(o)
    <3>1. Held(r, o)' \subseteq Held(r, o)
      BY <2>2, HeldByClaim
    <3>2. Cardinality(Held(r, o)') <= Cardinality(Held(r, o))
      BY <1>3, <3>1, FinitePositions, FS_Subset
    <3>3. QED
      BY <1>3, <3>2
  <2>3. QED
    BY <2>1, <2>2
<1>5. OwnerConcurrency'
  BY <1>2, <1>4 DEF OwnerConcurrency, Held
<1>6. ASSUME NEW r \in Runs, NEW o \in Owners, claimTx'[o].open, r \in claimTx'[o].listed
      PROVE  Held(r, o)' \subseteq claimTx'[o].running[r]
  <2>1. CASE ClaimRead(o)
    <3>1. claimTx'[o].listed = {x \in Runs : runStatus[x] = "running"}
          /\ claimTx'[o].running = [x \in Runs |-> IF runStatus[x] = "running" THEN RunningAt(x) ELSE {}]
          /\ UNCHANGED <<tstatus, claimedBy>>
      BY <1>1, <2>1 DEF ClaimRead, TypeOK, dbvars
    <3>2. claimTx'[o].running[r] = RunningAt(r)
      BY <1>6, <3>1
    <3>3. QED
      BY <3>1, <3>2 DEF Held, RunningAt
  <2>2. CASE ~ClaimRead(o)
    <3>1. claimTx'[o] = claimTx[o] \/ claimTx'[o] = NoClaim
      BY <1>1, <2>2 DEF Next, Create, Resume, Cancel, Retry, PruneFinished, ClaimRead, ClaimCommit,
         StopCanceled, Shutdown, Die, ExecLost, ExecEnd, Complete, ReapRead, ReapCommit, ReapAbort,
         vars, dbvars, TypeOK
    <3>2. claimTx'[o] = claimTx[o]
      BY <1>6, <3>1 DEF NoClaim
    <3>3. ~ClaimCommit(o)
      BY <1>1, <1>6 DEF ClaimCommit, NoClaim, TypeOK
    <3>4. Held(r, o)' \subseteq Held(r, o)
      BY <3>3, HeldByClaim
    <3>5. QED
      BY <1>1, <1>6, <3>2, <3>4 DEF CountsHold
  <2>3. QED
    BY <2>1, <2>2
<1>7. CountsHold'
  BY <1>6 DEF CountsHold
<1>8. QED
  BY <1>5, <1>7 DEF ConcurrencyInv

\* However outdated the count it works on, no replica runs more targets of a
\* run at once than the run's concurrency.
THEOREM ConcurrencyOfOwner == Spec => []OwnerConcurrency
<1>1. Init => ConcurrencyInv
  <2> SUFFICES ASSUME Init PROVE ConcurrencyInv
    OBVIOUS
  <2>1. \A r \in Runs, o \in Owners : Held(r, o) = {} /\ ~claimTx[o].open
    BY DEF Init, Held, RunningAt, NoClaim
  <2>2. \A r \in Runs : opts[r].concurrency \in Nat
    BY FleetAssumption DEF Init, OptionType
  <2>3. QED
    <3>1. \A r \in Runs, o \in Owners : Cardinality(Held(r, o)) <= opts[r].concurrency
      <4> SUFFICES ASSUME NEW r \in Runs, NEW o \in Owners
                   PROVE  Cardinality(Held(r, o)) <= opts[r].concurrency
        OBVIOUS
      <4>1. Cardinality(Held(r, o)) = 0 /\ opts[r].concurrency \in Nat
        BY <2>1, <2>2, FS_EmptySet
      <4>2. QED
        BY <4>1
    <3>2. QED
      BY <2>1, <3>1 DEF ConcurrencyInv, OwnerConcurrency, CountsHold, Held
<1>2. ConcurrencyInv => OwnerConcurrency
  BY DEF ConcurrencyInv
<1>3. QED
  BY <1>1, <1>2, InitOver, NextOver, NextConcurrency, PTL DEF Spec

---------------------------------------------------------------------------
(* Executions in memory, and the targets they are of *)

\* The execution is of the current attempt of its target, which no reap has
\* marked, and the only one of it.
CurrentExec(e) ==
  /\ tstatus[e.run][e.pos] = "running"
  /\ claimedBy[e.run][e.pos] = e.owner
  /\ attempt[e.run][e.pos] = e.attempt
  /\ <<e.run, e.pos>> \notin reapTx.marked

OneExecPerTarget == \A e, f \in execs : e.run = f.run /\ e.pos = f.pos => e = f

ExecsSound == (\A e \in execs : CurrentExec(e)) /\ OneExecPerTarget

ExecsInv == "overrun" \notin Faults => ExecsSound

\* What changes no target keeps the executions that stay, told or not.
LEMMA ExecsStay ==
  ASSUME ExecsSound, UNCHANGED <<tstatus, claimedBy, attempt>>, reapTx'.marked \subseteq reapTx.marked,
         \A f \in execs' : \E e \in execs : f = e \/ \E why \in {"cancel", "shutdown"} : f = Told(e, why),
         \A e, f \in execs' : e.run = f.run /\ e.pos = f.pos => e = f,
         execs \subseteq Exec
  PROVE  ExecsSound'
<1>1. ASSUME NEW f \in execs' PROVE CurrentExec(f)'
  <2>1. PICK e \in execs : f = e \/ \E why \in {"cancel", "shutdown"} : f = Told(e, why)
    OBVIOUS
  <2>2. f.run = e.run /\ f.pos = e.pos /\ f.owner = e.owner /\ f.attempt = e.attempt
    BY <2>1, ToldType
  <2> QED BY <2>2 DEF ExecsSound, CurrentExec
<1> QED BY <1>1 DEF ExecsSound, OneExecPerTarget

\* What takes executions away, and touches no target, keeps the others.
LEMMA FewerExecs ==
  ASSUME ExecsSound, UNCHANGED <<tstatus, claimedBy, attempt>>, reapTx'.marked \subseteq reapTx.marked,
         execs' \subseteq execs
  PROVE  ExecsSound'
BY DEF ExecsSound, CurrentExec, OneExecPerTarget

LEMMA ClaimExecs ==
  ASSUME OverInv, ExecsSound, NEW o \in Owners, ClaimCommit(o)
  PROVE  ExecsSound'
<1>1. PICK taken :
        /\ ShareOut(o, taken)
        /\ tstatus' = [r \in Runs |-> [p \in Positions |->
              IF p \in taken[r] THEN "running" ELSE tstatus[r][p]]]
        /\ claimedBy' = [r \in Runs |-> [p \in Positions |->
              IF p \in taken[r] THEN o ELSE claimedBy[r][p]]]
        /\ attempt' = [r \in Runs |-> [p \in Positions |->
              IF p \in taken[r] THEN attempt[r][p] + 1 ELSE attempt[r][p]]]
        /\ execs' = execs \cup
              {[owner |-> o, run |-> x[1], pos |-> x[2], attempt |-> attempt[x[1]][x[2]] + 1,
                stop |-> IF process[o] = "stopping" THEN "shutdown" ELSE "no"] :
                  x \in {y \in Runs \X Positions : y[2] \in taken[y[1]]}}
  BY DEF ClaimCommit, ShareOut
<1>2. reapTx' = reapTx /\ \A x \in reapTx.marked : tstatus[x[1]][x[2]] = "running"
  BY DEF ClaimCommit, OverInv, ReapSound
<1>3. \A r \in Runs, p \in Positions : p \in taken[r] => tstatus[r][p] = "pending"
  BY <1>1, ShareIsClaimable
<1> DEFINE new == {[owner |-> o, run |-> x[1], pos |-> x[2], attempt |-> attempt[x[1]][x[2]] + 1,
                    stop |-> IF process[o] = "stopping" THEN "shutdown" ELSE "no"] :
                      x \in {y \in Runs \X Positions : y[2] \in taken[y[1]]}}
<1>4. ASSUME NEW e \in execs
      PROVE  CurrentExec(e)' /\ e.pos \notin taken[e.run] /\ e.run \in Runs /\ e.pos \in Positions
  <2>1. e.run \in Runs /\ e.pos \in Positions
    BY DEF OverInv, TypeOK, Exec
  <2>2. e.pos \notin taken[e.run]
    BY <1>3, <2>1 DEF ExecsSound, CurrentExec
  <2> QED BY <1>1, <1>2, <2>1, <2>2 DEF ExecsSound, CurrentExec
<1>5. ASSUME NEW e \in new
      PROVE  /\ CurrentExec(e)' /\ e.run \in Runs /\ e.pos \in Positions /\ e.pos \in taken[e.run]
             /\ e = [owner |-> o, run |-> e.run, pos |-> e.pos, attempt |-> attempt[e.run][e.pos] + 1,
                     stop |-> IF process[o] = "stopping" THEN "shutdown" ELSE "no"]
  <2>1. PICK r \in Runs, p \in Positions :
          /\ p \in taken[r]
          /\ e = [owner |-> o, run |-> r, pos |-> p, attempt |-> attempt[r][p] + 1,
                  stop |-> IF process[o] = "stopping" THEN "shutdown" ELSE "no"]
    OBVIOUS
  <2>2. e.run = r /\ e.pos = p /\ e.owner = o /\ e.attempt = attempt[r][p] + 1
    BY <2>1
  <2>3. <<r, p>> \notin reapTx.marked
    BY <1>2, <1>3, <2>1
  <2> QED BY <1>1, <1>2, <2>1, <2>2, <2>3 DEF CurrentExec
<1>6. execs' = execs \cup new
  BY <1>1
<1> HIDE DEF new
<1>7. ASSUME NEW e \in execs', NEW f \in execs', e.run = f.run, e.pos = f.pos PROVE e = f
  <2>1. CASE e \in execs /\ f \in execs
    BY <1>7, <2>1 DEF ExecsSound, OneExecPerTarget
  <2>2. CASE e \in new /\ f \in new
    BY <1>5, <1>7, <2>2
  <2>3. ~(e \in execs /\ f \in new) /\ ~(e \in new /\ f \in execs)
    BY <1>4, <1>5, <1>7
  <2> QED BY <1>6, <2>1, <2>2, <2>3
<1> QED BY <1>4, <1>5, <1>6, <1>7 DEF ExecsSound, OneExecPerTarget

\* How the end of an execution is recorded.
LEMMA CompleteMoves ==
  ASSUME TypeOK, NEW e \in execs, NEW outcome \in TargetStatus, ExecEnd(e, outcome), Recordable(e.run, e.pos)
  PROVE  /\ e.run \in Runs /\ e.pos \in Positions
         /\ outcome \in {"succeeded", "failed", "canceled"}
         /\ outcome = "canceled" => e.stop # "no"
         /\ outcome = "failed" => e.stop # "cancel"
         /\ \A p \in Positions :
              tstatus'[e.run][p] = IF p = e.pos THEN outcome
                                   ELSE IF Stops(e.run, outcome) /\ tstatus[e.run][p] = "pending"
                                   THEN "skipped" ELSE tstatus[e.run][p]
         /\ runStatus'[e.run] =
              SettledStatus(IF Waits(e.run, e.pos, tstatus'[e.run]) THEN "paused" ELSE runStatus[e.run],
                            tstatus'[e.run])
         /\ \A r \in Runs : r # e.run => tstatus'[r] = tstatus[r] /\ runStatus'[r] = runStatus[r]
         /\ UNCHANGED <<opts, canary, claimedBy, attempt, retries>>
<1> DEFINE done == [tstatus[e.run] EXCEPT ![e.pos] = outcome]
<1> DEFINE ts == IF Stops(e.run, outcome) THEN ClosePending(done, "skipped") ELSE done
<1>1. e.run \in Runs /\ e.pos \in Positions /\ e \in Exec
  BY DEF TypeOK, Exec
<1>2. outcome \in Outcomes(e)
  BY DEF ExecEnd
<1>3. /\ outcome \in {"succeeded", "failed", "canceled"}
      /\ outcome = "canceled" => e.stop # "no"
      /\ outcome = "failed" => e.stop # "cancel"
  BY <1>1, <1>2 DEF Outcomes, Exec
<1>4. /\ tstatus' = [tstatus EXCEPT ![e.run] = ts]
      /\ runStatus' = [runStatus EXCEPT ![e.run] =
                         SettledStatus(IF Waits(e.run, e.pos, ts) THEN "paused" ELSE @, ts)]
      /\ UNCHANGED <<opts, canary, claimedBy, attempt, retries>>
  BY DEF ExecEnd, Complete
<1>5. tstatus[e.run] \in [Positions -> TargetStatus]
  BY <1>1 DEF TypeOK
<1>6. \A p \in Positions :
        ts[p] = IF p = e.pos THEN outcome
                ELSE IF Stops(e.run, outcome) /\ tstatus[e.run][p] = "pending"
                THEN "skipped" ELSE tstatus[e.run][p]
  BY <1>1, <1>3, <1>5 DEF ClosePending
<1> HIDE DEF ts
<1>7. tstatus'[e.run] = ts /\ \A r \in Runs : r # e.run => tstatus'[r] = tstatus[r] /\ runStatus'[r] = runStatus[r]
  BY <1>1, <1>4 DEF TypeOK
<1>8. runStatus'[e.run] = SettledStatus(IF Waits(e.run, e.pos, ts) THEN "paused" ELSE runStatus[e.run], ts)
  BY <1>1, <1>4 DEF TypeOK
<1> QED BY <1>1, <1>3, <1>4, <1>6, <1>7, <1>8

LEMMA NextExecs == OverInv /\ ExecsInv /\ [Next]_vars => ExecsInv'
<1> SUFFICES ASSUME "overrun" \notin Faults, OverInv, ExecsSound, [Next]_vars PROVE ExecsSound'
  BY DEF ExecsInv
<1>1. execs \subseteq Exec
  BY DEF OverInv, TypeOK
<1>2. ASSUME NEW r \in Runs, Create(r) \/ Resume(r) \/ PruneFinished(r) PROVE ExecsSound'
  BY <1>2, FewerExecs DEF Create, Resume, PruneFinished
<1>3. ASSUME NEW r \in Runs, Cancel(r) PROVE ExecsSound'
  <2>1. UNCHANGED <<claimedBy, attempt, execs, reapTx>>
    BY <1>3 DEF Cancel
  <2>2. \A q \in Runs, p \in Positions : tstatus[q][p] = "running" => tstatus'[q][p] = "running"
    BY <1>3 DEF Cancel, ClosePending, OverInv, TypeOK
  <2>3. \A e \in execs : e.run \in Runs /\ e.pos \in Positions
    BY <1>1 DEF Exec
  <2> QED BY <2>1, <2>2, <2>3 DEF ExecsSound, CurrentExec, OneExecPerTarget
<1>4. ASSUME NEW r \in Runs, Retry(r) PROVE ExecsSound'
  <2>1. UNCHANGED <<attempt, execs, reapTx>>
    BY <1>4 DEF Retry
  <2>2. \A q \in Runs, p \in Positions :
          tstatus[q][p] = "running" => tstatus'[q][p] = "running" /\ claimedBy'[q][p] = claimedBy[q][p]
    BY <1>4 DEF Retry, RetryTarget, OverInv, TypeOK
  <2>3. \A e \in execs : e.run \in Runs /\ e.pos \in Positions
    BY <1>1 DEF Exec
  <2> QED BY <2>1, <2>2, <2>3 DEF ExecsSound, CurrentExec, OneExecPerTarget
<1>5. ASSUME NEW o \in Owners, ClaimRead(o) \/ Die(o) PROVE ExecsSound'
  BY <1>5, FewerExecs DEF ClaimRead, Die, dbvars
<1>6. ASSUME NEW o \in Owners, StopCanceled(o) PROVE ExecsSound'
  <2> DEFINE hit == {e \in execs : /\ e.owner = o /\ e.stop = "no"
                                   /\ runStatus[e.run] = "canceling"
                                   /\ tstatus[e.run][e.pos] = "running"
                                   /\ claimedBy[e.run][e.pos] = o}
  <2>1. execs' = (execs \ hit) \cup {Told(e, "cancel") : e \in hit}
    BY <1>6 DEF StopCanceled
  <2>2. hit \subseteq execs
    OBVIOUS
  <2> HIDE DEF hit
  <2>3. UNCHANGED <<tstatus, claimedBy, attempt, reapTx>>
    BY <1>6 DEF StopCanceled, dbvars
  <2>4. \A f \in execs' : \E e \in execs : f = e \/ \E why \in {"cancel", "shutdown"} : f = Told(e, why)
    BY <2>1, <2>2
  <2>5. ASSUME NEW e \in execs', NEW f \in execs', e.run = f.run, e.pos = f.pos PROVE e = f
    <3>1. PICK x \in execs : e = IF x \in hit THEN Told(x, "cancel") ELSE x
      BY <2>1, <2>2
    <3>2. PICK y \in execs : f = IF y \in hit THEN Told(y, "cancel") ELSE y
      BY <2>1, <2>2
    <3>3. x.run = y.run /\ x.pos = y.pos
      BY <1>1, <2>5, <3>1, <3>2, ToldType
    <3> QED BY <3>1, <3>2, <3>3 DEF ExecsSound, OneExecPerTarget
  <2> QED BY <1>1, <2>3, <2>4, <2>5, ExecsStay
<1>7. ASSUME NEW o \in Owners, Shutdown(o) PROVE ExecsSound'
  <2>1. execs' = {IF e.owner = o /\ e.stop = "no" THEN Told(e, "shutdown") ELSE e : e \in execs}
    BY <1>7 DEF Shutdown
  <2>2. UNCHANGED <<tstatus, claimedBy, attempt, reapTx>>
    BY <1>7 DEF Shutdown, dbvars
  <2>3. \A f \in execs' : \E e \in execs : f = IF e.owner = o /\ e.stop = "no" THEN Told(e, "shutdown") ELSE e
    BY <2>1
  <2>4. ASSUME NEW e \in execs', NEW f \in execs', e.run = f.run, e.pos = f.pos PROVE e = f
    <3>1. PICK x \in execs : e = IF x.owner = o /\ x.stop = "no" THEN Told(x, "shutdown") ELSE x
      BY <2>3
    <3>2. PICK y \in execs : f = IF y.owner = o /\ y.stop = "no" THEN Told(y, "shutdown") ELSE y
      BY <2>3
    <3>3. x.run = y.run /\ x.pos = y.pos
      BY <1>1, <2>4, <3>1, <3>2, ToldType
    <3> QED BY <3>1, <3>2, <3>3 DEF ExecsSound, OneExecPerTarget
  <2>5. \A f \in execs' : \E e \in execs : f = e \/ \E why \in {"cancel", "shutdown"} : f = Told(e, why)
    BY <2>3
  <2> QED BY <1>1, <2>2, <2>4, <2>5, ExecsStay
<1>8. ASSUME NEW e \in execs, ExecLost(e) PROVE ExecsSound'
  BY <1>8, FewerExecs DEF ExecLost, dbvars
<1>9. ASSUME NEW e \in execs, NEW outcome \in TargetStatus, ExecEnd(e, outcome) PROVE ExecsSound'
  <2>1. execs' = execs \ {e} /\ reapTx' = reapTx
    BY <1>9 DEF ExecEnd
  <2>2. CASE ~Recordable(e.run, e.pos)
    BY <1>9, <2>1, <2>2, FewerExecs DEF ExecEnd, Complete, dbvars
  <2>3. CASE Recordable(e.run, e.pos)
    <3>1. ASSUME NEW f \in execs' PROVE CurrentExec(f)'
      <4>1. f \in execs /\ ~(f.run = e.run /\ f.pos = e.pos) /\ CurrentExec(f) /\ f.run \in Runs /\ f.pos \in Positions
        BY <1>1, <2>1 DEF ExecsSound, OneExecPerTarget, Exec
      <4>2. tstatus'[f.run][f.pos] = "running" /\ UNCHANGED <<claimedBy, attempt>>
        BY <1>9, <2>3, <4>1, CompleteMoves DEF CurrentExec, OverInv
      <4> QED BY <2>1, <4>1, <4>2 DEF CurrentExec
    <3> QED BY <2>1, <3>1 DEF ExecsSound, OneExecPerTarget
  <2> QED BY <2>2, <2>3
<1>10. ASSUME NEW marked \in SUBSET (Runs \X Positions), ReapRead(marked) PROVE ExecsSound'
  <2>1. UNCHANGED <<tstatus, claimedBy, attempt, execs>> /\ reapTx'.marked = marked
    BY <1>10 DEF ReapRead, dbvars
  <2>2. \A e \in execs : <<e.run, e.pos>> \notin marked
    BY <1>10 DEF ReapRead, Orphan
  <2> QED BY <2>1, <2>2 DEF ExecsSound, CurrentExec, OneExecPerTarget
<1>11. ASSUME ReapCommit PROVE ExecsSound'
  <2>1. UNCHANGED <<claimedBy, attempt, execs>> /\ reapTx'.marked = {}
    BY <1>11 DEF ReapCommit, NoReap
  <2>2. \A r \in Runs, p \in Positions : <<r, p>> \notin reapTx.marked => tstatus'[r][p] = tstatus[r][p]
    BY <1>11 DEF ReapCommit, Interrupted
  <2>3. \A e \in execs : e.run \in Runs /\ e.pos \in Positions
    BY <1>1 DEF Exec
  <2> QED BY <2>1, <2>2, <2>3 DEF ExecsSound, CurrentExec, OneExecPerTarget
<1>12. ASSUME ReapAbort PROVE ExecsSound'
  BY <1>12, FewerExecs DEF ReapAbort, NoReap, dbvars
<1>13. ASSUME UNCHANGED vars PROVE ExecsSound'
  BY <1>13, FewerExecs DEF vars, dbvars
<1> QED BY <1>2, <1>3, <1>4, <1>5, <1>6, <1>7, <1>8, <1>9, <1>10, <1>11, <1>12, <1>13, ClaimExecs DEF Next

\* Unless executions overrun, the outcome of an execution is recorded for the
\* attempt it belongs to, and no target is executed twice at a time.
THEOREM ExecutionsAreCurrent == Spec => []ExecutionIsCurrent
<1>1. Init => ExecsInv
  BY DEF Init, ExecsInv, ExecsSound, OneExecPerTarget
<1>2. ExecsInv => ExecutionIsCurrent
  BY DEF ExecsInv, ExecsSound, CurrentExec, ExecutionIsCurrent
<1> QED BY <1>1, <1>2, InitOver, NextOver, NextExecs, PTL DEF Spec
---------------------------------------------------------------------------
(* What the documentation promises of a run, without faults *)

\* A failure has stopped the run if it was to, also one that waits for its user.
Stopped(r) ==
  opts[r].stopOnError /\ runStatus[r] \in {"running", "paused"}
      /\ (\E p \in Positions : tstatus[r][p] \in {"failed", "unknown"})
    => \A p \in Positions : tstatus[r][p] # "pending"

\* While the run is a canary only its first target runs, and none while it waits.
CanaryAlone(r) ==
  /\ canary[r] => \A p \in Positions : tstatus[r][p] = "running" => p = 0
  /\ runStatus[r] = "paused" => canary[r] /\ \A p \in Positions : tstatus[r][p] # "running"

\* A run that was deleted has no open target either.
DeletedIsOver(r) == runStatus[r] = "deleted" => ~HasOpen(tstatus[r])

RunCalm(r) ==
  /\ runStatus[r] \in LiveStatus => HasOpen(tstatus[r])
  /\ canary[r] /\ runStatus[r] = "running" /\ tstatus[r][0] \notin OpenTarget
       => \A p \in Positions : tstatus[r][p] # "pending"
  /\ \A p \in Positions :
       tstatus[r][p] = "canceled" => runStatus[r] \in {"canceling", "canceled", "deleted"}
  /\ Stopped(r) /\ CanaryAlone(r) /\ DeletedIsOver(r)

\* Nobody dies, no reap finds an orphan, and only a cancellation stops an execution.
Undisturbed ==
  /\ \A o \in Owners : process[o] = "up"
  /\ ~reapTx.open
  /\ \A r \in Runs, p \in Positions :
       tstatus[r][p] = "running" => \E e \in execs : e.run = r /\ e.pos = p
  /\ \A e \in execs : e.stop = "no" \/ (e.stop = "cancel" /\ runStatus[e.run] = "canceling")

CalmInv == Undisturbed /\ \A r \in Runs : RunCalm(r)

\* What is said of a run depends on the run only.
LEMMA RunStaysCalm ==
  ASSUME NEW r \in Runs, RunCalm(r), runStatus'[r] = runStatus[r], tstatus'[r] = tstatus[r],
         canary'[r] = canary[r], opts'[r] = opts[r]
  PROVE  RunCalm(r)'
BY DEF RunCalm, Stopped, CanaryAlone, DeletedIsOver, HasOpen

LEMMA InitCalm == Init => CalmInv
<1> SUFFICES ASSUME Init PROVE CalmInv
  OBVIOUS
<1>1. Undisturbed
  BY DEF Init, Undisturbed, NoReap
<1>2. ASSUME NEW r \in Runs PROVE RunCalm(r)
  <2>1. runStatus[r] = "none" /\ \A p \in Positions : tstatus[r][p] = "pending"
    BY DEF Init
  <2> QED BY <2>1 DEF RunCalm, Stopped, CanaryAlone, DeletedIsOver, LiveStatus
<1> QED BY <1>1, <1>2 DEF CalmInv

LEMMA CreateCalm ==
  ASSUME OverInv, CalmInv, NEW r \in Runs, Create(r)
  PROVE  CalmInv'
<1>1. /\ runStatus[r] = "none" /\ runStatus' = [runStatus EXCEPT ![r] = "running"]
      /\ UNCHANGED <<opts, canary, tstatus, process, execs, reapTx>>
  BY DEF Create
<1>2. \A p \in Positions : tstatus'[r][p] = "pending"
  BY <1>1 DEF OverInv, NoneIsPending
<1>3. 0 \in Positions
  BY FleetAssumption DEF FleetAssumption, Positions
<1>4. runStatus'[r] = "running" /\ \A q \in Runs : q # r => runStatus'[q] = runStatus[q]
  BY <1>1 DEF OverInv, TypeOK
<1>5. RunCalm(r)'
  BY <1>2, <1>3, <1>4 DEF RunCalm, Stopped, CanaryAlone, DeletedIsOver, HasOpen, OpenTarget
<1>6. \A q \in Runs : RunCalm(q)'
  BY <1>1, <1>4, <1>5, RunStaysCalm DEF CalmInv
<1>7. Undisturbed'
  BY <1>1, <1>4 DEF CalmInv, Undisturbed, OverInv, TypeOK, Exec
<1> QED BY <1>6, <1>7 DEF CalmInv

LEMMA ResumeCalm ==
  ASSUME OverInv, CalmInv, NEW r \in Runs, Resume(r)
  PROVE  CalmInv'
<1>1. /\ runStatus[r] = "paused" /\ runStatus' = [runStatus EXCEPT ![r] = "running"]
      /\ canary' = [canary EXCEPT ![r] = FALSE]
      /\ UNCHANGED <<opts, tstatus, process, execs, reapTx>>
  BY DEF Resume
<1>2. runStatus'[r] = "running" /\ ~canary'[r]
  BY <1>1 DEF OverInv, TypeOK
<1>3. \A q \in Runs : q # r => runStatus'[q] = runStatus[q] /\ canary'[q] = canary[q]
  BY <1>1 DEF OverInv, TypeOK
<1>4. RunCalm(r)'
  BY <1>1, <1>2 DEF CalmInv, RunCalm, Stopped, CanaryAlone, DeletedIsOver, HasOpen, LiveStatus
<1>5. \A q \in Runs : RunCalm(q)'
  BY <1>1, <1>3, <1>4, RunStaysCalm DEF CalmInv
<1>6. Undisturbed'
  BY <1>1, <1>3 DEF CalmInv, Undisturbed, OverInv, TypeOK, Exec
<1> QED BY <1>5, <1>6 DEF CalmInv

LEMMA CancelCalm ==
  ASSUME OverInv, CalmInv, NEW r \in Runs, Cancel(r)
  PROVE  CalmInv'
<1> DEFINE ts == ClosePending(tstatus[r], "canceled")
<1>1. /\ runStatus[r] \in {"running", "paused"}
      /\ runStatus' = [runStatus EXCEPT ![r] = SettledStatus("canceling", ts)]
      /\ tstatus' = [tstatus EXCEPT ![r] = ts]
      /\ UNCHANGED <<opts, canary, process, execs, reapTx>>
  BY DEF Cancel
<1>2. /\ \A p \in Positions : ts[p] = "running" <=> tstatus[r][p] = "running"
      /\ \A p \in Positions : ts[p] # "pending"
  BY DEF ClosePending
<1>3. SettledStatus("canceling", ts) = IF HasOpen(ts) THEN "canceling" ELSE "canceled"
  BY DEF SettledStatus, LiveStatus
<1> HIDE DEF ts
<1>4. tstatus'[r] = ts /\ runStatus'[r] = IF HasOpen(ts) THEN "canceling" ELSE "canceled"
  BY <1>1, <1>3 DEF OverInv, TypeOK
<1>5. \A q \in Runs : q # r => runStatus'[q] = runStatus[q] /\ tstatus'[q] = tstatus[q]
  BY <1>1 DEF OverInv, TypeOK
<1>6. RunCalm(r)'
  <2>1. /\ runStatus'[r] \in LiveStatus => HasOpen(tstatus'[r])
        /\ runStatus'[r] \in {"canceling", "canceled"}
    BY <1>4 DEF LiveStatus
  <2>2. canary'[r] => \A p \in Positions : tstatus'[r][p] = "running" => p = 0
    BY <1>1, <1>2, <1>4 DEF CalmInv, RunCalm, CanaryAlone
  <2> QED BY <2>1, <2>2 DEF RunCalm, Stopped, CanaryAlone, DeletedIsOver
<1>7. \A q \in Runs : RunCalm(q)'
  BY <1>1, <1>5, <1>6, RunStaysCalm DEF CalmInv
<1>8. Undisturbed'
  <2>1. \A q \in Runs, p \in Positions : tstatus'[q][p] = "running" => tstatus[q][p] = "running"
    BY <1>2, <1>4, <1>5
  <2>2. \A e \in execs : e.run \in Runs
    BY DEF OverInv, TypeOK, Exec
  <2> QED BY <1>1, <1>5, <2>1, <2>2 DEF CalmInv, Undisturbed
<1> QED BY <1>7, <1>8 DEF CalmInv

LEMMA RetryCalm ==
  ASSUME OverInv, CalmInv, NEW r \in Runs, Retry(r)
  PROVE  CalmInv'
<1> DEFINE again == {p \in Positions : tstatus[r][p] \in RetryTarget}
<1> DEFINE ts == [p \in Positions |-> IF p \in again THEN "pending" ELSE tstatus[r][p]]
<1>1. /\ runStatus[r] \in {"failed", "canceled"}
      /\ runStatus' = [runStatus EXCEPT ![r] = SettledStatus("running", ts)]
      /\ tstatus' = [tstatus EXCEPT ![r] = ts]
      /\ canary' = [canary EXCEPT ![r] = FALSE]
      /\ UNCHANGED <<opts, process, execs, reapTx>>
  BY DEF Retry
<1>2. /\ HasOpen(ts)
      /\ \A p \in Positions : ts[p] \notin RetryTarget /\ (ts[p] = "running" => tstatus[r][p] = "running")
  BY DEF Retry, HasOpen, OpenTarget, RetryTarget
<1>3. SettledStatus("running", ts) = "running"
  BY <1>2, SettledOver DEF LiveStatus
<1> HIDE DEF ts
<1>4. tstatus'[r] = ts /\ runStatus'[r] = "running" /\ ~canary'[r]
  BY <1>1, <1>3 DEF OverInv, TypeOK
<1>5. \A q \in Runs : q # r =>
        runStatus'[q] = runStatus[q] /\ tstatus'[q] = tstatus[q] /\ canary'[q] = canary[q]
  BY <1>1 DEF OverInv, TypeOK
<1>6. RunCalm(r)'
  BY <1>2, <1>4 DEF RunCalm, Stopped, CanaryAlone, DeletedIsOver, RetryTarget
<1>7. \A q \in Runs : RunCalm(q)'
  BY <1>1, <1>5, <1>6, RunStaysCalm DEF CalmInv
<1>8. Undisturbed'
  <2>1. \A q \in Runs, p \in Positions : tstatus'[q][p] = "running" => tstatus[q][p] = "running"
    BY <1>2, <1>4, <1>5
  <2>2. \A e \in execs : e.run \in Runs
    BY DEF OverInv, TypeOK, Exec
  <2> QED BY <1>1, <1>5, <2>1, <2>2 DEF CalmInv, Undisturbed
<1> QED BY <1>7, <1>8 DEF CalmInv

LEMMA PruneCalm ==
  ASSUME OverInv, CalmInv, NEW r \in Runs, PruneFinished(r)
  PROVE  CalmInv'
<1>1. /\ finishedAt[r] /\ runStatus[r] # "deleted"
      /\ runStatus' = [runStatus EXCEPT ![r] = "deleted"]
      /\ UNCHANGED <<opts, canary, tstatus, process, execs, reapTx>>
  BY DEF PruneFinished
<1>2. runStatus[r] \in OverStatus /\ ~HasOpen(tstatus[r])
  BY <1>1 DEF OverInv, FinishedIsOver
<1>3. runStatus'[r] = "deleted" /\ \A q \in Runs : q # r => runStatus'[q] = runStatus[q]
  BY <1>1 DEF OverInv, TypeOK
<1>4. RunCalm(r)'
  BY <1>1, <1>2, <1>3 DEF CalmInv, RunCalm, Stopped, CanaryAlone, DeletedIsOver, LiveStatus, HasOpen
<1>5. \A q \in Runs : RunCalm(q)'
  BY <1>1, <1>3, <1>4, RunStaysCalm DEF CalmInv
<1>6. Undisturbed'
  BY <1>1, <1>2, <1>3 DEF CalmInv, Undisturbed, OverInv, TypeOK, Exec, OverStatus
<1> QED BY <1>5, <1>6 DEF CalmInv

LEMMA ClaimCalm ==
  ASSUME OverInv, CalmInv, NEW o \in Owners, ClaimCommit(o)
  PROVE  CalmInv'
<1>1. PICK taken :
        /\ ShareOut(o, taken)
        /\ tstatus' = [r \in Runs |-> [p \in Positions |->
              IF p \in taken[r] THEN "running" ELSE tstatus[r][p]]]
        /\ execs' = execs \cup
              {[owner |-> o, run |-> x[1], pos |-> x[2], attempt |-> attempt[x[1]][x[2]] + 1,
                stop |-> IF process[o] = "stopping" THEN "shutdown" ELSE "no"] :
                  x \in {y \in Runs \X Positions : y[2] \in taken[y[1]]}}
  BY DEF ClaimCommit, ShareOut
<1>2. UNCHANGED <<runStatus, opts, canary, process, reapTx>>
  BY DEF ClaimCommit
<1>3. \A r \in Runs, p \in Positions :
        p \in taken[r] => tstatus[r][p] = "pending" /\ runStatus[r] = "running" /\ (canary[r] => p = 0)
  BY <1>1, ShareIsClaimable
<1>4. ASSUME NEW r \in Runs PROVE RunCalm(r)'
  <2>1. \A p \in Positions :
          \/ p \notin taken[r] /\ tstatus'[r][p] = tstatus[r][p]
          \/ p \in taken[r] /\ tstatus'[r][p] = "running"
    BY <1>1
  <2>2. RunCalm(r)
    BY DEF CalmInv
  <2>3. /\ HasOpen(tstatus[r]) => HasOpen(tstatus'[r])
        /\ runStatus[r] = "deleted" => (HasOpen(tstatus'[r]) => HasOpen(tstatus[r]))
    BY <1>3, <2>1 DEF HasOpen, OpenTarget
  <2>4. 0 \in Positions
    BY FleetAssumption DEF FleetAssumption, Positions
  <2>5. canary[r] /\ runStatus[r] = "running" /\ tstatus'[r][0] \notin OpenTarget
          => \A p \in Positions : tstatus'[r][p] # "pending"
    BY <2>1, <2>2, <2>4 DEF RunCalm, OpenTarget
  <2>6. Stopped(r)'
    BY <1>2, <2>1, <2>2 DEF RunCalm, Stopped
  <2>7. CanaryAlone(r)'
    BY <1>2, <1>3, <2>1, <2>2 DEF RunCalm, CanaryAlone
  <2>8. \A p \in Positions : tstatus'[r][p] = "canceled" => runStatus[r] \in {"canceling", "canceled", "deleted"}
    BY <2>1, <2>2 DEF RunCalm
  <2> QED BY <1>2, <2>2, <2>3, <2>5, <2>6, <2>7, <2>8 DEF RunCalm, DeletedIsOver
<1>5. ASSUME NEW r \in Runs, NEW p \in Positions, tstatus'[r][p] = "running"
      PROVE  \E e \in execs' : e.run = r /\ e.pos = p
  <2>1. CASE p \in taken[r]
    <3> DEFINE e == [owner |-> o, run |-> r, pos |-> p, attempt |-> attempt[r][p] + 1,
                     stop |-> IF process[o] = "stopping" THEN "shutdown" ELSE "no"]
    <3>1. <<r, p>> \in {y \in Runs \X Positions : y[2] \in taken[y[1]]}
      BY <2>1
    <3>2. e \in execs'
      BY <1>1, <3>1
    <3> QED BY <3>2
  <2>2. CASE p \notin taken[r]
    BY <1>1, <1>5, <2>2 DEF CalmInv, Undisturbed
  <2> QED BY <2>1, <2>2
<1>6. ASSUME NEW e \in execs'
      PROVE  e.stop = "no" \/ (e.stop = "cancel" /\ runStatus'[e.run] = "canceling")
  <2>1. process[o] = "up"
    BY DEF CalmInv, Undisturbed
  <2> QED BY <1>1, <1>2, <2>1 DEF CalmInv, Undisturbed
<1>7. Undisturbed'
  BY <1>2, <1>5, <1>6 DEF CalmInv, Undisturbed
<1> QED BY <1>4, <1>7 DEF CalmInv

\* The status of a run one of whose targets is executed.
LEMMA ExecutedRun ==
  ASSUME OverInv, ExecsSound, CalmInv, NEW e \in execs
  PROVE  /\ e.run \in Runs /\ e.pos \in Positions
         /\ tstatus[e.run][e.pos] = "running"
         /\ runStatus[e.run] \in {"running", "canceling"}
         /\ Recordable(e.run, e.pos)
<1>1. e.run \in Runs /\ e.pos \in Positions /\ tstatus[e.run][e.pos] = "running"
  BY DEF OverInv, TypeOK, Exec, ExecsSound, CurrentExec
<1>2. HasOpen(tstatus[e.run])
  BY <1>1 DEF HasOpen, OpenTarget
<1>3. runStatus[e.run] \notin OverStatus \cup {"none", "deleted", "paused"}
  BY <1>1, <1>2 DEF OverInv, FinishedIsOver, NoneIsPending, CalmInv, RunCalm, DeletedIsOver, CanaryAlone
<1>4. runStatus[e.run] \in RunStatus
  BY <1>1 DEF OverInv, TypeOK
<1> QED BY <1>1, <1>3, <1>4 DEF RunStatus, LiveStatus, Recordable

LEMMA ExecEndCalm ==
  ASSUME OverInv, ExecsSound, CalmInv, NEW e \in execs, NEW outcome \in TargetStatus, ExecEnd(e, outcome)
  PROVE  CalmInv'
<1> DEFINE r == e.run
<1> DEFINE s0 == IF Waits(r, e.pos, tstatus'[r]) THEN "paused" ELSE runStatus[r]
<1>1. /\ r \in Runs /\ e.pos \in Positions /\ tstatus[r][e.pos] = "running"
      /\ runStatus[r] \in {"running", "canceling"} /\ Recordable(r, e.pos) /\ RunCalm(r)
  BY ExecutedRun DEF CalmInv
<1>2. /\ outcome \in {"succeeded", "failed", "canceled"}
      /\ outcome = "canceled" => e.stop # "no"
      /\ \A p \in Positions :
           tstatus'[r][p] = IF p = e.pos THEN outcome
                            ELSE IF Stops(r, outcome) /\ tstatus[r][p] = "pending"
                            THEN "skipped" ELSE tstatus[r][p]
      /\ runStatus'[r] = SettledStatus(s0, tstatus'[r])
      /\ \A q \in Runs : q # r => tstatus'[q] = tstatus[q] /\ runStatus'[q] = runStatus[q]
      /\ UNCHANGED <<opts, canary>>
  BY <1>1, CompleteMoves DEF OverInv
<1>3. execs' = execs \ {e} /\ process' = process /\ reapTx' = reapTx
  BY DEF ExecEnd
<1>4. s0 \in LiveStatus /\ (runStatus[r] = "canceling" => s0 = "canceling")
      /\ (s0 # "paused" => s0 = runStatus[r])
      /\ (s0 = "paused" => canary[r] /\ e.pos = 0 /\ runStatus[r] = "running")
      /\ (canary[r] /\ e.pos = 0 /\ runStatus[r] = "running" /\ s0 # "paused"
            => \A q \in Positions : tstatus'[r][q] # "pending")
  BY <1>1 DEF LiveStatus, Waits
<1> HIDE DEF s0
<1>5. /\ HasOpen(tstatus'[r]) => runStatus'[r] = s0
      /\ ~HasOpen(tstatus'[r]) => runStatus'[r] \in OverStatus
      /\ ~HasOpen(tstatus'[r]) /\ s0 = "canceling" => runStatus'[r] = "canceled"
  BY <1>2, <1>4, SettledOver DEF SettledStatus, LiveStatus
<1>6. canary[r] => e.pos = 0
  BY <1>1 DEF RunCalm, CanaryAlone
<1>7. e.stop = "no" \/ (e.stop = "cancel" /\ runStatus[r] = "canceling")
  BY DEF CalmInv, Undisturbed
<1>8. RunCalm(r)'
  <2>1. runStatus'[r] \in LiveStatus => HasOpen(tstatus'[r])
    BY <1>5 DEF OverStatus, LiveStatus
  <2>2. canary'[r] /\ runStatus'[r] = "running" /\ tstatus'[r][0] \notin OpenTarget
          => \A p \in Positions : tstatus'[r][p] # "pending"
    BY <1>2, <1>4, <1>5, <1>6 DEF OverStatus
  <2>3. ASSUME NEW p \in Positions, tstatus'[r][p] = "canceled"
        PROVE  runStatus'[r] \in {"canceling", "canceled", "deleted"}
    <3>1. runStatus[r] = "canceling"
      BY <1>1, <1>2, <1>7, <2>3 DEF RunCalm
    <3> QED BY <1>4, <1>5, <3>1
  <2>4. Stopped(r)'
    <3>1. SUFFICES ASSUME opts[r].stopOnError, runStatus[r] = "running",
                          NEW q \in Positions, tstatus'[r][q] \in {"failed", "unknown"},
                          NEW p \in Positions
                   PROVE  tstatus'[r][p] # "pending"
      BY <1>2, <1>4, <1>5 DEF Stopped, OverStatus
    <3>2. CASE outcome = "succeeded"
      <4>1. tstatus[r][q] \in {"failed", "unknown"}
        BY <1>2, <3>1, <3>2
      <4> QED BY <1>1, <1>2, <3>1, <3>2, <4>1 DEF RunCalm, Stopped
    <3>3. CASE outcome # "succeeded"
      BY <1>2, <3>1, <3>3 DEF Stops
    <3> QED BY <3>2, <3>3
  <2>5. CanaryAlone(r)'
    <3>1. \A p \in Positions : tstatus'[r][p] = "running" => tstatus[r][p] = "running" /\ p # e.pos
      BY <1>2
    <3> QED BY <1>1, <1>2, <1>4, <1>5, <3>1 DEF RunCalm, CanaryAlone, OverStatus
  <2>6. DeletedIsOver(r)'
    BY <1>4, <1>5 DEF DeletedIsOver, LiveStatus
  <2> QED BY <2>1, <2>2, <2>3, <2>4, <2>5, <2>6 DEF RunCalm
<1>9. \A q \in Runs : RunCalm(q)'
  BY <1>2, <1>8, RunStaysCalm DEF CalmInv
<1>10. ASSUME NEW q \in Runs, NEW p \in Positions, tstatus'[q][p] = "running"
       PROVE  \E f \in execs' : f.run = q /\ f.pos = p
  <2>1. tstatus[q][p] = "running" /\ ~(q = r /\ p = e.pos)
    BY <1>1, <1>2, <1>10
  <2> QED BY <1>3, <2>1 DEF CalmInv, Undisturbed
<1>11. ASSUME NEW f \in execs'
       PROVE  f.stop = "no" \/ (f.stop = "cancel" /\ runStatus'[f.run] = "canceling")
  <2>1. f \in execs /\ ~(f.run = r /\ f.pos = e.pos)
    BY <1>3 DEF ExecsSound, OneExecPerTarget
  <2>2. f.run \in Runs /\ f.pos \in Positions /\ tstatus[f.run][f.pos] = "running"
    BY <2>1, ExecutedRun
  <2>3. CASE f.run = r /\ f.stop = "cancel"
    <3>1. runStatus[r] = "canceling"
      BY <2>1, <2>3 DEF CalmInv, Undisturbed
    <3>2. tstatus'[r][f.pos] = "running"
      BY <1>2, <2>1, <2>2, <2>3
    <3> QED BY <1>4, <1>5, <2>2, <2>3, <3>1, <3>2 DEF HasOpen, OpenTarget
  <2> QED BY <1>2, <2>1, <2>2, <2>3 DEF CalmInv, Undisturbed
<1>12. Undisturbed'
  BY <1>3, <1>10, <1>11 DEF CalmInv, Undisturbed
<1> QED BY <1>9, <1>12 DEF CalmInv

LEMMA StopCalm ==
  ASSUME OverInv, CalmInv, NEW o \in Owners, StopCanceled(o)
  PROVE  CalmInv'
<1> DEFINE hit == {e \in execs : /\ e.owner = o /\ e.stop = "no"
                                 /\ runStatus[e.run] = "canceling"
                                 /\ tstatus[e.run][e.pos] = "running"
                                 /\ claimedBy[e.run][e.pos] = o}
<1>1. execs' = (execs \ hit) \cup {Told(e, "cancel") : e \in hit}
  BY DEF StopCanceled
<1>2. hit \subseteq execs /\ \A e \in hit : runStatus[e.run] = "canceling"
  OBVIOUS
<1> HIDE DEF hit
<1>3. UNCHANGED <<runStatus, opts, canary, tstatus, process, reapTx>>
  BY DEF StopCanceled, dbvars
<1>4. \A e \in hit : Told(e, "cancel").run = e.run /\ Told(e, "cancel").pos = e.pos /\ Told(e, "cancel").stop = "cancel"
  BY <1>2 DEF Told, OverInv, TypeOK, Exec
<1>5. ASSUME NEW r \in Runs, NEW p \in Positions, tstatus'[r][p] = "running"
      PROVE  \E f \in execs' : f.run = r /\ f.pos = p
  <2>1. PICK e \in execs : e.run = r /\ e.pos = p
    BY <1>3, <1>5 DEF CalmInv, Undisturbed
  <2>2. CASE e \in hit
    BY <1>1, <1>4, <2>1, <2>2
  <2>3. CASE e \notin hit
    BY <1>1, <2>1, <2>3
  <2> QED BY <2>2, <2>3
<1>6. ASSUME NEW f \in execs'
      PROVE  f.stop = "no" \/ (f.stop = "cancel" /\ runStatus'[f.run] = "canceling")
  <2>1. CASE f \in execs
    BY <1>3, <2>1 DEF CalmInv, Undisturbed
  <2>2. CASE f \notin execs
    BY <1>1, <1>2, <1>3, <1>4, <2>2
  <2> QED BY <2>1, <2>2
<1>7. Undisturbed'
  BY <1>3, <1>5, <1>6 DEF CalmInv, Undisturbed
<1>8. \A r \in Runs : RunCalm(r)'
  BY <1>3, RunStaysCalm DEF CalmInv
<1> QED BY <1>7, <1>8 DEF CalmInv

LEMMA NextCalm ==
  ASSUME Faults = {}
  PROVE  OverInv /\ ExecsInv /\ CalmInv /\ [Next]_vars => CalmInv'
<1> SUFFICES ASSUME OverInv, ExecsSound, CalmInv, [Next]_vars PROVE CalmInv'
  BY DEF ExecsInv
<1>1. UNCHANGED <<runStatus, opts, canary, tstatus, process, execs, reapTx>> => CalmInv'
  <2> SUFFICES ASSUME UNCHANGED <<runStatus, opts, canary, tstatus, process, execs, reapTx>> PROVE CalmInv'
    OBVIOUS
  <2>1. \A r \in Runs : RunCalm(r)'
    BY RunStaysCalm DEF CalmInv
  <2> QED BY <2>1 DEF CalmInv, Undisturbed
<1>2. ASSUME NEW o \in Owners, ClaimRead(o) PROVE CalmInv'
  BY <1>1, <1>2 DEF ClaimRead, dbvars
<1>3. ASSUME NEW o \in Owners PROVE ~Shutdown(o) /\ ~Die(o)
  BY DEF Shutdown, Die, CalmInv, Undisturbed
<1>4. ~(\E e \in execs : ExecLost(e)) /\ ~ReapAbort /\ ~ReapCommit
  BY DEF ExecLost, ReapAbort, ReapCommit, CalmInv, Undisturbed
<1>5. ASSUME NEW marked \in SUBSET (Runs \X Positions) PROVE ~ReapRead(marked)
  <2> SUFFICES ASSUME ReapRead(marked) PROVE FALSE
    OBVIOUS
  <2>1. PICK x \in marked : Orphan(x[1], x[2])
    BY DEF ReapRead
  <2>2. x[1] \in Runs /\ x[2] \in Positions
    OBVIOUS
  <2> QED BY <2>1, <2>2 DEF Orphan, CalmInv, Undisturbed
<1>6. ASSUME UNCHANGED vars PROVE CalmInv'
  BY <1>1, <1>6 DEF vars, dbvars
<1> QED
  BY <1>2, <1>3, <1>4, <1>5, <1>6, CreateCalm, ResumeCalm, CancelCalm, RetryCalm, PruneCalm, ClaimCalm,
     StopCalm, ExecEndCalm DEF Next

\* Without faults a run finishes with its last target, a canary that ended
\* pauses it, a failure stops it if it was to, and only a cancellation cancels
\* targets: whatever replicas, options, retries and cancellations there are.
THEOREM PromisesHold ==
  ASSUME Faults = {}
  PROVE  Spec => []PromisesKept
<1>1. CalmInv => PromisesKept
  BY DEF CalmInv, RunCalm, Stopped, PromisesKept, FinishesWhenDone, CanaryWaits, StopsAtFirstFailure,
         CanceledOnlyByCancel
<1>2. Init => ExecsInv
  BY DEF Init, ExecsInv, ExecsSound, OneExecPerTarget
<1>3. OverInv /\ ExecsInv /\ CalmInv /\ [Next]_vars => CalmInv'
  BY NextCalm
<1> QED BY <1>1, <1>2, <1>3, InitOver, NextOver, NextExecs, InitCalm, PTL DEF Spec
=============================================================================
