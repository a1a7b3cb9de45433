--------------------------- MODULE BackupsProofs ---------------------------
(***************************************************************************)
(* Backups implement the operations engine: every step of Spec is a step   *)
(* of OpsSpec or leaves the engine alone.  So whatever is proved of the    *)
(* engine holds of it when it runs backups.                                *)
(*                                                                         *)
(* The one thing a step of Backups takes from the state and the engine     *)
(* asks for is the subject of the drop that a verification enqueues: the   *)
(* subject of a job that exists is one of Subjects.                        *)
(*                                                                         *)
(* The rows, the objects in storage and the scratch databases agree with   *)
(* the jobs until a process dies or an execution outlives its limit        *)
(* (AccountsInv): a backup has one job and a row inserted once, a row that *)
(* has ended never changes back, a dump is in storage until its row has    *)
(* ended, and the last drop is still due where a scratch database is.      *)
(***************************************************************************)
EXTENDS Backups, OperationsProofs

---------------------------------------------------------------------------
(* Every step of Backups is one of the engine *)

LEMMA InitMaps == Init => OpsInit /\ EngineInv
<1> SUFFICES ASSUME Init PROVE OpsInit /\ EngineInv
  OBVIOUS
<1>1. OpsInit /\ OpsInv
  BY InitOps DEF Init
<1>2. JobHasSubject
  BY <1>1 DEF OpsInit, NoJob, JobHasSubject
<1>3. QED
  BY <1>1, <1>2 DEF EngineInv

\* What users ask for.
LEMMA RequestMaps ==
  ASSUME EngineInv, NEW b \in Subjects,
         (\E j \in Jobs : TriggerJob(b, j) \/ VerifyJob(b, j)) \/ DeleteObject(b) \/ Expire(b)
  PROVE  [OpsNext]_opsVars
<1>1. CASE \E j \in Jobs : TriggerJob(b, j) \/ VerifyJob(b, j)
  <2>1. PICK j \in Jobs, kind \in BackupKinds :
          NewJob(j, kind, b, Server) /\ UNCHANGED <<hand, effects, stuck, faults>>
    BY <1>1 DEF TriggerJob, VerifyJob, BackupKinds
  <2>2. kind \in Kinds /\ Server \in Agents \cup {Nothing}
    BY BackupAssumption DEF BackupAssumption
  <2>3. Create(j, kind, b, Server)
    BY <2>1 DEF Create
  <2>4. QED
    BY <2>2, <2>3 DEF OpsNext
<1>2. CASE DeleteObject(b) \/ Expire(b)
  BY <1>2 DEF DeleteObject, Expire
<1>3. QED
  BY <1>1, <1>2

\* The executors, their deaths included.
LEMMA ExecutorMaps ==
  ASSUME NEW x \in Executors, Working(x) \/ Dies(x)
  PROVE  [OpsNext]_opsVars
<1>1. CASE Working(x)
  <2>1. CASE \E j \in Jobs : ClaimJob(x, j)
    BY <2>1 DEF ClaimJob, OpsNext, Work
  <2>2. CASE PrepareJob(x) \/ RefuseJob(x) \/ ReportJob(x)
    BY <2>2 DEF PrepareJob, RefuseJob, ReportJob, OpsNext, Work
  <2>3. CASE (\E ok \in BOOLEAN : Execute(x, ok)) \/ UNCHANGED opsVars
    BY <2>3 DEF OpsNext, Work
  <2>4. CASE Upload(x) \/ ExecuteFails(x) \/ Drop(x)
    <3>1. \E ok \in BOOLEAN : Execute(x, ok)
      BY <2>4 DEF Upload, ExecuteFails, Drop
    <3>2. QED
      BY <2>3, <3>1
  <2>5. CASE Restore(x)
    <3>1. Execute(x, FALSE) \/ UNCHANGED opsVars
      BY <2>5 DEF Restore, opsVars
    <3>2. QED
      BY <2>3, <3>1
  <2>6. CASE CountTables(x)
    <3>1. (scratch[Of(x)] = "present") \in BOOLEAN /\ Execute(x, scratch[Of(x)] = "present")
      BY <2>6 DEF CountTables
    <3>2. QED
      BY <2>3, <3>1
  <2>7. QED
    BY <1>1, <2>1, <2>2, <2>4, <2>5, <2>6 DEF Working
<1>2. CASE Dies(x)
  BY <1>2 DEF Dies, OpsNext
<1>3. QED
  BY <1>1, <1>2

\* The side effects of Complete.
LEMMA EffectMaps ==
  ASSUME EngineInv, NEW e \in effects, ApplyEffect(e)
  PROVE  [OpsNext]_opsVars
<1>1. CASE CompleteBackup(e) \/ DropDone(e)
  <2>1. Apply(e)
    BY <1>1 DEF CompleteBackup, DropDone, Apply
  <2>2. QED
    BY <2>1 DEF OpsNext
<1>2. CASE RecordVerification(e)
  BY <1>2 DEF RecordVerification
<1>3. CASE \E j \in Jobs : EnqueueDrop(e, j)
  <2>1. PICK j \in Jobs : EnqueueDrop(e, j)
    BY <1>3
  <2>2. e.job \in Jobs /\ job[e.job].kind = "verify"
    BY <2>1 DEF EnqueueDrop, EngineInv, OpsInv, OpsTypeOK, Effect
  <2>3. "verify" \in Kinds /\ "drop" \in Kinds /\ Nothing \notin Kinds
    BY BackupAssumption, OperationAssumption DEF BackupAssumption, OperationAssumption, BackupKinds
  <2>4. job[e.job].of \in Subjects
    BY <2>2, <2>3 DEF EngineInv, JobHasSubject
  <2>5. ApplyCreating(e, j, "drop", job[e.job].of, Server)
    BY <2>1 DEF EnqueueDrop, ApplyCreating
  <2>6. Server \in Agents \cup {Nothing}
    BY BackupAssumption DEF BackupAssumption
  <2>7. QED
    BY <2>3, <2>4, <2>5, <2>6 DEF OpsNext
<1>4. QED
  BY <1>1, <1>2, <1>3 DEF ApplyEffect

LEMMA NextMaps == EngineInv /\ [Next]_vars => [OpsNext]_opsVars
<1> SUFFICES ASSUME EngineInv, [Next]_vars PROVE [OpsNext]_opsVars
  OBVIOUS
<1>1. CASE UNCHANGED vars
  BY <1>1 DEF vars
<1>2. CASE \E a \in asked : Continue(a)
  BY <1>2 DEF Continue, TriggerRow, VerifyMark, DeleteMark
<1>3. CASE \E a \in asked : RequestDies(a)
  BY <1>3 DEF RequestDies, OpsNext
<1>4. CASE \E r \in Replicas : FailStuckJobs(r)
  BY <1>4 DEF FailStuckJobs, OpsNext
<1>5. CASE \E r \in Replicas : Prune(r)
  BY <1>5 DEF Prune, ListExpired, PruneObject, PruneMark
<1>6. CASE \E j \in Jobs : Ages(j)
  BY <1>6 DEF Ages, OpsNext
<1>7. QED
  BY <1>1, <1>2, <1>3, <1>4, <1>5, <1>6, RequestMaps, ExecutorMaps, EffectMaps DEF Next

---------------------------------------------------------------------------
(* Rows, objects and scratch databases *)

\* A backup has one job, and a row only after it.
OneBackupJob ==
  \A i, j \in Jobs : job[i].kind = "backup" /\ job[j].kind = "backup" /\ job[i].of = job[j].of => i = j

RowHasJob ==
  \A b \in Subjects : backup[b].status # "none" => \E j \in Jobs : job[j].kind = "backup" /\ job[j].of = b

\* A row is inserted once.
TriggersFirst ==
  \A a \in asked : a.kind = "trigger" =>
    /\ a.job \in Jobs /\ job[a.job].kind = "backup" /\ job[a.job].of = a.of
    /\ backup[a.of].status = "none"

\* The backup has ended: its row never changes back.
Ended(b) == backup[b].status \notin {"none", "pending", "running"}

ListedHaveEnded ==
  \A r \in Replicas :
    /\ \A b \in prune[r].list : Ended(b)
    /\ prune[r].at # Nothing => Ended(prune[r].at)

\* What was dumped is in storage until the backup has ended.
Stored(b) == backup[b].object \/ Ended(b)

LoadedVerifies == \A x \in loaded : hand[x].step = "executing" /\ job[hand[x].job].kind = "verify"

DumpsAreStored ==
  /\ \A x \in Executors :
       hand[x].step = "reporting" /\ hand[x].ok /\ job[hand[x].job].kind = "backup" => Stored(job[hand[x].job].of)
  /\ \A e \in effects : e.ok /\ job[e.job].kind = "backup" => Stored(job[e.job].of)

\* A drop has removed the database, whether or not it was reported.
Dropped(j) == job[j].status = "succeeded" \/ ReportedGood(j)

DropOf(j, b) == job[j].kind = "drop" /\ job[j].of = b

\* The last drop is still to be done, or has failed.
DropIsDue(b) ==
  \E j \in Jobs : DropOf(j, b) /\ ~Dropped(j) /\ \A i \in Jobs : DropOf(i, b) => i <= j

ScratchIsDue ==
  Undisturbed => \A b \in Subjects : scratch[b] = "present" => InProgress("verify", b) \/ DropIsDue(b)

RowsOrder == OneBackupJob /\ RowHasJob /\ TriggersFirst /\ ListedHaveEnded

AccountsInv ==
  /\ EngineInv /\ TypeOK /\ EngineOrder /\ RowsOrder /\ LoadedVerifies /\ DumpsAreStored
  /\ CompletedHasObject /\ RunningIsRunning /\ ScratchIsDue

\* What an executor holds is about a row.
LEMMA HeldIsAbout ==
  ASSUME EngineInv, EngineOrder, NEW x \in Executors, hand[x].step # "idle"
  PROVE  /\ hand[x].job \in Jobs /\ hand[x].job # Nothing /\ job[hand[x].job].status # "none"
         /\ job[hand[x].job].kind # Nothing /\ Of(x) \in Subjects
<1>1. hand[x].job \in Jobs /\ job[hand[x].job].status # "none"
  BY DEF EngineInv, OpsInv, HeldIsClaimed
<1>2. job[hand[x].job].kind # Nothing
  BY <1>1 DEF EngineOrder, JobsInOrder
<1> QED BY <1>1, <1>2, OperationAssumption DEF OperationAssumption, EngineInv, JobHasSubject, Of

LEMMA EffectIsAbout ==
  ASSUME EngineInv, EngineOrder, NEW e \in effects
  PROVE  /\ e.job \in Jobs /\ e.ok \in BOOLEAN /\ job[e.job].status \in Final /\ job[e.job].kind # Nothing
         /\ job[e.job].of \in Subjects
<1>1. e.job \in Jobs /\ e.ok \in BOOLEAN /\ job[e.job].status \in Final
  BY DEF EngineInv, OpsInv, OpsTypeOK, EffectsAgree, Effect, Final
<1>2. job[e.job].kind # Nothing
  BY <1>1 DEF EngineOrder, JobsInOrder, Final
<1> QED BY <1>1, <1>2 DEF EngineInv, JobHasSubject

\* A row's new contents.
RowsKeep ==
  /\ backup' \in [Subjects -> BackupRow]
  /\ \A b \in Subjects : (Ended(b) => Ended(b)') /\ (Stored(b) => Stored(b)')
  /\ \A b \in Subjects : backup'[b].status # "none" => backup[b].status # "none" \/ \E a \in asked : TriggerRow(a) /\ a.of = b

LEMMA RowWritten ==
  ASSUME TypeOK, NEW b \in Subjects, NEW r \in BackupRow, backup' = [backup EXCEPT ![b] = r],
         Ended(b) => r.status \notin {"none", "pending", "running"},
         Stored(b) => r.object \/ r.status \notin {"none", "pending", "running"},
         r.status # "none" => backup[b].status # "none" \/ \E a \in asked : TriggerRow(a) /\ a.of = b
  PROVE  RowsKeep
<1>1. backup \in [Subjects -> BackupRow]
  BY DEF TypeOK
<1>2. backup' \in [Subjects -> BackupRow] /\ backup'[b] = r /\ \A c \in Subjects \ {b} : backup'[c] = backup[c]
  BY <1>1
<1>3. ASSUME NEW c \in Subjects PROVE (Ended(c) => Ended(c)') /\ (Stored(c) => Stored(c)')
  BY <1>2 DEF Ended, Stored
<1>4. ASSUME NEW c \in Subjects, backup'[c].status # "none"
      PROVE  backup[c].status # "none" \/ \E a \in asked : TriggerRow(a) /\ a.of = c
  BY <1>2, <1>4
<1> QED BY <1>2, <1>3, <1>4 DEF RowsKeep

LEMMA RowsUnchanged ==
  ASSUME TypeOK, UNCHANGED backup
  PROVE  RowsKeep
<1>1. \A b \in Subjects : (Ended(b)' <=> Ended(b)) /\ (Stored(b)' <=> Stored(b))
  BY DEF Ended, Stored
<1> QED BY <1>1 DEF RowsKeep, TypeOK

\* A row whose object is written, whose status goes on or whose marks change.
LEMMA RowFields ==
  ASSUME TypeOK, NEW b \in Subjects
  PROVE  /\ backup \in [Subjects -> BackupRow] /\ backup[b] \in BackupRow
         /\ \A s \in {"none", "pending", "running", "deleted"} \cup Deletable :
              LET r == [backup[b] EXCEPT !.status = s] IN
              r \in BackupRow /\ r.status = s /\ r.object = backup[b].object /\ r.verify = backup[b].verify
         /\ \A o \in BOOLEAN :
              LET r == [backup[b] EXCEPT !.object = o] IN
              r \in BackupRow /\ r.status = backup[b].status /\ r.object = o
         /\ \A v \in {"none", "running", "passed", "failed"} :
              LET r == [backup[b] EXCEPT !.verify = v] IN
              r \in BackupRow /\ r.status = backup[b].status /\ r.object = backup[b].object
         /\ \A d \in BOOLEAN :
              LET r == [backup[b] EXCEPT !.due = d] IN
              r \in BackupRow /\ r.status = backup[b].status /\ r.object = backup[b].object
<1>1. backup \in [Subjects -> BackupRow] /\ backup[b] \in BackupRow
  BY DEF TypeOK
<1> QED BY <1>1 DEF BackupRow

\* The object of a row that has ended may go, any other stays.
LEMMA ObjectWritten ==
  ASSUME TypeOK, NEW b \in Subjects, NEW o \in BOOLEAN, backup' = [backup EXCEPT ![b].object = o], o \/ Ended(b)
  PROVE  /\ RowsKeep
         /\ \A c \in Subjects : backup'[c].status = backup[c].status
         /\ backup'[b].object = o
         /\ \A c \in Subjects \ {b} : backup'[c] = backup[c]
<1> DEFINE r == [backup[b] EXCEPT !.object = o]
<1>1. r \in BackupRow /\ r.status = backup[b].status /\ r.object = o /\ backup \in [Subjects -> BackupRow]
  BY RowFields
<1>2. backup' = [backup EXCEPT ![b] = r]
  OBVIOUS
<1> HIDE DEF r
<1>3. RowsKeep
  BY <1>1, <1>2, RowWritten DEF Ended
<1> QED BY <1>1, <1>2, <1>3

LEMMA StatusWritten ==
  ASSUME TypeOK, NEW b \in Subjects, NEW s \in {"running", "deleted"} \cup Deletable,
         backup' = [backup EXCEPT ![b].status = s], s = "running" => backup[b].status = "pending",
         backup[b].status # "none"
  PROVE  /\ RowsKeep
         /\ backup'[b].status = s
         /\ \A c \in Subjects : backup'[c].object = backup[c].object
         /\ \A c \in Subjects \ {b} : backup'[c] = backup[c]
<1> DEFINE r == [backup[b] EXCEPT !.status = s]
<1>1. r \in BackupRow /\ r.status = s /\ r.object = backup[b].object /\ backup \in [Subjects -> BackupRow]
  BY RowFields
<1>2. backup' = [backup EXCEPT ![b] = r]
  OBVIOUS
<1> HIDE DEF r
<1>3. Ended(b) => r.status \notin {"none", "pending", "running"}
  BY <1>1 DEF Ended, Deletable
<1>4. Stored(b) => r.object \/ r.status \notin {"none", "pending", "running"}
  BY <1>1, <1>3 DEF Stored
<1>5. RowsKeep
  BY <1>1, <1>2, <1>3, <1>4, RowWritten
<1> QED BY <1>1, <1>2, <1>5

LEMMA MarkWritten ==
  ASSUME TypeOK, NEW b \in Subjects,
         \/ \E v \in {"none", "running", "passed", "failed"} : backup' = [backup EXCEPT ![b].verify = v]
         \/ \E d \in BOOLEAN : backup' = [backup EXCEPT ![b].due = d]
  PROVE  /\ RowsKeep
         /\ \A c \in Subjects : backup'[c].status = backup[c].status /\ backup'[c].object = backup[c].object
<1>0. backup \in [Subjects -> BackupRow]
  BY DEF TypeOK
<1>1. PICK r \in BackupRow :
        backup' = [backup EXCEPT ![b] = r] /\ r.status = backup[b].status /\ r.object = backup[b].object
  <2>1. CASE \E v \in {"none", "running", "passed", "failed"} : backup' = [backup EXCEPT ![b].verify = v]
    <3>1. PICK v \in {"none", "running", "passed", "failed"} :
            backup' = [backup EXCEPT ![b] = [backup[b] EXCEPT !.verify = v]]
      BY <2>1
    <3> QED BY <3>1, RowFields
  <2>2. CASE \E d \in BOOLEAN : backup' = [backup EXCEPT ![b].due = d]
    <3>1. PICK d \in BOOLEAN : backup' = [backup EXCEPT ![b] = [backup[b] EXCEPT !.due = d]]
      BY <2>2
    <3> QED BY <3>1, RowFields
  <2> QED BY <2>1, <2>2
<1>2. RowsKeep
  BY <1>1, RowWritten DEF Ended, Stored
<1> QED BY <1>0, <1>1, <1>2


\* Every step leaves the rows that have ended so, and what is stored until then.
LEMMA NextRows == AccountsInv /\ [Next]_vars => RowsKeep
<1> SUFFICES ASSUME AccountsInv, [Next]_vars PROVE RowsKeep
  OBVIOUS
<1>t. TypeOK /\ EngineInv /\ EngineOrder /\ TriggersFirst /\ ListedHaveEnded
  BY DEF AccountsInv, RowsOrder
<1>u. CASE UNCHANGED backup
  BY <1>t, <1>u, RowsUnchanged
<1>1. CASE \E b \in Subjects : DeleteObject(b)
  <2>1. PICK b \in Subjects : DeleteObject(b)
    BY <1>1
  <2>2. backup[b].status \in Deletable /\ backup[b].object \in BOOLEAN
    BY <1>t, <2>1, RowFields DEF DeleteObject, BackupRow
  <2>3. Ended(b)
    BY <2>2 DEF Ended, Deletable
  <2>4. PICK o \in BOOLEAN : backup' = [backup EXCEPT ![b].object = o]
    BY <2>1, <2>2 DEF DeleteObject
  <2> QED BY <1>t, <2>3, <2>4, ObjectWritten
<1>2. CASE \E b \in Subjects : Expire(b)
  BY <1>t, <1>2, MarkWritten DEF Expire
<1>3. CASE \E a \in asked : TriggerRow(a)
  <2>1. PICK a \in asked : TriggerRow(a)
    BY <1>3
  <2>2. a.of \in Subjects /\ backup[a.of].status = "none" /\ a.kind = "trigger"
    BY <1>t, <2>1 DEF TypeOK, Request, TriggersFirst, TriggerRow
  <2> DEFINE r == [backup[a.of] EXCEPT !.status = "pending"]
  <2>3. r \in BackupRow /\ r.object = backup[a.of].object /\ backup' = [backup EXCEPT ![a.of] = r]
    BY <1>t, <2>1, <2>2, RowFields DEF TriggerRow
  <2> HIDE DEF r
  <2>4. ~Ended(a.of) /\ (Stored(a.of) => r.object)
    BY <2>2, <2>3 DEF Ended, Stored
  <2> QED BY <1>t, <2>1, <2>2, <2>3, <2>4, RowWritten
<1>4. CASE \E a \in asked : VerifyMark(a)
  <2>1. PICK a \in asked : VerifyMark(a)
    BY <1>4
  <2>2. a.of \in Subjects
    BY <1>t DEF TypeOK, Request
  <2> QED BY <1>t, <2>1, <2>2, MarkWritten DEF VerifyMark
<1>5. CASE \E a \in asked : DeleteMark(a)
  <2>1. PICK a \in asked : DeleteMark(a)
    BY <1>5
  <2>2. a.of \in Subjects /\ backup \in [Subjects -> BackupRow]
    BY <1>t DEF TypeOK, Request
  <2>3. CASE backup[a.of].status \in Deletable
    <3>1. backup' = [backup EXCEPT ![a.of].status = "deleted"] /\ backup[a.of].status # "none"
      BY <2>1, <2>3 DEF DeleteMark, Deletable
    <3> QED BY <1>t, <2>2, <3>1, StatusWritten
  <2>4. CASE backup[a.of].status \notin Deletable
    <3>1. backup' = [backup EXCEPT ![a.of].status = @]
      BY <2>1, <2>4 DEF DeleteMark
    <3>2. backup' = backup
      BY <2>2, <3>1 DEF BackupRow
    <3> QED BY <1>t, <3>2, RowsUnchanged
  <2> QED BY <2>3, <2>4
<1>6. CASE \E x \in Executors : PrepareJob(x)
  <2>1. PICK x \in Executors : PrepareJob(x)
    BY <1>6
  <2>2. CASE backup' = backup
    BY <1>t, <2>2, RowsUnchanged
  <2>3. CASE backup' # backup
    <3>1. backup[Of(x)].status = "pending" /\ backup' = [backup EXCEPT ![Of(x)].status = "running"]
      BY <2>1, <2>3 DEF PrepareJob
    <3>2. Of(x) \in Subjects
      BY <1>t, <2>1, HeldIsAbout DEF PrepareJob, Prepare
    <3> QED BY <1>t, <3>1, <3>2, StatusWritten
  <2> QED BY <2>2, <2>3
<1>7. CASE \E x \in Executors : Upload(x)
  <2>1. PICK x \in Executors : Upload(x)
    BY <1>7
  <2>2. Of(x) \in Subjects
    BY <1>t, <2>1, HeldIsAbout DEF Upload, Execute
  <2> QED BY <1>t, <2>1, <2>2, ObjectWritten DEF Upload
<1>8. CASE \E e \in effects : CompleteBackup(e)
  <2>1. PICK e \in effects : CompleteBackup(e)
    BY <1>8
  <2>2. job[e.job].of \in Subjects
    BY <1>t, EffectIsAbout
  <2>3. CASE backup' = backup
    BY <1>t, <2>3, RowsUnchanged
  <2>4. CASE backup' # backup
    <3>1. PICK s \in {"completed", "failed"} : backup' = [backup EXCEPT ![job[e.job].of].status = s]
      BY <2>1, <2>4 DEF CompleteBackup, Outcome
    <3>2. backup[job[e.job].of].status # "none" /\ s \in {"running", "deleted"} \cup Deletable /\ s # "running"
      BY <2>1, <2>4 DEF CompleteBackup, Deletable
    <3> QED BY <1>t, <2>2, <3>1, <3>2, StatusWritten
  <2> QED BY <2>3, <2>4
<1>9. CASE \E e \in effects : RecordVerification(e)
  <2>1. PICK e \in effects : RecordVerification(e)
    BY <1>9
  <2>2. job[e.job].of \in Subjects
    BY <1>t, EffectIsAbout
  <2> QED BY <1>t, <2>1, <2>2, MarkWritten DEF RecordVerification
<1>10. CASE \E r \in Replicas : \E b \in prune[r].list : PruneObject(r, b)
  <2>1. PICK r \in Replicas : \E b \in prune[r].list : PruneObject(r, b)
    BY <1>10
  <2>2. PICK b \in prune[r].list : PruneObject(r, b)
    BY <2>1
  <2>3. b \in Subjects /\ Ended(b)
    BY <1>t DEF TypeOK, ListedHaveEnded
  <2> QED BY <1>t, <2>2, <2>3, ObjectWritten DEF PruneObject
<1>11. CASE \E r \in Replicas : PruneMark(r)
  <2>1. PICK r \in Replicas : PruneMark(r)
    BY <1>11
  <2>2. prune[r].at \in Subjects /\ Ended(prune[r].at)
    BY <1>t, <2>1 DEF TypeOK, ListedHaveEnded, PruneMark
  <2>3. "expired" \in {"running", "deleted"} \cup Deletable
    BY DEF Deletable
  <2> QED BY <1>t, <2>1, <2>2, <2>3, StatusWritten DEF PruneMark, Ended
<1> QED
  <2>1. CASE \E b \in Subjects : \E j \in Jobs : TriggerJob(b, j) \/ VerifyJob(b, j)
    BY <1>u, <2>1 DEF TriggerJob, VerifyJob
  <2>2. CASE \E a \in asked : RequestDies(a)
    BY <1>u, <2>2 DEF RequestDies
  <2>3. CASE \E x \in Executors : Working(x) \/ Dies(x)
    BY <1>u, <1>6, <1>7, <2>3
       DEF Working, ClaimJob, RefuseJob, Restore, CountTables, Drop, ExecuteFails, ReportJob, Dies
  <2>4. CASE \E e \in effects : ApplyEffect(e)
    BY <1>u, <1>8, <1>9, <2>4 DEF ApplyEffect, EnqueueDrop, DropDone
  <2>5. CASE \E r \in Replicas : FailStuckJobs(r) \/ Prune(r)
    BY <1>u, <1>10, <1>11, <2>5 DEF FailStuckJobs, Prune, ListExpired
  <2>6. CASE (\E j \in Jobs : Ages(j)) \/ UNCHANGED vars
    BY <1>u, <2>6 DEF Ages, vars
  <2> QED BY <1>1, <1>2, <1>3, <1>4, <1>5, <2>1, <2>2, <2>3, <2>4, <2>5, <2>6 DEF Next, Continue


\* Which requests are under way, what a pass has listed, what executors are
\* doing, and which scratch databases there are.
AskedMove ==
  \A a \in asked' :
    \/ a \in asked
    \/ \E b \in Subjects, j \in Jobs : TriggerJob(b, j) /\ a = [kind |-> "trigger", of |-> b, job |-> j]
    \/ a \in Request /\ a.kind # "trigger"

PruneMoves ==
  /\ prune' \in [Replicas -> [list : SUBSET Subjects, at : Subjects \cup {Nothing}]]
  /\ \A r \in Replicas :
       /\ \A b \in prune'[r].list : b \in prune[r].list \/ backup[b].status = "completed"
       /\ prune'[r].at # Nothing => prune'[r].at = prune[r].at \/ prune'[r].at \in prune[r].list

HandsMove ==
  /\ loaded' \subseteq Executors
  /\ \A x \in Executors :
       /\ hand'[x].step = "reporting" /\ hand'[x].ok => hand'[x] = hand[x] \/ Upload(x) \/ CountTables(x) \/ Drop(x)
       /\ x \in loaded' => hand'[x] = hand[x] /\ (x \in loaded \/ (Doing(x, "verify") /\ hand[x].step = "executing"))

ScratchMoves ==
  /\ scratch' \in [Subjects -> {"absent", "present"}]
  /\ half' \subseteq Jobs
  /\ \A b \in Subjects : scratch'[b] = "present" =>
       \/ scratch[b] = "present"
       \/ \E x \in Executors : /\ hand[x].step = "executing" /\ Doing(x, "verify") /\ Of(x) = b
                               /\ UNCHANGED <<job, hand, effects>>

OthersMove == AskedMove /\ PruneMoves /\ HandsMove /\ ScratchMoves

LEMMA OthersUnchanged ==
  ASSUME AccountsInv
  PROVE  /\ asked' \subseteq asked => AskedMove
         /\ prune' = prune => PruneMoves
         /\ hand' = hand /\ loaded' = loaded => HandsMove
         /\ scratch' = scratch /\ half' = half => ScratchMoves
<1>t. TypeOK /\ LoadedVerifies
  BY DEF AccountsInv
<1>1. prune' = prune => PruneMoves
  BY <1>t DEF TypeOK, PruneMoves
<1>2. hand' = hand /\ loaded' = loaded => HandsMove
  BY <1>t DEF TypeOK, HandsMove
<1>3. scratch' = scratch /\ half' = half => ScratchMoves
  BY <1>t DEF TypeOK, ScratchMoves
<1>4. asked' \subseteq asked => AskedMove
  BY DEF AskedMove
<1> QED BY <1>1, <1>2, <1>3, <1>4

LEMMA OthersAtRequests ==
  ASSUME AccountsInv, NEW b \in Subjects, (\E j \in Jobs : TriggerJob(b, j) \/ VerifyJob(b, j)) \/ DeleteObject(b) \/ Expire(b)
  PROVE  OthersMove
<1>1. UNCHANGED <<prune, hand, loaded, scratch, half>>
  BY DEF TriggerJob, VerifyJob, DeleteObject, Expire, opsVars
<1>2. AskedMove
  <2>1. CASE \E j \in Jobs : TriggerJob(b, j)
    BY <2>1 DEF AskedMove, TriggerJob
  <2>2. CASE \E j \in Jobs : VerifyJob(b, j)
    BY <2>2 DEF AskedMove, VerifyJob, Request
  <2>3. CASE DeleteObject(b)
    BY <2>3 DEF AskedMove, DeleteObject, Request
  <2>4. CASE Expire(b)
    BY <2>4, OthersUnchanged DEF Expire
  <2> QED BY <2>1, <2>2, <2>3, <2>4
<1> QED BY <1>1, <1>2, OthersUnchanged DEF OthersMove

LEMMA OthersAtWork ==
  ASSUME AccountsInv, NEW x \in Executors, Working(x)
  PROVE  OthersMove
<1>t. TypeOK /\ EngineInv /\ EngineOrder /\ LoadedVerifies /\ hand \in [Executors -> Hand]
  BY DEF AccountsInv, TypeOK, OpsTypeOK
<1>1. asked' = asked /\ prune' = prune /\ half' = half
  BY DEF Working, ClaimJob, PrepareJob, RefuseJob, Upload, Restore, CountTables, Drop, ExecuteFails, ReportJob
<1>2. AskedMove /\ PruneMoves
  BY <1>1, OthersUnchanged
<1>3. ScratchMoves
  <2>1. CASE Restore(x)
    <3>1. CASE scratch' = scratch
      BY <1>1, <3>1, OthersUnchanged
    <3>2. CASE scratch' # scratch
      <4>1. /\ scratch' = [scratch EXCEPT ![Of(x)] = "present"] /\ UNCHANGED <<job, hand, effects>>
            /\ Doing(x, "verify") /\ hand[x].step = "executing"
        BY <2>1, <3>2 DEF Restore
      <4> QED BY <1>t, <1>1, <4>1 DEF ScratchMoves, TypeOK
    <3> QED BY <3>1, <3>2
  <2>2. CASE Drop(x)
    <3>1. scratch' = [scratch EXCEPT ![Of(x)] = "absent"]
      BY <2>2 DEF Drop
    <3> QED BY <1>t, <1>1, <3>1 DEF ScratchMoves, TypeOK
  <2>3. CASE scratch' = scratch
    BY <1>1, <2>3, OthersUnchanged
  <2> QED
    BY <2>1, <2>2, <2>3 DEF Working, ClaimJob, PrepareJob, RefuseJob, Upload, CountTables, ExecuteFails, ReportJob
<1>4. HandsMove
  <2> DEFINE Good == hand'[x].step = "reporting" /\ hand'[x].ok
  <2>1. (\E j \in Jobs : ClaimJob(x, j)) \/ PrepareJob(x) \/ RefuseJob(x) \/ ReportJob(x) =>
          /\ hand'[x].step # "executing" \/ hand[x].step = "claimed"
          /\ ~Good /\ loaded' = loaded /\ hand[x].step # "executing"
          /\ \A y \in Executors \ {x} : hand'[y] = hand[y]
    <3>1. CASE \E j \in Jobs : ClaimJob(x, j)
      BY <1>t, <3>1 DEF ClaimJob, ClaimNext
    <3>2. CASE PrepareJob(x)
      BY <1>t, <3>2 DEF PrepareJob, Prepare, Hand
    <3>3. CASE RefuseJob(x)
      BY <1>t, <3>3 DEF RefuseJob, Refuse, Hand
    <3>4. CASE ReportJob(x)
      BY <1>t, <3>4 DEF ReportJob, Report, IdleHand
    <3> QED BY <3>1, <3>2, <3>3, <3>4
  <2>2. Execute(x, FALSE) => ~Good /\ \A y \in Executors \ {x} : hand'[y] = hand[y]
    BY <1>t DEF Execute, Hand
  <2>3. \A ok \in BOOLEAN : Execute(x, ok) => \A y \in Executors \ {x} : hand'[y] = hand[y]
    BY <1>t DEF Execute
  <2>4. ExecuteFails(x) => ~Good /\ loaded' = loaded \ {x} /\ \A y \in Executors \ {x} : hand'[y] = hand[y]
    BY <2>2 DEF ExecuteFails
  <2>5. Upload(x) \/ Drop(x) => loaded' = loaded /\ x \notin loaded /\ \A y \in Executors \ {x} : hand'[y] = hand[y]
    BY <1>t, <2>3 DEF Upload, Drop, LoadedVerifies, Doing
  <2>6. CountTables(x) => loaded' = loaded \ {x} /\ \A y \in Executors \ {x} : hand'[y] = hand[y]
    BY <2>3 DEF CountTables
  <2>7. Restore(x) =>
          \/ hand' = hand /\ loaded' = loaded \cup {x} /\ Doing(x, "verify") /\ hand[x].step = "executing"
          \/ ~Good /\ loaded' = loaded /\ x \notin loaded /\ \A y \in Executors \ {x} : hand'[y] = hand[y]
    BY <2>2 DEF Restore
  <2>8. loaded \subseteq Executors /\ (x \in loaded => hand[x].step = "executing")
    BY <1>t DEF LoadedVerifies, TypeOK
  <2>9. CASE Restore(x) /\ hand' = hand
    BY <2>7, <2>8, <2>9 DEF HandsMove
  <2>10. CASE ~(Restore(x) /\ hand' = hand)
    <3>1. /\ Good => Upload(x) \/ CountTables(x) \/ Drop(x)
          /\ \A y \in Executors \ {x} : hand'[y] = hand[y]
          /\ loaded' \subseteq loaded /\ x \notin loaded'
      BY <2>1, <2>4, <2>5, <2>6, <2>7, <2>8, <2>10 DEF Working
    <3> QED BY <2>8, <3>1 DEF HandsMove
  <2> QED BY <2>9, <2>10
<1> QED BY <1>2, <1>3, <1>4 DEF OthersMove

LEMMA OthersAtDeath ==
  ASSUME AccountsInv, NEW x \in Executors, Dies(x)
  PROVE  OthersMove
<1>t. TypeOK /\ LoadedVerifies /\ hand \in [Executors -> Hand]
  BY DEF AccountsInv, TypeOK, OpsTypeOK
<1>1. AskedMove /\ ScratchMoves
  BY OthersUnchanged DEF Dies
<1>2. \A y \in Executors : hand'[y] = hand[y] \/ (y = x /\ hand'[y].step = "idle")
  BY <1>t DEF Dies, Crash, OtherFault, IdleHand
<1>3. loaded' = loaded \ {x}
  BY DEF Dies
<1>4. HandsMove
  BY <1>t, <1>2, <1>3 DEF HandsMove, TypeOK
<1>5. NotPruning \in [list : SUBSET Subjects, at : Subjects \cup {Nothing}] /\ NotPruning.list = {} /\ NotPruning.at = Nothing
  BY DEF NotPruning
<1>6. prune' = [r \in Replicas |-> IF r = x THEN NotPruning ELSE prune[r]]
  BY DEF Dies
<1>7. prune' \in [Replicas -> [list : SUBSET Subjects, at : Subjects \cup {Nothing}]]
  BY <1>t, <1>5, <1>6 DEF TypeOK
<1>8. \A r \in Replicas : prune'[r] = prune[r] \/ prune'[r] = NotPruning
  BY <1>6
<1>9. PruneMoves
  BY <1>5, <1>7, <1>8 DEF PruneMoves
<1> QED BY <1>1, <1>4, <1>9 DEF OthersMove

LEMMA OthersAtPruning ==
  ASSUME AccountsInv, NEW r \in Replicas, Prune(r)
  PROVE  OthersMove
<1> DEFINE Pass == [list : SUBSET Subjects, at : Subjects \cup {Nothing}]
<1>t. prune \in [Replicas -> Pass] /\ prune[r] \in Pass
  BY DEF AccountsInv, TypeOK
<1>1. UNCHANGED <<asked, hand, loaded, scratch, half>>
  BY DEF Prune, ListExpired, PruneObject, PruneMark, opsVars
<1>2. PICK p \in Pass : /\ prune' = [prune EXCEPT ![r] = p]
                        /\ \A b \in p.list : b \in prune[r].list \/ backup[b].status = "completed"
                        /\ p.at # Nothing => p.at = prune[r].at \/ p.at \in prune[r].list
  <2>1. CASE ListExpired(r)
    <3> DEFINE p == [prune[r] EXCEPT !.list = ListedExpired]
    <3>1. prune' = [prune EXCEPT ![r] = p]
      BY <2>1 DEF ListExpired
    <3>2. p \in Pass /\ p.list = ListedExpired /\ p.at = prune[r].at
      BY <1>t DEF ListedExpired
    <3> QED BY <3>1, <3>2 DEF ListedExpired
  <2>2. CASE \E b \in prune[r].list : PruneObject(r, b)
    <3>1. PICK b \in prune[r].list : PruneObject(r, b)
      BY <2>2
    <3> DEFINE p == [prune[r] EXCEPT !.at = b]
    <3>2. prune' = [prune EXCEPT ![r] = p]
      BY <3>1 DEF PruneObject
    <3>3. p \in Pass /\ p.list = prune[r].list /\ p.at = b
      BY <1>t
    <3> QED BY <3>2, <3>3
  <2>3. CASE PruneMark(r)
    <3> DEFINE p == [list |-> prune[r].list \ {prune[r].at}, at |-> Nothing]
    <3>1. prune' = [prune EXCEPT ![r] = p]
      BY <2>3 DEF PruneMark
    <3>2. p \in Pass /\ p.list \subseteq prune[r].list /\ p.at = Nothing
      BY <1>t
    <3> QED BY <3>1, <3>2
  <2> QED BY <2>1, <2>2, <2>3 DEF Prune
<1>3. prune' \in [Replicas -> Pass] /\ prune'[r] = p /\ \A q \in Replicas \ {r} : prune'[q] = prune[q]
  BY <1>t, <1>2
<1>4. PruneMoves
  BY <1>2, <1>3 DEF PruneMoves
<1> QED BY <1>1, <1>4, OthersUnchanged DEF OthersMove

LEMMA NextOthers == AccountsInv /\ [Next]_vars => OthersMove
<1> SUFFICES ASSUME AccountsInv, [Next]_vars PROVE OthersMove
  OBVIOUS
<1>1. CASE \E a \in asked : Continue(a) \/ RequestDies(a)
  <2>1. asked' \subseteq asked /\ UNCHANGED <<prune, hand, loaded, scratch, half>>
    BY <1>1 DEF Continue, TriggerRow, VerifyMark, DeleteMark, RequestDies, OtherFault, opsVars
  <2> QED BY <2>1, OthersUnchanged DEF OthersMove
<1>2. CASE \E e \in effects : ApplyEffect(e)
  <2>1. UNCHANGED <<asked, prune, hand, loaded, scratch>>
    BY <1>2 DEF ApplyEffect, CompleteBackup, RecordVerification, EnqueueDrop, DropDone, Apply, opsVars
  <2>2. half' \subseteq Jobs
    <3>1. \A e \in effects : e.job \in Jobs
      BY EffectIsAbout DEF AccountsInv
    <3>2. half \subseteq Jobs
      BY DEF AccountsInv, TypeOK
    <3> QED BY <1>2, <3>1, <3>2 DEF ApplyEffect, CompleteBackup, RecordVerification, EnqueueDrop, DropDone
  <2>3. ScratchMoves
    BY <2>1, <2>2 DEF ScratchMoves, AccountsInv, TypeOK
  <2> QED BY <2>1, <2>3, OthersUnchanged DEF OthersMove
<1>3. CASE (\E r \in Replicas : FailStuckJobs(r)) \/ (\E j \in Jobs : Ages(j)) \/ UNCHANGED vars
  <2>1. UNCHANGED <<asked, prune, hand, loaded, scratch, half>>
    BY <1>3 DEF FailStuckJobs, Housekeep, ListStuck, FailStuck, Ages, ComeOfAge, vars, opsVars
  <2> QED BY <2>1, OthersUnchanged DEF OthersMove
<1> QED BY <1>1, <1>2, <1>3, OthersAtRequests, OthersAtWork, OthersAtDeath, OthersAtPruning DEF Next


\* What every step keeps of the rows and of the engine.
LEMMA NextFacts ==
  AccountsInv /\ [Next]_vars =>
    EngineInv' /\ EngineOrder' /\ EngineMoves /\ RowsKeep /\ OthersMove /\ [OpsNext]_opsVars
BY NextMaps, NextEngine, NextEngineMoves, NextRows, NextOthers DEF AccountsInv

LEMMA NextTypes == AccountsInv /\ [Next]_vars => TypeOK'
<1> SUFFICES ASSUME AccountsInv, [Next]_vars PROVE TypeOK'
  OBVIOUS
<1>1. EngineInv' /\ RowsKeep /\ OthersMove
  BY NextFacts
<1>2. OpsTypeOK' /\ asked \subseteq Request
  BY <1>1 DEF EngineInv, OpsInv, AccountsInv, TypeOK
<1>3. asked' \subseteq Request
  BY <1>1, <1>2 DEF OthersMove, AskedMove, Request
<1> QED BY <1>1, <1>2, <1>3 DEF TypeOK, RowsKeep, OthersMove, PruneMoves, HandsMove, ScratchMoves

\* A step that creates a job, and what it creates.
LEMMA Creates ==
  ASSUME AccountsInv, [Next]_vars, NEW j \in Jobs, job[j].status = "none", job'[j].status # "none"
  PROVE  /\ \A i \in Jobs \ {j} : job'[i] = job[i]
         /\ UNCHANGED <<hand, backup, scratch>>
         /\ \/ \E b \in Subjects : TriggerJob(b, j) /\ job'[j].kind = "backup" /\ job'[j].of = b
            \/ job'[j].kind = "verify"
            \/ \E e \in effects : EnqueueDrop(e, j) /\ job'[j].kind = "drop" /\ job'[j].of = job[e.job].of
<1>t. OpsInv /\ EngineInv /\ EngineOrder /\ JobsInOrder /\ JobsInOrder'
  BY NextFacts DEF AccountsInv, EngineOrder, EngineInv
<1>1. ~EngineStep
  <2>1. ASSUME EngineStep PROVE FALSE
    <3>1. job'[j].kind = job[j].kind
      BY <1>t, <2>1, EngineAbout DEF AboutStays
    <3>2. job[j].kind = Nothing /\ job'[j].kind # Nothing
      BY <1>t DEF JobsInOrder, NoJob
    <3> QED BY <3>1, <3>2
  <2> QED BY <2>1
<1>2. CASE \E b \in Subjects, i \in Jobs : TriggerJob(b, i)
  <2>1. PICK b \in Subjects, i \in Jobs : TriggerJob(b, i)
    BY <1>2
  <2>2. job'[i].kind = "backup" /\ job'[i].of = b /\ \A k \in Jobs \ {i} : job'[k] = job[k]
    BY <1>t, <2>1, NewJobAbout DEF TriggerJob
  <2>3. i = j
    BY <2>2
  <2> QED BY <2>1, <2>2, <2>3 DEF TriggerJob
<1>3. CASE \E b \in Subjects, i \in Jobs : VerifyJob(b, i)
  <2>1. PICK b \in Subjects, i \in Jobs : VerifyJob(b, i)
    BY <1>3
  <2>2. job'[i].kind = "verify" /\ \A k \in Jobs \ {i} : job'[k] = job[k]
    BY <1>t, <2>1, NewJobAbout DEF VerifyJob
  <2>3. i = j
    BY <2>2
  <2> QED BY <2>1, <2>2, <2>3 DEF VerifyJob
<1>4. CASE \E e \in effects, i \in Jobs : EnqueueDrop(e, i)
  <2>1. PICK e \in effects, i \in Jobs : EnqueueDrop(e, i)
    BY <1>4
  <2>2. job'[i].kind = "drop" /\ job'[i].of = job[e.job].of /\ \A k \in Jobs \ {i} : job'[k] = job[k]
    BY <1>t, <2>1, NewJobAbout DEF EnqueueDrop
  <2>3. i = j
    BY <2>2
  <2> QED BY <2>1, <2>2, <2>3 DEF EnqueueDrop
<1> QED
  <2>u. ~UNCHANGED opsVars
    BY <1>1 DEF EngineStep
  <2>1. ~(\E b \in Subjects : DeleteObject(b) \/ Expire(b))
    BY <2>u DEF DeleteObject, Expire
  <2>2. ~(\E a \in asked : Continue(a) \/ RequestDies(a))
    BY <1>1, <2>u DEF Continue, TriggerRow, VerifyMark, DeleteMark, RequestDies, EngineStep
  <2>3. ~(\E x \in Executors : Working(x))
    <3>1. ASSUME NEW x \in Executors, Working(x) PROVE Work(x) \/ UNCHANGED opsVars
      <4>1. CASE CountTables(x)
        <5>1. (scratch[Of(x)] = "present") \in BOOLEAN /\ Execute(x, scratch[Of(x)] = "present")
          BY <4>1 DEF CountTables
        <5> QED BY <5>1 DEF Work
      <4>2. CASE Restore(x)
        <5>1. Execute(x, FALSE) \/ UNCHANGED opsVars
          BY <4>2 DEF Restore, opsVars
        <5> QED BY <5>1 DEF Work
      <4>3. CASE Upload(x) \/ Drop(x) \/ ExecuteFails(x)
        <5>1. \E ok \in BOOLEAN : Execute(x, ok)
          BY <4>3 DEF Upload, Drop, ExecuteFails
        <5> QED BY <5>1 DEF Work
      <4>4. CASE (\E i \in Jobs : ClaimJob(x, i)) \/ PrepareJob(x) \/ RefuseJob(x) \/ ReportJob(x)
        BY <4>4 DEF ClaimJob, PrepareJob, RefuseJob, ReportJob, Work
      <4> QED BY <3>1, <4>1, <4>2, <4>3, <4>4 DEF Working
    <3> QED BY <1>1, <2>u, <3>1 DEF EngineStep
  <2>4. ~(\E x \in Executors : Dies(x))
    BY <1>1 DEF Dies, EngineStep
  <2>5. ~(\E e \in effects : CompleteBackup(e) \/ RecordVerification(e) \/ DropDone(e))
    <3>1. \A e \in effects : CompleteBackup(e) \/ DropDone(e) => Apply(e)
      BY DEF CompleteBackup, DropDone, Apply
    <3> QED BY <1>1, <2>u, <3>1 DEF EngineStep, RecordVerification
  <2>6. ~(\E r \in Replicas : FailStuckJobs(r) \/ Prune(r))
    BY <1>1, <2>u DEF FailStuckJobs, Prune, ListExpired, PruneObject, PruneMark, EngineStep
  <2>7. ~(\E i \in Jobs : Ages(i)) /\ ~UNCHANGED vars
    BY <1>1, <2>u DEF Ages, EngineStep, vars, opsVars
  <2> QED BY <1>2, <1>3, <1>4, <2>1, <2>2, <2>3, <2>4, <2>5, <2>6, <2>7 DEF Next, ApplyEffect

LEMMA KindsAreJobs == Nothing \notin {"backup", "verify", "drop"}
BY BackupAssumption, OperationAssumption DEF BackupAssumption, OperationAssumption, BackupKinds

\* A job of a kind was there, or is created.
LEMMA JobsBefore ==
  ASSUME AccountsInv, [Next]_vars, NEW j \in Jobs
  PROVE  /\ job[j].kind # Nothing => job[j].status # "none" /\ job'[j].status # "none" /\ job'[j].kind = job[j].kind /\ job'[j].of = job[j].of
         /\ job'[j].kind # Nothing => job'[j].status # "none"
         /\ job[j].status # "none" => job'[j].kind = job[j].kind /\ job'[j].of = job[j].of
<1>1. JobsInOrder /\ JobsInOrder' /\ JobsLast
  BY NextFacts DEF AccountsInv, EngineOrder, EngineMoves
<1> QED BY <1>1 DEF JobsInOrder, JobsLast, NoJob

LEMMA NextOrder == AccountsInv /\ [Next]_vars => RowsOrder'
<1> SUFFICES ASSUME AccountsInv, [Next]_vars PROVE RowsOrder'
  OBVIOUS
<1>t. TypeOK /\ EngineInv /\ EngineOrder /\ RowsOrder /\ EngineMoves /\ RowsKeep /\ OthersMove
  BY NextFacts DEF AccountsInv
<1>1. ASSUME NEW j \in Jobs, job'[j].kind = "backup"
      PROVE  (job[j].kind = "backup" /\ job'[j].of = job[j].of) \/ \E b \in Subjects : TriggerJob(b, j) /\ job'[j].of = b
                /\ \A i \in Jobs \ {j} : job'[i] = job[i]
  <2>1. job'[j].status # "none"
    BY <1>1, JobsBefore, KindsAreJobs
  <2>2. CASE job[j].status = "none"
    BY <1>1, <2>1, <2>2, Creates
  <2>3. CASE job[j].status # "none"
    BY <1>1, <2>3, JobsBefore
  <2> QED BY <2>2, <2>3
<1>2. OneBackupJob'
  <2>1. ASSUME NEW i \in Jobs, NEW j \in Jobs, job'[i].kind = "backup", job'[j].kind = "backup", job'[i].of = job'[j].of, i # j
        PROVE  FALSE
    <3>1. CASE (job[i].kind = "backup" /\ job'[i].of = job[i].of) /\ (job[j].kind = "backup" /\ job'[j].of = job[j].of)
      BY <1>t, <2>1, <3>1 DEF RowsOrder, OneBackupJob
    <3>2. ASSUME NEW k \in Jobs, NEW l \in Jobs, k # l, job'[k].kind = "backup", job'[l].of = job'[k].of,
                 NEW b \in Subjects, TriggerJob(b, l), job'[l].of = b, \A m \in Jobs \ {l} : job'[m] = job[m]
          PROVE  FALSE
      BY <3>2 DEF TriggerJob
    <3> QED BY <1>1, <2>1, <3>1, <3>2
  <2> QED BY <2>1 DEF OneBackupJob
<1>3. RowHasJob'
  <2>1. ASSUME NEW b \in Subjects, backup'[b].status # "none" PROVE \E j \in Jobs : job[j].kind = "backup" /\ job[j].of = b
    <3>1. CASE backup[b].status # "none"
      BY <1>t, <3>1 DEF RowsOrder, RowHasJob
    <3>2. CASE \E a \in asked : TriggerRow(a) /\ a.of = b
      <4>1. PICK a \in asked : TriggerRow(a) /\ a.of = b
        BY <3>2
      <4>2. a.job \in Jobs /\ job[a.job].kind = "backup" /\ job[a.job].of = b
        BY <1>t, <4>1 DEF RowsOrder, TriggersFirst, TriggerRow
      <4> QED BY <4>2
    <3> QED BY <1>t, <2>1, <3>1, <3>2 DEF RowsKeep
  <2>2. ASSUME NEW b \in Subjects, backup'[b].status # "none" PROVE \E j \in Jobs : job'[j].kind = "backup" /\ job'[j].of = b
    <3>1. PICK j \in Jobs : job[j].kind = "backup" /\ job[j].of = b
      BY <2>1, <2>2
    <3> QED BY <3>1, JobsBefore, KindsAreJobs
  <2> QED BY <2>2 DEF RowHasJob
<1>4. TriggersFirst'
  <2>1. ASSUME NEW a \in asked', a.kind = "trigger"
        PROVE  a.job \in Jobs /\ job'[a.job].kind = "backup" /\ job'[a.job].of = a.of /\ backup'[a.of].status = "none"
    <3>1. CASE a \in asked
      <4>1. a.job \in Jobs /\ job[a.job].kind = "backup" /\ job[a.job].of = a.of /\ backup[a.of].status = "none" /\ a \in Request
        BY <1>t, <2>1, <3>1 DEF RowsOrder, TriggersFirst, TypeOK
      <4>2. job'[a.job].kind = "backup" /\ job'[a.job].of = a.of
        BY <4>1, JobsBefore, KindsAreJobs
      <4>3. ASSUME backup'[a.of].status # "none" PROVE FALSE
        <5>1. PICK c \in asked : TriggerRow(c) /\ c.of = a.of
          BY <1>t, <4>1, <4>3 DEF RowsKeep, Request
        <5>2. c.kind = "trigger" /\ c.job \in Jobs /\ job[c.job].kind = "backup" /\ job[c.job].of = a.of /\ c \in Request
          BY <1>t, <5>1 DEF RowsOrder, TriggersFirst, TriggerRow, TypeOK
        <5>3. c.job = a.job
          BY <1>t, <4>1, <5>2 DEF RowsOrder, OneBackupJob
        <5>4. c = a
          BY <2>1, <4>1, <5>1, <5>2, <5>3 DEF Request
        <5> QED BY <2>1, <5>1, <5>4 DEF TriggerRow
      <4> QED BY <4>1, <4>2, <4>3
    <3>2. CASE \E b \in Subjects, j \in Jobs : TriggerJob(b, j) /\ a = [kind |-> "trigger", of |-> b, job |-> j]
      <4>1. PICK b \in Subjects, j \in Jobs : TriggerJob(b, j) /\ a = [kind |-> "trigger", of |-> b, job |-> j]
        BY <3>2
      <4>2. job'[j].kind = "backup" /\ job'[j].of = b
        BY <1>t, <4>1, NewJobAbout DEF TriggerJob, EngineInv
      <4>3. backup'[b].status = "none"
        BY <1>t, <4>1 DEF TriggerJob, RowsOrder, RowHasJob
      <4> QED BY <4>1, <4>2, <4>3
    <3> QED BY <1>t, <2>1, <3>1, <3>2 DEF OthersMove, AskedMove
  <2> QED BY <2>1 DEF TriggersFirst
<1>5. ListedHaveEnded'
  <2>1. \A b \in Subjects : backup[b].status = "completed" => Ended(b)
    BY DEF Ended
  <2>2. \A b \in Subjects : Ended(b) => Ended(b)'
    BY <1>t DEF RowsKeep
  <2>3. ASSUME NEW r \in Replicas, NEW b \in prune'[r].list PROVE Ended(b)'
    <3>1. b \in Subjects
      BY <1>t, <2>3 DEF OthersMove, PruneMoves
    <3> QED BY <1>t, <2>1, <2>2, <2>3, <3>1 DEF OthersMove, PruneMoves, RowsOrder, ListedHaveEnded
  <2>4. ASSUME NEW r \in Replicas, prune'[r].at # Nothing PROVE Ended(prune[r].at)' 
    <3>1. prune'[r].at \in Subjects
      BY <1>t, <2>4 DEF OthersMove, PruneMoves
    <3>2. prune'[r].at = prune[r].at \/ prune'[r].at \in prune[r].list
      BY <1>t, <2>4 DEF OthersMove, PruneMoves
    <3>3. Ended(prune'[r].at)
      BY <1>t, <2>4, <3>2 DEF RowsOrder, ListedHaveEnded
    <3>4. Ended(prune[r].at)' <=> backup'[prune'[r].at].status \notin {"none", "pending", "running"}
      BY DEF Ended
    <3> QED BY <1>t, <3>1, <3>3, <3>4 DEF RowsKeep, Ended
  <2> QED BY <2>3, <2>4 DEF ListedHaveEnded
<1> QED BY <1>2, <1>3, <1>4, <1>5 DEF RowsOrder

LEMMA NextDumps == AccountsInv /\ [Next]_vars => LoadedVerifies' /\ DumpsAreStored'
<1> SUFFICES ASSUME AccountsInv, [Next]_vars PROVE LoadedVerifies' /\ DumpsAreStored'
  OBVIOUS
<1>t. TypeOK /\ EngineInv /\ EngineOrder /\ EngineMoves /\ RowsKeep /\ OthersMove /\ LoadedVerifies /\ DumpsAreStored
  BY NextFacts DEF AccountsInv
<1>h. ASSUME NEW x \in Executors, hand[x].step # "idle"
      PROVE  /\ hand[x].job \in Jobs /\ Of(x) \in Subjects /\ Of(x) = job[hand[x].job].of
             /\ job'[hand[x].job].kind = job[hand[x].job].kind
             /\ job'[hand[x].job].of = Of(x)
  <2>1. hand[x].job \in Jobs /\ job[hand[x].job].kind # Nothing /\ Of(x) \in Subjects
    BY <1>t, <1>h, HeldIsAbout
  <2> QED BY <2>1, JobsBefore DEF Of
<1>1. LoadedVerifies'
  <2>1. ASSUME NEW x \in loaded' PROVE hand'[x].step = "executing" /\ job'[hand'[x].job].kind = "verify"
    <3>1. x \in Executors /\ hand'[x] = hand[x] /\ hand[x].step = "executing" /\ job[hand[x].job].kind = "verify"
      BY <1>t, <2>1 DEF OthersMove, HandsMove, LoadedVerifies, Doing
    <3> QED BY <1>h, <3>1
  <2> QED BY <2>1 DEF LoadedVerifies
<1>s. \A b \in Subjects : Stored(b) => Stored(b)'
  BY <1>t DEF RowsKeep
<1>2. ASSUME NEW x \in Executors, hand'[x].step = "reporting", hand'[x].ok, job'[hand'[x].job].kind = "backup"
      PROVE  Stored(job[hand[x].job].of)'
  <2>1. CASE hand'[x] = hand[x]
    <3>1. hand[x].step = "reporting" /\ hand[x].ok /\ job[hand[x].job].kind = "backup" /\ Of(x) \in Subjects
          /\ job'[hand[x].job].of = Of(x) /\ Of(x) = job[hand[x].job].of
      BY <1>h, <1>2, <2>1
    <3>2. Stored(Of(x))
      BY <1>t, <3>1 DEF DumpsAreStored
    <3> QED BY <1>s, <2>1, <3>1, <3>2 DEF Stored, Ended
  <2>2. CASE Upload(x)
    <3>1. hand[x].step # "idle" /\ hand'[x].job = hand[x].job
      BY <1>t, <2>2 DEF Upload, Execute, TypeOK, OpsTypeOK, Hand
    <3>2. backup'[Of(x)].object
      BY <1>t, <1>h, <2>2, <3>1 DEF Upload, TypeOK, BackupRow
    <3> QED BY <1>h, <3>1, <3>2 DEF Stored
  <2>3. CASE CountTables(x) \/ Drop(x)
    <3>1. hand[x].step # "idle" /\ hand'[x].job = hand[x].job
      BY <1>t, <2>3 DEF CountTables, Drop, Execute, TypeOK, OpsTypeOK, Hand
    <3>2. job[hand[x].job].kind \in {"verify", "drop"}
      BY <1>t, <2>3 DEF CountTables, Drop, Doing, LoadedVerifies
    <3> QED BY <1>h, <1>2, <3>1, <3>2
  <2> QED BY <1>t, <1>2, <2>1, <2>2, <2>3 DEF OthersMove, HandsMove
<1>3. ASSUME NEW e \in effects', e.ok, job'[e.job].kind = "backup"
      PROVE  backup'[job'[e.job].of].object \/ backup'[job'[e.job].of].status \notin {"none", "pending", "running"}
  <2>1. CASE e \in effects
    <3>1. e.job \in Jobs /\ job[e.job].kind # Nothing /\ job[e.job].of \in Subjects
      BY <1>t, <2>1, EffectIsAbout
    <3>2. job[e.job].kind = "backup" /\ job'[e.job].of = job[e.job].of
      BY <1>3, <3>1, JobsBefore
    <3>3. Stored(job[e.job].of)
      BY <1>3, <1>t, <2>1, <3>2 DEF DumpsAreStored
    <3> QED BY <1>s, <3>1, <3>2, <3>3 DEF Stored, Ended
  <2>2. CASE ReportedGood(e.job)
    <3>1. PICK x \in Executors : hand[x].step = "reporting" /\ hand[x].job = e.job /\ hand[x].ok
      BY <2>2 DEF ReportedGood
    <3>2. job[e.job].kind = "backup" /\ job'[e.job].of = Of(x) /\ Of(x) = job[e.job].of /\ Of(x) \in Subjects
      BY <1>3, <1>h, <3>1
    <3>3. Stored(Of(x))
      BY <1>t, <3>1, <3>2 DEF DumpsAreStored
    <3> QED BY <1>s, <3>2, <3>3 DEF Stored, Ended
  <2> QED BY <1>3, <1>t, <2>1, <2>2 DEF EngineMoves, GoodWasReported
<1>4. DumpsAreStored'
  BY <1>2, <1>3 DEF DumpsAreStored, Stored, Ended
<1> QED BY <1>1, <1>4


\* A row whose backup is completed was so, or is completed now; one that is
\* running was so, or its job is prepared now.
LEMMA RowMoves ==
  ASSUME AccountsInv, [Next]_vars, NEW b \in Subjects
  PROVE  /\ backup'[b].status = "completed" =>
              \/ backup[b].status = "completed"
              \/ /\ backup[b].status \in {"pending", "running"} /\ backup'[b].object = backup[b].object
                 /\ \E e \in effects : e.ok /\ job[e.job].kind = "backup" /\ job[e.job].of = b
         /\ backup'[b].status = "running" =>
              \/ backup[b].status = "running"
              \/ \E x \in Executors : PrepareJob(x) /\ Doing(x, "backup") /\ Of(x) = b
<1>t. TypeOK /\ EngineInv /\ EngineOrder /\ backup \in [Subjects -> BackupRow]
  BY DEF AccountsInv, TypeOK
<1> DEFINE Goal == /\ backup'[b].status = "completed" =>
                        \/ backup[b].status = "completed"
                        \/ /\ backup[b].status \in {"pending", "running"} /\ backup'[b].object = backup[b].object
                           /\ \E e \in effects : e.ok /\ job[e.job].kind = "backup" /\ job[e.job].of = b
                   /\ backup'[b].status = "running" =>
                        \/ backup[b].status = "running"
                        \/ \E x \in Executors : PrepareJob(x) /\ Doing(x, "backup") /\ Of(x) = b
<1>u. CASE backup' = backup
  BY <1>u
<1>1. CASE \E c \in Subjects : DeleteObject(c) \/ Expire(c)
  BY <1>t, <1>1 DEF DeleteObject, Expire, BackupRow
<1>2. CASE \E a \in asked : Continue(a)
  <2>1. PICK a \in asked : Continue(a)
    BY <1>2
  <2>2. a.of \in Subjects
    BY <1>t DEF TypeOK, Request
  <2> QED BY <1>t, <2>1, <2>2 DEF Continue, TriggerRow, VerifyMark, DeleteMark, BackupRow
<1>3. CASE \E x \in Executors : Working(x)
  <2>1. PICK x \in Executors : Working(x)
    BY <1>3
  <2>2. CASE PrepareJob(x)
    <3>1. CASE backup' # backup
      <4>1. Doing(x, "backup") /\ backup' = [backup EXCEPT ![Of(x)].status = "running"]
        BY <2>2, <3>1 DEF PrepareJob
      <4> QED BY <1>t, <2>2, <4>1 DEF BackupRow
    <3> QED BY <1>u, <3>1
  <2>3. CASE Upload(x)
    BY <1>t, <2>3 DEF Upload, BackupRow
  <2> QED BY <1>u, <2>1, <2>2, <2>3 DEF Working, ClaimJob, RefuseJob, Restore, CountTables, Drop, ExecuteFails, ReportJob
<1>4. CASE \E e \in effects : ApplyEffect(e)
  <2>1. PICK e \in effects : ApplyEffect(e)
    BY <1>4
  <2>2. CASE CompleteBackup(e)
    <3>1. CASE backup' # backup
      <4>1. /\ job[e.job].kind = "backup" /\ backup[job[e.job].of].status \in {"pending", "running"}
            /\ backup' = [backup EXCEPT ![job[e.job].of].status = Outcome(job[e.job].of, e.ok)]
        BY <2>2, <3>1 DEF CompleteBackup
      <4>2. job[e.job].of \in Subjects /\ e.ok \in BOOLEAN
        BY <1>t, EffectIsAbout
      <4> QED BY <1>t, <4>1, <4>2 DEF BackupRow, Outcome
    <3> QED BY <1>u, <3>1
  <2>3. CASE RecordVerification(e)
    BY <1>t, <2>3 DEF RecordVerification, BackupRow
  <2> QED BY <1>u, <2>1, <2>2, <2>3 DEF ApplyEffect, EnqueueDrop, DropDone
<1>5. CASE \E r \in Replicas : Prune(r)
  <2>1. PICK r \in Replicas : Prune(r)
    BY <1>5
  <2>2. prune[r].at \in Subjects \cup {Nothing}
    BY <1>t DEF TypeOK
  <2> QED BY <1>t, <2>1, <2>2 DEF Prune, ListExpired, PruneObject, PruneMark, BackupRow
<1> QED
  BY <1>u, <1>1, <1>2, <1>3, <1>4, <1>5
     DEF Next, TriggerJob, VerifyJob, RequestDies, Dies, FailStuckJobs, Ages, vars

\* A completed row whose object goes is being removed.
LEMMA RemovalMoves ==
  ASSUME AccountsInv, [Next]_vars, faults' = 0, NEW b \in Subjects,
         backup[b].status = "completed", backup'[b].status = "completed"
  PROVE  /\ backup[b].object => backup'[b].object \/ Removing(b)'
         /\ Removing(b) => Removing(b)'
<1>t. TypeOK /\ EngineInv /\ EngineOrder /\ TriggersFirst /\ backup \in [Subjects -> BackupRow] /\ faults = 0
      /\ prune \in [Replicas -> [list : SUBSET Subjects, at : Subjects \cup {Nothing}]]
  BY NextFacts DEF AccountsInv, TypeOK, EngineMoves, RowsOrder
<1> DEFINE Kept == backup[b].object => backup'[b].object
           Deletes(a) == a.kind = "delete" /\ a.of = b
<1>0. ASSUME \A a \in asked : Deletes(a) => a \in asked', \A r \in Replicas : prune[r].at = b => prune'[r].at = b
      PROVE  Removing(b) => Removing(b)'
  BY <1>0 DEF Removing
<1>1. CASE \E c \in Subjects : (\E j \in Jobs : TriggerJob(c, j) \/ VerifyJob(c, j)) \/ Expire(c)
  <2>1. Kept
    BY <1>t, <1>1 DEF TriggerJob, VerifyJob, Expire, BackupRow
  <2>2. asked \subseteq asked' /\ prune' = prune
    BY <1>1 DEF TriggerJob, VerifyJob, Expire
  <2> QED BY <1>0, <2>1, <2>2
<1>2. CASE \E c \in Subjects : DeleteObject(c)
  <2>1. PICK c \in Subjects : DeleteObject(c)
    BY <1>2
  <2> DEFINE a == [kind |-> "delete", of |-> c, job |-> Nothing]
  <2>2. a \in asked' /\ a.kind = "delete" /\ a.of = c /\ asked \subseteq asked' /\ prune' = prune
    BY <2>1 DEF DeleteObject
  <2>3. c # b => Kept
    BY <1>t, <2>1 DEF DeleteObject
  <2>4. c = b => Removing(b)'
    BY <2>2 DEF Removing
  <2> HIDE DEF a
  <2> QED BY <1>0, <2>2, <2>3, <2>4
<1>3. CASE \E a \in asked : Continue(a)
  <2>1. PICK a \in asked : Continue(a)
    BY <1>3
  <2>2. a.of \in Subjects
    BY <1>t DEF TypeOK, Request
  <2>3. Kept
    BY <1>t, <2>1, <2>2 DEF Continue, TriggerRow, VerifyMark, DeleteMark, BackupRow
  <2>4. asked' = asked \ {a} /\ prune' = prune
    BY <2>1 DEF Continue, TriggerRow, VerifyMark, DeleteMark
  <2>5. ~Deletes(a)
    <3>1. ASSUME Deletes(a) PROVE FALSE
      <4>1. DeleteMark(a)
        BY <2>1, <3>1 DEF Continue, TriggerRow, VerifyMark
      <4>2. backup'[b].status = "deleted"
        BY <1>t, <3>1, <4>1 DEF DeleteMark, BackupRow, Deletable
      <4> QED BY <4>2
    <3> QED BY <3>1
  <2> QED BY <1>0, <2>3, <2>4, <2>5
<1>4. CASE \E x \in Executors : Working(x)
  <2>1. PICK x \in Executors : Working(x)
    BY <1>4
  <2>2. asked' = asked /\ prune' = prune
    BY <2>1 DEF Working, ClaimJob, PrepareJob, RefuseJob, Upload, Restore, CountTables, Drop, ExecuteFails, ReportJob
  <2>3. Kept
    <3>1. CASE PrepareJob(x)
      BY <1>t, <3>1 DEF PrepareJob, BackupRow
    <3>2. CASE Upload(x)
      BY <1>t, <3>2 DEF Upload, BackupRow
    <3> QED BY <2>1, <3>1, <3>2 DEF Working, ClaimJob, RefuseJob, Restore, CountTables, Drop, ExecuteFails, ReportJob
  <2> QED BY <1>0, <2>2, <2>3
<1>5. CASE \E e \in effects : ApplyEffect(e)
  <2>1. PICK e \in effects : ApplyEffect(e)
    BY <1>5
  <2>2. asked' = asked /\ prune' = prune
    BY <2>1 DEF ApplyEffect, CompleteBackup, RecordVerification, EnqueueDrop, DropDone
  <2>3. Kept
    <3>1. CASE CompleteBackup(e)
      BY <1>t, <3>1 DEF CompleteBackup, BackupRow
    <3>2. CASE RecordVerification(e)
      BY <1>t, <3>2 DEF RecordVerification, BackupRow
    <3> QED BY <2>1, <3>1, <3>2 DEF ApplyEffect, EnqueueDrop, DropDone
  <2> QED BY <1>0, <2>2, <2>3
<1>6. CASE \E r \in Replicas : Prune(r)
  <2>1. PICK r \in Replicas : Prune(r)
    BY <1>6
  <2>2. asked' = asked
    BY <2>1 DEF Prune, ListExpired, PruneObject, PruneMark
  <2>3. CASE ListExpired(r)
    <3>1. backup' = backup /\ \A q \in Replicas : prune'[q].at = prune[q].at
      BY <1>t, <2>3 DEF ListExpired
    <3> QED BY <1>0, <2>2, <3>1
  <2>4. CASE \E c \in prune[r].list : PruneObject(r, c)
    <3>1. PICK c \in prune[r].list : PruneObject(r, c)
      BY <2>4
    <3>2. /\ prune[r].at = Nothing /\ prune'[r].at = c /\ \A q \in Replicas \ {r} : prune'[q] = prune[q]
          /\ backup' = [backup EXCEPT ![c].object = FALSE] /\ c \in Subjects
      BY <1>t, <3>1 DEF PruneObject
    <3>3. b # Nothing
      BY OperationAssumption DEF OperationAssumption
    <3>4. c # b => Kept
      BY <1>t, <3>2
    <3>5. c = b => Removing(b)'
      BY <3>2 DEF Removing
    <3> QED BY <1>0, <2>2, <3>2, <3>3, <3>4, <3>5
  <2>5. CASE PruneMark(r)
    <3>1. prune[r].at \in Subjects /\ backup' = [backup EXCEPT ![prune[r].at].status = "expired"]
          /\ \A q \in Replicas \ {r} : prune'[q] = prune[q]
      BY <1>t, <2>5 DEF PruneMark
    <3>2. prune[r].at # b /\ backup'[b] = backup[b]
      BY <1>t, <3>1 DEF BackupRow
    <3>3. Kept
      BY <3>2
    <3>4. \A q \in Replicas : prune[q].at = b => prune'[q].at = b
      BY <3>1, <3>2
    <3> QED BY <1>0, <2>2, <3>3, <3>4
  <2> QED BY <2>1, <2>3, <2>4, <2>5 DEF Prune
<1>7. CASE UNCHANGED <<asked, prune, backup>>
  BY <1>0, <1>7
<1>8. ~(\E a \in asked : RequestDies(a)) /\ ~(\E x \in Executors : Dies(x))
  BY <1>t DEF RequestDies, Dies, OtherFault, Crash
<1> QED
  BY <1>1, <1>2, <1>3, <1>4, <1>5, <1>6, <1>7, <1>8 DEF Next, FailStuckJobs, Ages, vars

LEMMA NextCompleted == AccountsInv /\ [Next]_vars => CompletedHasObject'
<1> SUFFICES ASSUME AccountsInv, [Next]_vars, faults' = 0, NEW b \in Subjects, backup'[b].status = "completed"
             PROVE  backup'[b].object \/ Removing(b)'
  BY DEF CompletedHasObject, Removing
<1>1. faults = 0 /\ DumpsAreStored /\ CompletedHasObject
  BY NextFacts DEF AccountsInv, EngineMoves
<1>2. CASE backup[b].status = "completed"
  <2>1. backup[b].object \/ Removing(b)
    BY <1>1, <1>2 DEF CompletedHasObject
  <2> QED BY <1>2, <2>1, RemovalMoves
<1>3. CASE backup[b].status # "completed"
  <2>1. backup[b].status \in {"pending", "running"} /\ backup'[b].object = backup[b].object
        /\ \E e \in effects : e.ok /\ job[e.job].kind = "backup" /\ job[e.job].of = b
    BY <1>3, RowMoves
  <2>2. Stored(b)
    BY <1>1, <2>1 DEF DumpsAreStored
  <2> QED BY <2>1, <2>2 DEF Stored, Ended
<1> QED BY <1>2, <1>3


\* What is not disturbed was not disturbed before.
LEMMA UndisturbedBefore == AccountsInv /\ [Next]_vars /\ Undisturbed' => Undisturbed /\ faults' = 0
<1> SUFFICES ASSUME AccountsInv, [Next]_vars, Undisturbed' PROVE Undisturbed /\ faults' = 0
  OBVIOUS
<1>1. EngineMoves /\ JobsInOrder /\ faults' = 0 /\ \A j \in Jobs : ~job'[j].old
  BY NextFacts DEF Undisturbed, AccountsInv, EngineOrder
<1>2. ASSUME NEW j \in Jobs PROVE ~job[j].old
  <2>1. CASE job[j].status = "none"
    BY <1>1, <2>1 DEF JobsInOrder, NoJob
  <2>2. CASE job[j].status # "none"
    BY <1>1, <2>2 DEF EngineMoves, JobsLast
  <2> QED BY <2>1, <2>2
<1> QED BY <1>1, <1>2 DEF EngineMoves, Undisturbed

\* The side effect of a job is applied by a step of its kind.
LEMMA EffectApplied ==
  ASSUME AccountsInv, [Next]_vars, faults' = 0, NEW e \in effects, e \notin effects'
  PROVE  CompleteBackup(e) \/ (\E j \in Jobs : EnqueueDrop(e, j)) \/ DropDone(e)
<1>t. faults = 0
  BY NextFacts DEF EngineMoves
<1>1. ~(\E a \in asked : RequestDies(a)) /\ ~(\E x \in Executors : Dies(x))
  BY <1>t DEF RequestDies, Dies, OtherFault, Crash
<1>2. ~(\E b \in Subjects : (\E j \in Jobs : TriggerJob(b, j) \/ VerifyJob(b, j)) \/ DeleteObject(b) \/ Expire(b))
  BY DEF TriggerJob, VerifyJob, DeleteObject, Expire, opsVars
<1>3. ~(\E a \in asked : Continue(a)) /\ ~(\E r \in Replicas : Prune(r)) /\ ~(\E j \in Jobs : Ages(j)) /\ ~UNCHANGED vars
  BY DEF Continue, TriggerRow, VerifyMark, DeleteMark, Prune, ListExpired, PruneObject, PruneMark, Ages, ComeOfAge, vars, opsVars
<1>4. ~(\E x \in Executors : Working(x))
  BY DEF Working, ClaimJob, PrepareJob, RefuseJob, Upload, Restore, CountTables, Drop, ExecuteFails, ReportJob,
         ClaimNext, Prepare, Refuse, Execute, Report, Finalize
<1>5. ~(\E r \in Replicas : FailStuckJobs(r))
  BY DEF FailStuckJobs, Housekeep, ListStuck, FailStuck, Finalize
<1>6. PICK f \in effects : ApplyEffect(f)
  BY <1>1, <1>2, <1>3, <1>4, <1>5 DEF Next
<1>7. f = e
  BY <1>6 DEF ApplyEffect, CompleteBackup, RecordVerification, EnqueueDrop, DropDone, Apply, opsVars
<1> QED BY <1>6, <1>7 DEF ApplyEffect, RecordVerification, opsVars

\* What an executor holds is in progress, where nothing is disturbed.
LEMMA HeldIsAlive ==
  ASSUME AccountsInv, Undisturbed, NEW x \in Executors, hand[x].step # "idle"
  PROVE  hand[x].job \in Jobs /\ job[hand[x].job].status = "running" /\ Alive(hand[x].job)
<1>1. EngineInv /\ EngineOrder
  BY DEF AccountsInv
<1>2. hand[x].job \in Jobs
  BY <1>1, HeldIsAbout
<1> QED BY <1>1, <1>2 DEF EngineOrder, GivenUpIsOld, Undisturbed, Alive, Open

LEMMA NextRunning == AccountsInv /\ [Next]_vars => RunningIsRunning'
<1> SUFFICES ASSUME AccountsInv, [Next]_vars, Undisturbed', NEW b \in Subjects, backup'[b].status = "running"
             PROVE  \E j \in Jobs : job'[j].kind = "backup" /\ job'[j].of = b /\ Alive(j)'
  BY DEF RunningIsRunning, RunningHasJob, InProgress, Alive
<1>t. Undisturbed /\ faults' = 0 /\ TypeOK /\ EngineInv /\ EngineOrder /\ EngineMoves /\ RunningIsRunning
  BY NextFacts, UndisturbedBefore DEF AccountsInv
<1>1. CASE backup[b].status = "running"
  <2>1. PICK j \in Jobs : job[j].kind = "backup" /\ job[j].of = b /\ Alive(j)
    BY <1>t, <1>1 DEF RunningIsRunning, RunningHasJob, InProgress, Alive
  <2>2. job'[j].kind = "backup" /\ job'[j].of = b
    BY <2>1, JobsBefore, KindsAreJobs
  <2>3. CASE \E e \in effects : e.job = j /\ effects' = effects \ {e}
    <3>1. PICK e \in effects : e.job = j /\ effects' = effects \ {e}
      BY <2>3
    <3>2. CompleteBackup(e)
      <4>1. e \notin effects'
        BY <3>1
      <4>2. CompleteBackup(e) \/ (\E i \in Jobs : EnqueueDrop(e, i)) \/ DropDone(e)
        BY <1>t, <4>1, EffectApplied
      <4> QED BY <2>1, <3>1, <4>2 DEF EnqueueDrop, DropDone
    <3>3. backup'[b].status = Outcome(b, e.ok)
      <4>1. backup' = [backup EXCEPT ![b].status = Outcome(b, e.ok)]
        BY <1>1, <2>1, <3>1, <3>2 DEF CompleteBackup
      <4> QED BY <1>t, <4>1 DEF TypeOK, BackupRow
    <3> QED BY <3>3 DEF Outcome
  <2>4. CASE Alive(j)'
    BY <2>2, <2>4
  <2> QED BY <1>t, <2>1, <2>3, <2>4 DEF EngineMoves, AliveLast
<1>2. CASE \E x \in Executors : PrepareJob(x) /\ Doing(x, "backup") /\ Of(x) = b
  <2>1. PICK x \in Executors : PrepareJob(x) /\ Doing(x, "backup") /\ Of(x) = b
    BY <1>2
  <2>2. hand[x].step # "idle" /\ job' = job /\ effects' = effects /\ job[hand[x].job].kind = "backup" /\ job[hand[x].job].of = b
    BY <2>1 DEF PrepareJob, Prepare, Doing, Of
  <2>3. hand[x].job \in Jobs /\ Alive(hand[x].job)
    BY <1>t, <2>2, HeldIsAlive
  <2>4. Alive(hand[x].job) => job'[hand[x].job].status \in Open \/ \E e \in effects' : e.job = hand[x].job
    BY <2>2 DEF Alive
  <2>5. \A j \in Jobs : Alive(j)' <=> (job'[j].status \in Open \/ \E e \in effects' : e.job = j)
    BY DEF Alive
  <2> QED BY <2>2, <2>3, <2>4, <2>5
<1> QED BY <1>1, <1>2, RowMoves

LEMMA NextScratch == AccountsInv /\ [Next]_vars => ScratchIsDue'
<1> SUFFICES ASSUME AccountsInv, [Next]_vars, Undisturbed', NEW b \in Subjects, scratch'[b] = "present"
             PROVE  \/ \E j \in Jobs : job'[j].kind = "verify" /\ job'[j].of = b /\ Alive(j)'
                    \/ DropIsDue(b)'
  BY DEF ScratchIsDue, InProgress, Alive
<1>t. Undisturbed /\ faults' = 0 /\ TypeOK /\ EngineInv /\ EngineOrder /\ EngineMoves /\ OthersMove /\ ScratchIsDue
      /\ EngineOrder' /\ LoadedVerifies /\ JobsInOrder
  BY NextFacts, UndisturbedBefore DEF AccountsInv, EngineOrder
<1>n. Jobs \subseteq Nat
  BY OperationAssumption DEF OperationAssumption
\* A drop that is created is the last, and to be done.
<1>d. ASSUME NEW e \in effects, NEW k \in Jobs, EnqueueDrop(e, k), job[e.job].of = b PROVE DropIsDue(b)'
  <2>1. /\ job[k].status = "none" /\ \A i \in Jobs \ {k} : job'[i] = job[i]
        /\ job'[k].kind = "drop" /\ job'[k].of = b /\ hand' = hand
    <3>1. NewJob(k, "drop", b, Server) /\ OpsInv /\ hand' = hand
      BY <1>t, <1>d DEF EnqueueDrop, EngineInv
    <3>2. job[k].status = "none"
      BY <3>1 DEF NewJob
    <3> QED BY <3>1, <3>2, NewJobAbout
  <2>2. job'[k].status = "pending"
    BY <1>t, <1>d DEF EnqueueDrop, NewJob, TypeOK, OpsTypeOK
  <2>3. ~ReportedGood(k)'
    BY <1>t, <2>1 DEF ReportedGood, EngineInv, OpsInv, HeldIsClaimed
  <2>4. ASSUME NEW i \in Jobs, job'[i].kind = "drop" PROVE i <= k
    <3>1. i # k => job[i].status # "none"
      BY <1>t, <2>1, <2>4, KindsAreJobs DEF JobsInOrder, NoJob
    <3> QED BY <1>n, <1>t, <2>1, <3>1 DEF JobsInOrder
  <2>5. DropOf(k, b)' /\ ~Dropped(k)'
    BY <2>1, <2>2, <2>3 DEF DropOf, Dropped
  <2>6. \A i \in Jobs : DropOf(i, b)' => i <= k
    BY <2>4 DEF DropOf
  <2> QED BY <2>5, <2>6 DEF DropIsDue
<1>1. CASE scratch[b] # "present"
  <2>1. PICK x \in Executors : /\ hand[x].step = "executing" /\ Doing(x, "verify") /\ Of(x) = b
                               /\ UNCHANGED <<job, hand, effects>>
    BY <1>1, <1>t DEF OthersMove, ScratchMoves
  <2>2. hand[x].job \in Jobs /\ Alive(hand[x].job)
    BY <1>t, <2>1, HeldIsAlive
  <2>3. \A j \in Jobs : Alive(j)' <=> Alive(j)
    BY <2>1 DEF Alive
  <2> QED BY <2>1, <2>2, <2>3 DEF Doing, Of
<1>2. CASE \E j \in Jobs : job[j].kind = "verify" /\ job[j].of = b /\ Alive(j)
  <2>1. PICK j \in Jobs : job[j].kind = "verify" /\ job[j].of = b /\ Alive(j)
    BY <1>2
  <2>2. job'[j].kind = "verify" /\ job'[j].of = b
    BY <2>1, JobsBefore, KindsAreJobs
  <2>3. CASE \E e \in effects : e.job = j /\ effects' = effects \ {e}
    <3>1. PICK e \in effects : e.job = j /\ effects' = effects \ {e}
      BY <2>3
    <3>2. CompleteBackup(e) \/ (\E i \in Jobs : EnqueueDrop(e, i)) \/ DropDone(e)
      BY <1>t, <3>1, EffectApplied
    <3>3. \E i \in Jobs : EnqueueDrop(e, i)
      BY <2>1, <3>1, <3>2 DEF CompleteBackup, DropDone
    <3> QED BY <1>d, <2>1, <3>1, <3>3
  <2> QED BY <1>t, <2>1, <2>2, <2>3 DEF EngineMoves, AliveLast
<1>3. CASE scratch[b] = "present" /\ DropIsDue(b)
  <2>1. PICK j \in Jobs : DropOf(j, b) /\ ~Dropped(j) /\ \A i \in Jobs : DropOf(i, b) => i <= j
    BY <1>3 DEF DropIsDue
  <2>2. job'[j].kind = "drop" /\ job'[j].of = b
    BY <2>1, JobsBefore, KindsAreJobs DEF DropOf
  <2>3. ~\E x \in Executors : Drop(x) /\ hand[x].job = j
    <3>1. ASSUME NEW x \in Executors, Drop(x), hand[x].job = j PROVE FALSE
      <4>1. scratch' = [scratch EXCEPT ![b] = "absent"]
        BY <2>1, <3>1 DEF Drop, Of, DropOf
      <4> QED BY <1>t, <4>1 DEF TypeOK
    <3> QED BY <3>1
  <2>4. ASSUME NEW x \in Executors, hand'[x].step = "reporting", hand'[x].ok, hand'[x].job = j PROVE FALSE
    <3>1. CASE hand'[x] = hand[x]
      BY <2>1, <2>4, <3>1 DEF Dropped, ReportedGood
    <3>2. CASE Upload(x) \/ CountTables(x) \/ Drop(x)
      <4>1. hand'[x].job = hand[x].job
        BY <1>t, <3>2 DEF Upload, CountTables, Drop, Execute, TypeOK, OpsTypeOK, Hand
      <4>2. Upload(x) => job[hand[x].job].kind = "backup"
        BY DEF Upload, Doing
      <4>3. CountTables(x) => job[hand[x].job].kind = "verify"
        BY <1>t DEF CountTables, LoadedVerifies
      <4> QED BY <2>1, <2>3, <2>4, <3>2, <4>1, <4>2, <4>3 DEF DropOf
    <3> QED BY <1>t, <2>4, <3>1, <3>2 DEF OthersMove, HandsMove
  <2>5. job'[j].status # "succeeded"
    BY <1>t, <2>1 DEF EngineMoves, GoodWasReported, Dropped
  <2>6. DropOf(j, b)' /\ ~Dropped(j)'
    BY <2>2, <2>4, <2>5 DEF DropOf, Dropped, ReportedGood
  <2>7. CASE \E k \in Jobs : job[k].status = "none" /\ job'[k].kind = "drop" /\ job'[k].of = b
    <3>1. PICK k \in Jobs : job[k].status = "none" /\ job'[k].kind = "drop" /\ job'[k].of = b
      BY <2>7
    <3>2. job'[k].status # "none"
      BY <3>1, JobsBefore, KindsAreJobs
    <3>3. \E e \in effects : EnqueueDrop(e, k) /\ job[e.job].of = b
      BY <3>1, <3>2, Creates
    <3> QED BY <1>d, <3>3
  <2>8. CASE ~\E k \in Jobs : job[k].status = "none" /\ job'[k].kind = "drop" /\ job'[k].of = b
    <3>1. ASSUME NEW i \in Jobs, DropOf(i, b)' PROVE i <= j
      <4>1. job'[i].kind = "drop" /\ job'[i].of = b
        BY <3>1 DEF DropOf
      <4>2. DropOf(i, b)
        BY <2>8, <4>1, JobsBefore DEF DropOf
      <4> QED BY <2>1, <4>2
    <3> QED BY <2>6, <3>1 DEF DropIsDue
  <2> QED BY <2>7, <2>8
<1> QED BY <1>t, <1>1, <1>2, <1>3 DEF ScratchIsDue, InProgress, Alive

LEMMA InitAccounts == Init => AccountsInv
<1> SUFFICES ASSUME Init PROVE AccountsInv
  OBVIOUS
<1>1. EngineInv /\ OpsInit
  BY InitMaps
<1>2. NotBackedUp \in BackupRow /\ NotPruning \in [list : SUBSET Subjects, at : Subjects \cup {Nothing}]
  BY DEF NotBackedUp, NotPruning, BackupRow
<1>3. /\ \A b \in Subjects : backup[b].status = "none" /\ scratch[b] = "absent"
      /\ \A r \in Replicas : prune[r].list = {} /\ prune[r].at = Nothing
      /\ asked = {} /\ loaded = {} /\ half = {} /\ effects = {}
      /\ \A x \in Executors : hand[x].step = "idle"
      /\ \A j \in Jobs : job[j] = NoJob
      /\ \A r \in Replicas : stuck[r] = {}
  BY <1>1 DEF Init, OpsInit, NotBackedUp, NotPruning, IdleHand
<1>4. TypeOK
  BY <1>1, <1>2 DEF Init, TypeOK, EngineInv, OpsInv
<1>5. EngineOrder
  <2>1. \A j \in Jobs : job[j].status = "none"
    BY <1>3 DEF NoJob
  <2> QED BY <1>3, <2>1 DEF EngineOrder, JobsInOrder, GivenUpIsOld
<1>6. RowsOrder
  BY <1>3, KindsAreJobs DEF RowsOrder, OneBackupJob, RowHasJob, TriggersFirst, ListedHaveEnded, NoJob
<1>7. LoadedVerifies /\ DumpsAreStored
  BY <1>3 DEF LoadedVerifies, DumpsAreStored
<1>8. CompletedHasObject /\ RunningIsRunning /\ ScratchIsDue
  BY <1>3 DEF CompletedHasObject, RunningIsRunning, RunningHasJob, ScratchIsDue
<1> QED BY <1>1, <1>4, <1>5, <1>6, <1>7, <1>8 DEF AccountsInv

LEMMA NextAccounts == AccountsInv /\ [Next]_vars => AccountsInv'
BY NextFacts, NextTypes, NextOrder, NextDumps, NextCompleted, NextRunning, NextScratch DEF AccountsInv

\* The last drop is in progress or has failed, when it is due.
LEMMA DueIsAccounted == AccountsInv => ScratchIsKnown
<1> SUFFICES ASSUME AccountsInv, Undisturbed, NEW b \in Subjects, scratch[b] = "present", ~InProgress("verify", b)
             PROVE  \/ InProgress("drop", b)
                    \/ \E j \in Jobs : /\ job[j].kind = "drop" /\ job[j].of = b /\ job[j].status = "failed"
                                      /\ \A i \in Jobs : job[i].kind = "drop" /\ job[i].of = b => i <= j
  BY DEF ScratchIsKnown, ScratchAccounted
<1>1. PICK j \in Jobs : DropOf(j, b) /\ ~Dropped(j) /\ \A i \in Jobs : DropOf(i, b) => i <= j
  BY DEF AccountsInv, ScratchIsDue, DropIsDue
<1>2. job[j].status \in Open \cup Final /\ job[j].status # "succeeded"
  <2>1. job[j].status \in Open \cup Final \cup {"none"} /\ JobsInOrder
    BY DEF AccountsInv, TypeOK, OpsTypeOK, Job, EngineOrder
  <2>2. job[j].status # "none"
    BY <1>1, <2>1, KindsAreJobs DEF DropOf, JobsInOrder, NoJob
  <2> QED BY <1>1, <2>1, <2>2 DEF Dropped
<1>3. CASE job[j].status \in Open
  BY <1>1, <1>3 DEF InProgress, DropOf
<1>4. CASE job[j].status = "failed"
  BY <1>1, <1>4 DEF DropOf
<1> QED BY <1>2, <1>3, <1>4 DEF Final

---------------------------------------------------------------------------
(* The theorems *)

\* Backups, verifications, deletions and pruning, with processes dying
\* anywhere, do to the jobs only what the engine allows.
THEOREM BackupsImplementOperations == Spec => OpsSpec
<1>1. Init => OpsInit /\ EngineInv
  BY InitMaps
<1>2. EngineInv /\ [Next]_vars => [OpsNext]_opsVars /\ EngineInv'
  BY NextMaps, NextEngine
<1>3. QED
  BY <1>1, <1>2, PTL DEF Spec, OpsSpec

\* No backup, verification or drop is executed by two executors, and a reported
\* outcome is the one whose side effects reach the rows.
THEOREM BackupJobsSound == Spec => [](SoleExecutor /\ EffectsAgree)
BY BackupsImplementOperations, OneExecutor, EffectsMatch, PTL

\* Where no process died a completed backup is in storage or being removed;
\* where no execution outlived its limit either, a running one has its job, and
\* a scratch database its verification, its drop or a drop that failed last.
THEOREM BackupsStayAccounted == Spec => []BackupsAccounted
<1>1. AccountsInv => BackupsAccounted
  BY DueIsAccounted DEF AccountsInv, BackupsAccounted
<1> QED BY <1>1, InitAccounts, NextAccounts, PTL DEF Spec
=============================================================================
