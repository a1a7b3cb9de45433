--------------------------- MODULE CopiesProofs ----------------------------
(***************************************************************************)
(* Backup copies implement the operations engine, the live copy of a       *)
(* database is a slot with one holder, and a copy's row tells the truth of *)
(* its scratch database.                                                   *)
(*                                                                         *)
(* The second is an invariant of the backup_copies table, the unique index *)
(* over the live copies, and of what points into it: a statement still to  *)
(* come, a job or a listed copy is about a copy that was opened, so that   *)
(* no statement of theirs makes a copy of none.                            *)
(*                                                                         *)
(* The third is an invariant in four parts.  OrderInv says in which order  *)
(* a copy is opened, restored and dropped; GoneInv that what drops it is   *)
(* claimed after what restores it, so that nothing fills a database after  *)
(* its drop; ReadyInv that of a copy still shown as ready what drops it    *)
(* has its mark to come; LimitInv who may still count a drop, and counts   *)
(* one once.  Each step is described once, by what it moves (CopyMoves),   *)
(* and the parts are proved of that description.                           *)
(***************************************************************************)
EXTENDS BackupCopies, OperationsProofs

---------------------------------------------------------------------------
(* Every step of copies is one of the engine *)

LEMMA RequestMaps ==
  ASSUME EngineInv, NEW c \in Subjects, NEW j \in Jobs, NEW kind \in CopyKinds,
         hostedOn \in Agents \cup {Nothing},
         NewJob(j, kind, c, hostedOn), UNCHANGED <<hand, effects, stuck, faults>>
  PROVE  OpsNext
<1>1. kind \in Kinds
  BY CopyAssumption DEF CopyAssumption
<1>2. Create(j, kind, c, hostedOn)
  BY DEF Create
<1> QED BY <1>1, <1>2 DEF OpsNext

\* The executors, their deaths included.
LEMMA ExecutorMaps ==
  ASSUME NEW x \in Executors, Working(x) \/ Dies(x)
  PROVE  OpsNext \/ UNCHANGED opsVars
<1>1. CASE Working(x)
  <2>1. CASE \E j \in Jobs : ClaimJob(x, j)
    BY <2>1 DEF ClaimJob, OpsNext, Work
  <2>2. CASE PrepareJob(x) \/ RefuseJob(x) \/ ReportJob(x)
    BY <2>2 DEF PrepareJob, RefuseJob, ReportJob, OpsNext, Work
  <2>3. CASE \E ok \in BOOLEAN : Execute(x, ok)
    BY <2>3 DEF OpsNext, Work
  <2>4. CASE ExecuteFails(x) \/ DropScratch(x)
    <3>1. \E ok \in BOOLEAN : Execute(x, ok)
      BY <2>4 DEF ExecuteFails, DropScratch
    <3> QED BY <2>3, <3>1
  <2>5. CASE FillScratch(x)
    <3>1. (scratch[Of(x)] = "present") \in BOOLEAN /\ Execute(x, scratch[Of(x)] = "present")
      BY <2>5 DEF FillScratch
    <3> QED BY <2>3, <3>1
  <2>6. CASE CreateScratch(x)
    BY <2>6 DEF CreateScratch
  <2> QED BY <1>1, <2>1, <2>2, <2>4, <2>5, <2>6 DEF Working
<1>2. CASE Dies(x)
  BY <1>2 DEF Dies, OpsNext
<1> QED BY <1>1, <1>2

\* The side effects of Complete.
LEMMA EffectMaps ==
  ASSUME EngineInv, hostedOn \in Agents \cup {Nothing}, NEW e \in effects, ApplyEffect(e)
  PROVE  OpsNext \/ UNCHANGED opsVars
<1>1. CASE CopyReady(e) \/ CopyDropped(e)
  <2>1. Apply(e)
    BY <1>1 DEF CopyReady, CopyDropped, Apply
  <2> QED BY <2>1 DEF OpsNext
<1>2. CASE CopyRestored(e) \/ CopyFailed(e)
  BY <1>2 DEF CopyRestored, CopyFailed
<1>3. CASE \E j \in Jobs : DropRestored(e, j)
  <2>1. PICK j \in Jobs : DropRestored(e, j)
    BY <1>3
  <2>2. e.job \in Jobs /\ job[e.job].kind = "restore"
    BY <2>1 DEF DropRestored, EngineInv, OpsInv, OpsTypeOK, Effect
  <2>3. "restore" \in Kinds /\ "drop" \in Kinds /\ Nothing \notin Kinds
    BY CopyAssumption, OperationAssumption DEF CopyAssumption, OperationAssumption, CopyKinds
  <2>4. job[e.job].of \in Subjects
    BY <2>2, <2>3 DEF EngineInv, JobHasSubject
  <2>5. ApplyCreating(e, j, "drop", job[e.job].of, hostedOn)
    BY <2>1 DEF DropRestored, DropJob, ApplyCreating
  <2> QED BY <2>3, <2>4, <2>5 DEF OpsNext
<1> QED BY <1>1, <1>2, <1>3 DEF ApplyEffect

---------------------------------------------------------------------------
(* The slot *)

Past == {"failed", "dropping", "dropped"}

\* The copies that statements, jobs and listed rows are about were opened.
Opened(c) == copy[c].status # "none"
AllOpened ==
  /\ \A a \in asked : a.of \in Subjects /\ Opened(a.of)
  /\ \A j \in Jobs : job[j].kind # Nothing => job[j].of \in Subjects /\ Opened(job[j].of)
  /\ \A r \in Replicas : \A c \in expire[r] : Opened(c)

AtMostOneLive == \A c, d \in Subjects : Live(c) /\ Live(d) => c = d

CopiesInv ==
  /\ EngineInv
  /\ hostedOn \in Agents \cup {Nothing}
  /\ copy \in [Subjects -> CopyRow]
  /\ expire \in [Replicas -> SUBSET Subjects]
  /\ AllOpened
  /\ AtMostOneLive

\* How a statement may move the rows: a free slot is taken, a copy goes on as
\* it was, or it is over for good.
RowMoves(c) ==
  \/ copy'[c].status = copy[c].status
  \/ copy[c].status = "none" /\ copy'[c].status = "restoring" /\ \A d \in Subjects : ~Live(d)
  \/ copy[c].status = "restoring" /\ copy'[c].status = "ready"
  \/ copy[c].status # "none" /\ copy'[c].status \in Past

CopiesMove ==
  /\ copy' \in [Subjects -> CopyRow]
  /\ \/ \A c \in Subjects : copy'[c].status = copy[c].status
     \/ \E c \in Subjects : RowMoves(c) /\ \A d \in Subjects \ {c} : copy'[d] = copy[d]

LEMMA Touching ==
  ASSUME copy \in [Subjects -> CopyRow], NEW c \in Subjects, NEW row \in CopyRow, Touched(c, row)
  PROVE  /\ copy' \in [Subjects -> CopyRow]
         /\ copy'[c].status = row.status
         /\ \A d \in Subjects \ {c} : copy'[d] = copy[d]
<1>1. [row EXCEPT !.stale = FALSE] \in CopyRow /\ [row EXCEPT !.stale = FALSE].status = row.status
  BY DEF CopyRow
<1> QED BY <1>1 DEF Touched

\* The statements on the rows.
LEMMA StatementsMove ==
  ASSUME CopyAssumption, copy \in [Subjects -> CopyRow], NEW c \in Subjects,
         \/ InsertCopy(c)
         \/ Opened(c) /\ (MarkReady(c) \/ MarkFailed(c) \/ MarkDropped(c))
         \/ Opened(c) /\ \E withJob \in BOOLEAN : MarkDropping(c, withJob)
         \/ UNCHANGED copy
  PROVE  CopiesMove
<1>1. copy[c] \in CopyRow /\ 0 \in 0 .. Lives /\ 1 \in 0 .. Lives
  BY DEF CopyAssumption
<1>2. CASE UNCHANGED copy
  BY <1>2 DEF CopiesMove
<1>3. ASSUME NEW row \in CopyRow, Touched(c, row),
             \/ row.status = copy[c].status
             \/ copy[c].status = "none" /\ row.status = "restoring" /\ \A d \in Subjects : ~Live(d)
             \/ copy[c].status = "restoring" /\ row.status = "ready"
             \/ Opened(c) /\ row.status \in Past
      PROVE  CopiesMove
  BY <1>3, Touching DEF CopiesMove, RowMoves, Opened
<1>4. CASE InsertCopy(c)
  <2> DEFINE row == [NotOpened EXCEPT !.status = "restoring"]
  <2>1. row \in CopyRow /\ row.status = "restoring"
    BY <1>1 DEF NotOpened, CopyRow
  <2>2. Touched(c, row) /\ copy[c].status = "none" /\ \A d \in Subjects : ~Live(d)
    BY <1>4 DEF InsertCopy
  <2> HIDE DEF row
  <2> QED BY <1>3, <2>1, <2>2
<1>5. CASE MarkReady(c)
  <2>1. CASE copy[c].status # "restoring"
    BY <1>2, <1>5, <2>1 DEF MarkReady
  <2>2. CASE copy[c].status = "restoring"
    <3> DEFINE row == [copy[c] EXCEPT !.status = "ready", !.age = 0, !.until = 1]
    <3>1. row \in CopyRow /\ row.status = "ready"
      BY <1>1 DEF CopyRow
    <3>2. Touched(c, row)
      BY <1>5, <2>2 DEF MarkReady
    <3> HIDE DEF row
    <3> QED BY <1>3, <2>2, <3>1, <3>2
  <2> QED BY <2>1, <2>2
<1>6. CASE Opened(c) /\ MarkFailed(c)
  <2>1. [copy[c] EXCEPT !.status = "failed"] \in CopyRow /\ [copy[c] EXCEPT !.status = "failed"].status \in Past
    BY <1>1 DEF CopyRow, Past
  <2> QED BY <1>2, <1>3, <1>6, <2>1 DEF MarkFailed
<1>7. CASE Opened(c) /\ MarkDropped(c)
  <2>1. [copy[c] EXCEPT !.status = "dropped"] \in CopyRow /\ [copy[c] EXCEPT !.status = "dropped"].status \in Past
    BY <1>1 DEF CopyRow, Past
  <2> QED BY <1>3, <1>7, <2>1 DEF MarkDropped
<1>8. CASE Opened(c) /\ \E withJob \in BOOLEAN : MarkDropping(c, withJob)
  <2>1. PICK withJob \in BOOLEAN : MarkDropping(c, withJob)
    BY <1>8
  <2> DEFINE row == [copy[c] EXCEPT !.status = "dropping", !.drop = @ \/ withJob,
                                    !.attempts = IF withJob THEN @ + 1 ELSE @]
  <2> DEFINE drop == copy[c].drop \/ withJob
             attempts == IF withJob THEN copy[c].attempts + 1 ELSE copy[c].attempts
  <2>2. drop \in BOOLEAN /\ attempts \in Nat
    <3>1. copy[c].drop \in BOOLEAN /\ copy[c].attempts \in Nat
      BY <1>1 DEF CopyRow
    <3> QED BY <3>1
  <2>3. row = [[copy[c] EXCEPT !.status = "dropping"] EXCEPT !.drop = drop, !.attempts = attempts]
    BY <1>1 DEF CopyRow
  <2> HIDE DEF drop, attempts
  <2>4. row \in CopyRow /\ row.status \in Past
    BY <1>1, <2>2, <2>3 DEF CopyRow, Past
  <2>5. Touched(c, row) \/ UNCHANGED copy
    BY <2>1 DEF MarkDropping
  <2> HIDE DEF row
  <2> QED BY <1>2, <1>3, <1>8, <2>4, <2>5
<1> QED BY <1>2, <1>4, <1>5, <1>6, <1>7, <1>8

\* Opened copies stay opened, and one is live at most.
LEMMA MovedRows ==
  ASSUME CopiesInv, CopiesMove
  PROVE  /\ \A c \in Subjects : Opened(c) => Opened(c)'
         /\ AtMostOneLive'
<1>1. CASE \A c \in Subjects : copy'[c].status = copy[c].status
  BY <1>1 DEF CopiesInv, AtMostOneLive, Opened, Live
<1>2. CASE \E c \in Subjects : RowMoves(c) /\ \A d \in Subjects \ {c} : copy'[d] = copy[d]
  <2>1. PICK c \in Subjects : RowMoves(c) /\ \A d \in Subjects \ {c} : copy'[d] = copy[d]
    BY <1>2
  <2>2. \A d \in Subjects : Live(d)' => Live(d) \/ (d = c /\ \A b \in Subjects : ~Live(b))
    BY <2>1 DEF RowMoves, Live, Past
  <2>3. AtMostOneLive'
    BY <2>2 DEF CopiesInv, AtMostOneLive
  <2> QED BY <2>1, <2>3 DEF RowMoves, Opened, Past
<1> QED BY <1>1, <1>2 DEF CopiesMove

\* What comes to point at a copy points at one that was opened.
Points ==
  /\ UNCHANGED hostedOn
  /\ \A a \in asked' : a \in asked \/ (a.of \in Subjects /\ copy'[a.of].status # "none")
  /\ \A j \in Jobs : \/ job'[j].kind = job[j].kind /\ job'[j].of = job[j].of
                     \/ job'[j].of \in Subjects /\ copy'[job'[j].of].status # "none"
  /\ expire' \in [Replicas -> SUBSET Subjects]
  /\ \A r \in Replicas : \A c \in expire'[r] : c \in expire[r] \/ copy'[c].status # "none"

LEMMA MovesKeep ==
  ASSUME CopiesInv, CopiesMove, Points, [OpsNext]_opsVars
  PROVE  CopiesInv'
<1>1. EngineInv'
  BY NextEngine DEF CopiesInv
<1>2. AllOpened'
  <2>1. ASSUME NEW a \in asked' PROVE a.of \in Subjects /\ copy'[a.of].status # "none"
    BY <2>1, MovedRows DEF Points, CopiesInv, AllOpened, Opened
  <2>2. ASSUME NEW j \in Jobs, job'[j].kind # Nothing
        PROVE  job'[j].of \in Subjects /\ copy'[job'[j].of].status # "none"
    BY <2>2, MovedRows DEF Points, CopiesInv, AllOpened, Opened
  <2>3. ASSUME NEW r \in Replicas, NEW c \in expire'[r] PROVE copy'[c].status # "none"
    <3>1. c \in Subjects
      BY <2>3 DEF Points
    <3> QED BY <2>3, <3>1, MovedRows DEF Points, CopiesInv, AllOpened, Opened
  <2> QED BY <2>1, <2>2, <2>3 DEF AllOpened, Opened
<1> QED BY <1>1, <1>2, MovedRows DEF CopiesInv, CopiesMove, Points

\* Steps that leave the rows and the pointers alone but for the engine's.
LEMMA EnginePoints ==
  ASSUME CopiesInv, EngineStep, UNCHANGED <<hostedOn, expire>>, asked' \subseteq asked
  PROVE  Points
<1>1. AboutStays
  BY EngineAbout DEF CopiesInv, EngineInv
<1> QED BY <1>1 DEF Points, AboutStays, CopiesInv

\* A statement is put off, about an opened copy.
LEMMA AskedPoints ==
  ASSUME CopiesInv, UNCHANGED hostedOn, AboutStays,
         expire' \in [Replicas -> SUBSET Subjects], \A r \in Replicas : expire'[r] \subseteq expire[r],
         NEW do, NEW c \in Subjects, NEW x, copy'[c].status # "none",
         asked' \subseteq asked \cup {Step(do, c, x)}
  PROVE  Points
<1>1. Step(do, c, x).of = c
  BY DEF Step
<1> QED BY <1>1 DEF Points, AboutStays, CopiesInv

\* A job is created about an opened copy.
LEMMA JobPoints ==
  ASSUME CopiesInv, UNCHANGED <<hostedOn, copy>>,
         NEW j \in Jobs, NEW kind, NEW c \in Subjects, Opened(c), NewJob(j, kind, c, hostedOn),
         NEW do, NEW x, asked' \subseteq asked \cup {Step(do, c, x)},
         expire' \in [Replicas -> SUBSET Subjects], \A r \in Replicas : expire'[r] \subseteq expire[r]
  PROVE  Points
<1>1. Step(do, c, x).of = c
  BY DEF Step
<1>2. job'[j].of = c /\ \A i \in Jobs \ {j} : job'[i] = job[i]
  BY NewJobAbout DEF CopiesInv, EngineInv
<1>3. \A i \in Jobs : i = j \/ i \in Jobs \ {j}
  OBVIOUS
<1> QED BY <1>1, <1>2, <1>3 DEF Points, CopiesInv, Opened

---------------------------------------------------------------------------
(* The actions *)

LEMMA OpenMoves ==
  ASSUME CopiesInv, NEW c \in Subjects, OpenCopy(c) \/ DiscardRestoring(c)
  PROVE  CopiesMove /\ Points
<1>1. /\ AboutStays /\ UNCHANGED hostedOn
      /\ expire' \in [Replicas -> SUBSET Subjects] /\ \A r \in Replicas : expire'[r] \subseteq expire[r]
  BY DEF OpenCopy, DiscardRestoring, opsVars, AboutStays, CopiesInv
<1>2. CASE OpenCopy(c)
  <2>1. InsertCopy(c) /\ asked' = asked \cup {Step("open", c, Nothing)}
    BY <1>2 DEF OpenCopy
  <2>2. CopiesMove
    BY <2>1, CopyAssumption, StatementsMove DEF CopiesInv
  <2>3. [NotOpened EXCEPT !.status = "restoring"] \in CopyRow
    <3>1. 0 \in 0 .. Lives
      BY CopyAssumption DEF CopyAssumption
    <3> QED BY <3>1 DEF NotOpened, CopyRow
  <2>4. copy'[c].status = "restoring"
    BY <2>1, <2>3, Touching DEF InsertCopy, CopiesInv, NotOpened
  <2> QED BY <1>1, <2>1, <2>2, <2>4, AskedPoints
<1>3. CASE DiscardRestoring(c)
  <2>1. copy'[c].status # "none" /\ UNCHANGED copy /\ asked' = asked \cup {Step("discard", c, Nothing)}
    BY <1>3 DEF DiscardRestoring
  <2>2. CopiesMove
    BY <2>1 DEF CopiesMove, CopiesInv
  <2> QED BY <1>1, <2>1, <2>2, AskedPoints
<1> QED BY <1>2, <1>3

\* A user extends, a TTL passes, 15 minutes pass.
LEMMA TimeMoves ==
  ASSUME CopiesInv, NEW c \in Subjects, Extend(c) \/ GrowsOld(c) \/ Stalls(c)
  PROVE  CopiesMove /\ Points
<1>1. AboutStays /\ UNCHANGED <<hostedOn, expire, asked>>
  BY DEF Extend, GrowsOld, Stalls, opsVars, AboutStays
<1>2. copy[c] \in CopyRow
  BY DEF CopiesInv
<1>3. \E row \in CopyRow : row.status = copy[c].status /\ copy' = [copy EXCEPT ![c] = row]
  <2>1. CASE Extend(c)
    <3> DEFINE row == [[copy[c] EXCEPT !.until = copy[c].age + 1] EXCEPT !.stale = FALSE]
    <3>1. copy[c].age + 1 \in 0 .. Lives
      BY <1>2, <2>1, CopyAssumption DEF Extend, CopyRow, CopyAssumption
    <3>2. row \in CopyRow /\ row.status = copy[c].status
      BY <1>2, <3>1 DEF CopyRow
    <3>3. copy' = [copy EXCEPT ![c] = row]
      BY <2>1 DEF Extend, Touched
    <3> QED BY <3>2, <3>3
  <2>2. CASE GrowsOld(c)
    <3> DEFINE row == [copy[c] EXCEPT !.age = copy[c].age + 1]
    <3>1. copy[c].age + 1 \in 0 .. Lives
      BY <1>2, <2>2, CopyAssumption DEF GrowsOld, CopyRow, CopyAssumption
    <3>2. row \in CopyRow /\ row.status = copy[c].status
      BY <1>2, <3>1 DEF CopyRow
    <3>3. copy' = [copy EXCEPT ![c] = row]
      BY <2>2 DEF GrowsOld
    <3> QED BY <3>2, <3>3
  <2>3. CASE Stalls(c)
    <3> DEFINE row == [copy[c] EXCEPT !.stale = TRUE]
    <3>1. row \in CopyRow /\ row.status = copy[c].status
      BY <1>2 DEF CopyRow
    <3>2. copy' = [copy EXCEPT ![c] = row]
      BY <2>3 DEF Stalls
    <3> QED BY <3>1, <3>2
  <2> QED BY <2>1, <2>2, <2>3
<1>4. CopiesMove
  BY <1>3 DEF CopiesInv, CopiesMove
<1> QED BY <1>1, <1>4 DEF Points, AboutStays, CopiesInv

\* The rest of a request.
LEMMA ContinueMoves ==
  ASSUME CopiesInv, NEW a \in asked, Continue(a)
  PROVE  CopiesMove /\ Points
<1>1. a.of \in Subjects /\ Opened(a.of)
  BY DEF CopiesInv, AllOpened
<1>2. CASE \E j \in Jobs : OpenJob(a, j)
  <2>1. PICK j \in Jobs : OpenJob(a, j)
    BY <1>2
  <2>2. Points
    BY <1>1, <2>1, JobPoints DEF OpenJob, CopiesInv
  <2> QED BY <2>1, <2>2 DEF OpenJob, CopiesMove, CopiesInv
<1>3. CASE OpenRefused(a) \/ Refused(a) \/ Discarded(a) \/ DropMarked(a)
  <2>1. \/ MarkFailed(a.of) \/ MarkDropped(a.of) \/ MarkDropping(a.of, FALSE) \/ MarkDropping(a.of, TRUE)
    BY <1>3 DEF OpenRefused, Refused, Discarded, DropMarked
  <2>2. CopiesMove
    BY <1>1, <2>1, CopyAssumption, StatementsMove DEF CopiesInv
  <2>3. AboutStays /\ UNCHANGED hostedOn /\ asked' \subseteq asked \cup {Step("refuse", a.of, Nothing)}
    BY <1>3 DEF OpenRefused, Refused, Discarded, DropMarked, opsVars, AboutStays
  <2>4. copy'[a.of].status # "none"
    BY <1>1, <2>2, MovedRows DEF Opened
  <2>5. expire' \in [Replicas -> SUBSET Subjects] /\ \A r \in Replicas : expire'[r] \subseteq expire[r]
    <3>1. CASE expire' = expire
      BY <3>1 DEF CopiesInv
    <3>2. CASE DropMarked(a)
      BY <3>2 DEF DropMarked, CopiesInv
    <3> QED BY <1>3, <3>1, <3>2 DEF OpenRefused, Refused, Discarded
  <2> QED BY <1>1, <2>2, <2>3, <2>4, <2>5, AskedPoints
<1> QED BY <1>2, <1>3 DEF Continue

LEMMA ExecutorMoves ==
  ASSUME CopiesInv, NEW x \in Executors, Working(x) \/ Dies(x)
  PROVE  CopiesMove /\ Points
<1>1. UNCHANGED copy
  BY DEF Working, Dies, ClaimJob, PrepareJob, RefuseJob, ReportJob, CreateScratch, FillScratch,
         DropScratch, ExecuteFails
<1>2. CopiesMove
  BY <1>1 DEF CopiesMove, CopiesInv
<1>3. EngineStep
  BY DEF EngineStep, Work, Working, Dies, ClaimJob, PrepareJob, RefuseJob, ReportJob, CreateScratch,
         FillScratch, DropScratch, ExecuteFails
<1>4. CASE Working(x)
  <2>1. UNCHANGED <<hostedOn, asked, expire>>
    BY <1>4 DEF Working, ClaimJob, PrepareJob, RefuseJob, ReportJob, CreateScratch, FillScratch,
                DropScratch, ExecuteFails
  <2> QED BY <1>2, <1>3, <2>1, EnginePoints
<1>5. CASE Dies(x)
  <2>1. AboutStays
    BY <1>3, EngineAbout DEF CopiesInv, EngineInv
  <2>2. UNCHANGED <<hostedOn, copy>> /\ asked' \subseteq asked
    BY <1>5 DEF Dies
  <2>3. /\ expire' \in [Replicas -> SUBSET Subjects]
        /\ \A r \in Replicas : expire'[r] \subseteq expire[r]
    BY <1>5 DEF Dies, CopiesInv
  <2> QED BY <1>2, <2>1, <2>2, <2>3 DEF Points, AboutStays
<1> QED BY <1>4, <1>5

\* The side effects of a Complete.
LEMMA EffectMoves ==
  ASSUME CopiesInv, NEW e \in effects, ApplyEffect(e)
  PROVE  CopiesMove /\ Points
<1> DEFINE c == job[e.job].of
<1>1. "restore" # Nothing /\ "drop" # Nothing
  BY CopyAssumption, OperationAssumption DEF CopyAssumption, OperationAssumption, CopyKinds
<1>2. job[e.job].kind \in {"restore", "drop"} => c \in Subjects /\ Opened(c)
  BY <1>1 DEF CopiesInv, EngineInv, OpsInv, OpsTypeOK, Effect, AllOpened
<1>3. CASE CopyRestored(e)
  <2>1. EngineStep /\ UNCHANGED <<hostedOn, copy, asked, expire>>
    BY <1>3 DEF CopyRestored, EngineStep
  <2> QED BY <2>1, EnginePoints DEF CopiesMove, CopiesInv
<1>4. CASE CopyReady(e)
  <2>1. Apply(e) /\ MarkReady(c) /\ UNCHANGED <<hostedOn, asked, expire>>
    BY <1>4 DEF CopyReady, Apply
  <2>2. ASSUME c \in Subjects, copy[c].status = "restoring" PROVE CopiesMove
    BY <2>1, <2>2, CopyAssumption, StatementsMove DEF CopiesInv, Opened
  <2>3. ASSUME c \notin Subjects \/ copy[c].status # "restoring" PROVE CopiesMove
    <3>1. UNCHANGED copy
      BY <2>1, <2>3 DEF MarkReady, Touched, CopiesInv
    <3> QED BY <3>1 DEF CopiesMove, CopiesInv
  <2>4. CopiesMove
    BY <2>2, <2>3
  <2> QED BY <2>1, <2>4, EnginePoints DEF EngineStep
<1>5. CASE CopyFailed(e)
  <2>1. EngineStep /\ MarkFailed(c) /\ UNCHANGED <<hostedOn, asked, expire>>
    BY <1>5 DEF CopyFailed, EngineStep
  <2>2. CopiesMove
    BY <1>2, <1>5, <2>1, CopyAssumption, StatementsMove DEF CopiesInv, CopyFailed
  <2> QED BY <2>1, <2>2, EnginePoints
<1>6. CASE CopyDropped(e)
  <2>1. Apply(e) /\ (MarkDropped(c) \/ UNCHANGED copy) /\ UNCHANGED <<hostedOn, asked, expire>>
    BY <1>6 DEF CopyDropped, Apply
  <2>2. CopiesMove
    BY <1>2, <1>6, <2>1, CopyAssumption, StatementsMove DEF CopiesInv, CopyDropped
  <2> QED BY <2>1, <2>2, EnginePoints DEF EngineStep
<1>7. CASE \E j \in Jobs : DropRestored(e, j)
  <2>1. PICK j \in Jobs : DropRestored(e, j)
    BY <1>7
  <2>2. /\ NewJob(j, "drop", c, hostedOn) /\ asked' = asked \cup {Step("droppingJob", c, e.by)}
        /\ UNCHANGED <<hostedOn, copy, expire>> /\ job[e.job].kind = "restore"
    BY <2>1 DEF DropRestored, DropJob
  <2>3. expire' \in [Replicas -> SUBSET Subjects] /\ \A r \in Replicas : expire'[r] \subseteq expire[r]
    BY <2>2 DEF CopiesInv
  <2>4. Points
    <3> HIDE DEF c
    <3> QED BY <1>2, <2>2, <2>3, JobPoints
  <2> QED BY <2>2, <2>4 DEF CopiesMove, CopiesInv
<1> QED BY <1>3, <1>4, <1>5, <1>6, <1>7 DEF ApplyEffect

\* Housekeeping, and users' discards.
LEMMA DropMoves ==
  ASSUME CopiesInv,
         \/ \E r \in Replicas : FailStuckJobs(r) \/ Expiring(r)
         \/ \E c \in Subjects, j \in Jobs : DiscardNow(c, j)
  PROVE  CopiesMove /\ Points
<1>1. UNCHANGED <<copy, hostedOn>> /\ CopiesMove
  BY DEF FailStuckJobs, Expiring, ListDue, ExpireCopy, DiscardNow, CopiesMove, CopiesInv
<1>2. CASE \E r \in Replicas : FailStuckJobs(r)
  BY <1>1, <1>2, EnginePoints DEF FailStuckJobs, EngineStep
<1>3. CASE \E r \in Replicas : ListDue(r)
  <2>1. PICK r \in Replicas : ListDue(r)
    BY <1>3
  <2>2. /\ expire' = [expire EXCEPT ![r] = {c \in Subjects : Due(c)}]
        /\ asked' = asked /\ AboutStays
    BY <2>1 DEF ListDue, opsVars, AboutStays
  <2>3. \A c \in Subjects : Due(c) => copy[c].status # "none"
    BY DEF Due
  <2> QED BY <1>1, <2>2, <2>3 DEF Points, AboutStays, CopiesInv
<1>4. CASE \E r \in Replicas : \E c \in expire[r], j \in Jobs : ExpireCopy(r, c, j)
  <2>1. PICK r \in Replicas : \E c \in expire[r], j \in Jobs : ExpireCopy(r, c, j)
    BY <1>4
  <2>2. PICK c \in expire[r], j \in Jobs : ExpireCopy(r, c, j)
    BY <2>1
  <2>3. /\ NewJob(j, "drop", c, hostedOn) /\ asked' = asked \cup {Step("droppingJob", c, r)}
        /\ expire' = expire
    BY <2>2 DEF ExpireCopy, DropJob
  <2>4. c \in Subjects /\ Opened(c)
    BY DEF CopiesInv, AllOpened
  <2>5. expire' \in [Replicas -> SUBSET Subjects] /\ \A q \in Replicas : expire'[q] \subseteq expire[q]
    BY <2>3 DEF CopiesInv
  <2> QED BY <1>1, <2>3, <2>4, <2>5, JobPoints
<1>5. CASE \E c \in Subjects, j \in Jobs : DiscardNow(c, j)
  <2>1. PICK c \in Subjects, j \in Jobs : DiscardNow(c, j)
    BY <1>5
  <2>2. /\ NewJob(j, "drop", c, hostedOn) /\ asked' = asked \cup {Step("droppingJob", c, Nothing)}
        /\ Opened(c) /\ expire' = expire
    BY <2>1 DEF DiscardNow, DropJob, Opened
  <2> QED BY <1>1, <2>2, JobPoints DEF CopiesInv
<1> QED BY <1>2, <1>3, <1>4, <1>5 DEF Expiring

LEMMA NextMoves ==
  ASSUME CopiesInv, [CopyNext]_copyVars
  PROVE  CopiesMove /\ Points
<1>1. CASE UNCHANGED copyVars
  <2>1. EngineStep /\ UNCHANGED <<hostedOn, copy, asked, expire>>
    BY <1>1 DEF copyVars, EngineStep
  <2> QED BY <2>1, EnginePoints DEF CopiesMove, CopiesInv
<1>2. CASE (\E a \in asked : RequestDies(a)) \/ \E j \in Jobs : Ages(j)
  <2>1. EngineStep /\ UNCHANGED <<hostedOn, copy, expire>> /\ asked' \subseteq asked
    BY <1>2 DEF RequestDies, Ages, EngineStep
  <2> QED BY <2>1, EnginePoints DEF CopiesMove, CopiesInv
<1> QED BY <1>1, <1>2, OpenMoves, TimeMoves, ContinueMoves, ExecutorMoves, EffectMoves, DropMoves DEF CopyNext

LEMMA NextMaps ==
  ASSUME CopiesInv, [CopyNext]_copyVars
  PROVE  [OpsNext]_opsVars
<1>1. CASE \E c \in Subjects : OpenCopy(c) \/ Extend(c) \/ DiscardRestoring(c) \/ GrowsOld(c) \/ Stalls(c)
  BY <1>1 DEF OpenCopy, Extend, DiscardRestoring, GrowsOld, Stalls
<1>2. CASE \E c \in Subjects, j \in Jobs : DiscardNow(c, j)
  BY <1>2, RequestMaps DEF DiscardNow, DropJob, CopiesInv, CopyKinds
<1>3. CASE \E a \in asked, j \in Jobs : OpenJob(a, j)
  BY <1>3, RequestMaps DEF OpenJob, CopiesInv, AllOpened, CopyKinds
<1>4. CASE \E a \in asked : OpenRefused(a) \/ Refused(a) \/ Discarded(a) \/ DropMarked(a) \/ RequestDies(a)
  BY <1>4 DEF OpenRefused, Refused, Discarded, DropMarked, RequestDies, OpsNext
<1>5. CASE \E x \in Executors : Working(x) \/ Dies(x)
  BY <1>5, ExecutorMaps
<1>6. CASE \E e \in effects : ApplyEffect(e)
  BY <1>6, EffectMaps DEF CopiesInv
<1>7. CASE \E r \in Replicas : FailStuckJobs(r) \/ ListDue(r)
  BY <1>7 DEF FailStuckJobs, ListDue, OpsNext
<1>8. CASE \E r \in Replicas : \E c \in expire[r], j \in Jobs : ExpireCopy(r, c, j)
  <2>1. PICK r \in Replicas : \E c \in expire[r], j \in Jobs : ExpireCopy(r, c, j)
    BY <1>8
  <2>2. PICK c \in expire[r], j \in Jobs : ExpireCopy(r, c, j)
    BY <2>1
  <2>3. c \in Subjects
    BY DEF CopiesInv
  <2> QED BY <2>2, <2>3, RequestMaps DEF ExpireCopy, DropJob, CopiesInv, CopyKinds
<1>9. CASE (\E j \in Jobs : Ages(j)) \/ UNCHANGED copyVars
  BY <1>9 DEF Ages, OpsNext, copyVars
<1> QED BY <1>1, <1>2, <1>3, <1>4, <1>5, <1>6, <1>7, <1>8, <1>9 DEF CopyNext, Continue, Expiring

LEMMA NextCopies == CopiesInv /\ [CopyNext]_copyVars => CopiesInv'
BY NextMoves, NextMaps, MovesKeep

LEMMA InitCopies == CopyInit => OpsInit /\ CopiesInv
<1> SUFFICES ASSUME CopyInit PROVE OpsInit /\ CopiesInv
  OBVIOUS
<1>1. OpsInit /\ OpsInv
  BY InitOps DEF CopyInit
<1>2. \A j \in Jobs : job[j].kind = Nothing
  BY <1>1 DEF OpsInit, NoJob
<1>3. 0 \in 0 .. Lives
  BY CopyAssumption DEF CopyAssumption
<1>4. NotOpened \in CopyRow /\ NotOpened.status = "none"
  BY <1>3 DEF NotOpened, CopyRow
<1>5. copy \in [Subjects -> CopyRow] /\ AtMostOneLive
  BY <1>4 DEF CopyInit, AtMostOneLive, Live
<1>6. EngineInv /\ AllOpened
  BY <1>1, <1>2 DEF EngineInv, JobHasSubject, CopyInit, AllOpened
<1> QED BY <1>1, <1>5, <1>6 DEF CopyInit, CopiesInv

---------------------------------------------------------------------------
(* The lease *)

\* The holder of the slot, as LiveCopy defines it.
Holder == IF \E c \in Subjects : Live(c) THEN CHOOSE c \in Subjects : Live(c) ELSE Nothing
Over == {c \in Subjects : copy[c].status \in Past}

LEMMA HolderIs ==
  ASSUME AtMostOneLive
  PROVE  /\ \A c \in Subjects : Live(c) => Holder = c
         /\ (\A c \in Subjects : ~Live(c)) => Holder = Nothing
BY DEF AtMostOneLive, Holder

\* A step takes the free slot, gives it back or leaves it alone.
LEMMA MovesLease ==
  ASSUME CopiesInv, CopiesMove
  PROVE  \/ \E c \in Subjects :
              \/ Holder = Nothing /\ c \notin Over /\ Holder' = c /\ Over' = Over
              \/ Holder = c /\ Holder' = Nothing /\ Over' = Over \cup {c}
         \/ Holder' = Holder /\ Over' = Over
<1>1. /\ \A c \in Subjects : Live(c) => Holder = c
      /\ (\A c \in Subjects : ~Live(c)) => Holder = Nothing
  BY HolderIs DEF CopiesInv
<1>2. /\ \A c \in Subjects : Live(c)' => Holder' = c
      /\ (\A c \in Subjects : ~Live(c)') => Holder' = Nothing
  BY MovedRows DEF AtMostOneLive, Holder
<1>3. ASSUME \A c \in Subjects : (Live(c) <=> Live(c)') /\ (copy[c].status \in Past <=> copy'[c].status \in Past)
      PROVE  Holder' = Holder /\ Over' = Over
  <2>1. Over' = Over
    BY <1>3 DEF Over
  <2>2. CASE \E c \in Subjects : Live(c)
    BY <1>1, <1>2, <1>3, <2>1, <2>2
  <2>3. CASE \A c \in Subjects : ~Live(c)
    BY <1>1, <1>2, <1>3, <2>1, <2>3
  <2> QED BY <2>1, <2>2, <2>3
<1>4. CASE \A c \in Subjects : copy'[c].status = copy[c].status
  BY <1>3, <1>4 DEF Live
<1>5. CASE \E c \in Subjects : RowMoves(c) /\ \A d \in Subjects \ {c} : copy'[d] = copy[d]
  <2>1. PICK c \in Subjects : RowMoves(c) /\ \A d \in Subjects \ {c} : copy'[d] = copy[d]
    BY <1>5
  <2>2. \A d \in Subjects : d = c \/ copy'[d] = copy[d]
    BY <2>1
  <2>3. copy[c] \in CopyRow
    BY DEF CopiesInv
  <2>4. CASE \/ copy'[c].status = copy[c].status
             \/ copy[c].status = "restoring" /\ copy'[c].status = "ready"
             \/ copy[c].status \in Past /\ copy'[c].status \in Past
    <3>1. ASSUME NEW d \in Subjects
          PROVE  (Live(d) <=> Live(d)') /\ (copy[d].status \in Past <=> copy'[d].status \in Past)
      BY <2>2, <2>4 DEF Live, Past
    <3> QED BY <1>3, <3>1
  <2>5. CASE copy[c].status = "none" /\ copy'[c].status = "restoring" /\ \A d \in Subjects : ~Live(d)
    <3>1. Holder = Nothing /\ Holder' = c
      BY <1>1, <1>2, <2>5 DEF Live
    <3>2. c \notin Over /\ Over' = Over
      BY <2>2, <2>5 DEF Over, Past
    <3> QED BY <3>1, <3>2
  <2>6. CASE Live(c) /\ copy'[c].status \in Past
    <3>1. Holder = c
      BY <1>1, <2>6
    <3>2. \A d \in Subjects : ~Live(d)'
      BY <2>2, <2>6 DEF CopiesInv, AtMostOneLive, Live, Past
    <3>3. Holder' = Nothing
      BY <1>2, <3>2
    <3>4. Over' = Over \cup {c}
      BY <2>2, <2>6 DEF Over
    <3> QED BY <3>1, <3>3, <3>4
  <2> QED BY <2>1, <2>3, <2>4, <2>5, <2>6 DEF RowMoves, CopyRow, Live, Past
<1> QED BY <1>4, <1>5 DEF CopiesMove
---------------------------------------------------------------------------
(* Who claims what.                                                         *)

Claimed(j) == job[j].status \notin {"none", "pending"}

OldIsClaimed == \A j \in Jobs : job[j].old => Claimed(j)

\* A job is claimed by ClaimNext alone, grows old after that, and is held until
\* its executor is idle again.
ClaimsMove ==
  /\ \A j \in Jobs : Claimed(j) => Claimed(j)'
  /\ \A j \in Jobs : Claimed(j)' => Claimed(j) \/ \E x \in Executors : ClaimNext(x, j)
  /\ \A j \in Jobs : job'[j].old => Claimed(j)
  /\ \A x \in Executors : hand'[x].step # "idle" =>
       \/ hand[x].step # "idle" /\ hand'[x].job = hand[x].job
       \/ hand[x].step = "idle" /\ \E j \in Jobs : ClaimNext(x, j) /\ hand'[x].job = j

LEMMA FinalizeClaims ==
  ASSUME EngineInv, OldIsClaimed, NEW j \in Jobs, NEW ok, NEW x, Finalize(j, ok, x), Claimed(j), HandsKeep
  PROVE  ClaimsMove
<1>1. job \in [Jobs -> Job]
  BY DEF EngineInv, OpsInv, OpsTypeOK
<1>2. \/ job' = job
      \/ /\ job'[j].status \in Final /\ job'[j].old = job[j].old
         /\ \A i \in Jobs \ {j} : job'[i] = job[i]
  <2>1. job[j] \in Job
    BY <1>1
  <2> QED BY <1>1, <2>1 DEF Finalize, Final, Job
<1>3. \A i \in Jobs : (Claimed(i)' <=> Claimed(i)) /\ job'[i].old = job[i].old
  BY <1>2 DEF Claimed, Final
<1> QED BY <1>3 DEF ClaimsMove, HandsKeep, OldIsClaimed

LEMMA NextClaims == EngineInv /\ EngineOrder /\ OldIsClaimed /\ [OpsNext]_opsVars => ClaimsMove /\ OldIsClaimed'
<1> SUFFICES ASSUME EngineInv, EngineOrder, OldIsClaimed, [OpsNext]_opsVars PROVE ClaimsMove /\ OldIsClaimed'
  OBVIOUS
<1> SUFFICES ClaimsMove
  BY DEF ClaimsMove, OldIsClaimed
<1>t. job \in [Jobs -> Job] /\ hand \in [Executors -> Hand] /\ stuck \in [Replicas -> SUBSET Jobs]
  BY DEF EngineInv, OpsInv, OpsTypeOK
<1>k. ASSUME job' = job, HandsKeep PROVE ClaimsMove
  BY <1>k DEF ClaimsMove, Claimed, HandsKeep, OldIsClaimed
<1>1. CASE \/ \E j \in Jobs, kind \in Kinds, of \in Subjects, server \in Agents \cup {Nothing} :
                Create(j, kind, of, server)
           \/ \E e \in effects, j \in Jobs, kind \in Kinds, of \in Subjects, server \in Agents \cup {Nothing} :
                ApplyCreating(e, j, kind, of, server)
  <2>1. PICK j \in Jobs, kind \in Kinds, of \in Subjects, server \in Agents \cup {Nothing} :
          NewJob(j, kind, of, server) /\ hand' = hand
    BY <1>1 DEF Create, ApplyCreating
  <2>2. /\ job[j].status = "none" /\ job'[j].status = "pending" /\ job'[j].old = FALSE
        /\ \A i \in Jobs \ {j} : job'[i] = job[i]
    BY <1>t, <2>1 DEF NewJob
  <2>3. \A i \in Jobs : (Claimed(i)' <=> Claimed(i)) /\ (job'[i].old => job[i].old)
    BY <2>2 DEF Claimed
  <2> QED BY <2>1, <2>3 DEF ClaimsMove, OldIsClaimed
<1>2. CASE \E x \in Executors, j \in Jobs : ClaimNext(x, j)
  <2>1. PICK x \in Executors, j \in Jobs : ClaimNext(x, j)
    BY <1>2
  <2>2. /\ job[j].status = "pending" /\ job'[j].status = "running" /\ \A i \in Jobs : job'[i].old = job[i].old
        /\ \A i \in Jobs \ {j} : job'[i] = job[i]
    <3>1. job[j] \in Job /\ job' = [job EXCEPT ![j] = [job[j] EXCEPT !.status = "running"]] /\ job[j].status = "pending"
      BY <1>t, <2>1 DEF ClaimNext, Queue
    <3> QED BY <1>t, <3>1 DEF Job
  <2>3. hand[x].step = "idle" /\ hand'[x].job = j /\ \A y \in Executors \ {x} : hand'[y] = hand[y]
    BY <1>t, <2>1 DEF ClaimNext
  <2>4. \A i \in Jobs : Claimed(i)' <=> Claimed(i) \/ i = j
    BY <2>2 DEF Claimed
  <2> QED BY <2>1, <2>2, <2>3, <2>4 DEF ClaimsMove, OldIsClaimed
<1>3. CASE \E x \in Executors : Prepare(x) \/ Refuse(x) \/ \E ok \in BOOLEAN : Execute(x, ok)
  <2>1. job' = job
    BY <1>3 DEF Prepare, Refuse, Execute
  <2>2. HandsKeep
    BY <1>t, <1>3 DEF Prepare, Refuse, Execute, HandsKeep, Hand
  <2> QED BY <1>k, <2>1, <2>2
<1>4. CASE \E x \in Executors : Report(x)
  <2>1. PICK x \in Executors : Report(x)
    BY <1>4
  <2>2. hand[x].job \in Jobs /\ Claimed(hand[x].job) /\ Finalize(hand[x].job, hand[x].ok, x)
    BY <2>1 DEF Report, EngineInv, OpsInv, HeldIsClaimed, Claimed
  <2>3. HandsKeep
    BY <1>t, <2>1 DEF Report, IdleHand, HandsKeep
  <2> QED BY <2>2, <2>3, FinalizeClaims
<1>5. CASE \E x \in Executors : Crash(x)
  <2>1. job' = job /\ HandsKeep
    BY <1>t, <1>5 DEF Crash, IdleHand, HandsKeep
  <2> QED BY <1>k, <2>1
<1>6. CASE \E j \in Jobs : ComeOfAge(j)
  <2>1. PICK j \in Jobs : ComeOfAge(j)
    BY <1>6
  <2>2. /\ job[j].status = "running" /\ job'[j].status = "running" /\ hand' = hand
        /\ \A i \in Jobs \ {j} : job'[i] = job[i]
    <3>1. job[j] \in Job /\ job' = [job EXCEPT ![j] = [job[j] EXCEPT !.old = TRUE]] /\ job[j].status = "running" /\ hand' = hand
      BY <1>t, <2>1 DEF ComeOfAge
    <3> QED BY <1>t, <3>1 DEF Job
  <2>3. \A i \in Jobs : (Claimed(i)' <=> Claimed(i)) /\ (job'[i].old => Claimed(i))
    BY <2>2 DEF Claimed, OldIsClaimed
  <2> QED BY <2>2, <2>3 DEF ClaimsMove
<1>7. CASE \E r \in Replicas : Housekeep(r)
  <2>1. PICK r \in Replicas : Housekeep(r)
    BY <1>7
  <2>2. HandsKeep
    BY <2>1 DEF Housekeep, ListStuck, FailStuck, HandsKeep
  <2>3. CASE ListStuck(r)
    BY <1>k, <2>2, <2>3 DEF ListStuck
  <2>4. CASE \E j \in stuck[r] : FailStuck(r, j)
    <3>1. PICK j \in stuck[r] : FailStuck(r, j)
      BY <2>4
    <3>2. j \in Jobs /\ Claimed(j) /\ Finalize(j, FALSE, r)
      BY <1>t, <3>1 DEF FailStuck, EngineOrder, GivenUpIsOld, OldIsClaimed
    <3> QED BY <2>2, <3>2, FinalizeClaims
  <2> QED BY <2>1, <2>3, <2>4 DEF Housekeep
<1>8. CASE (\E e \in effects : Apply(e)) \/ OtherFault \/ UNCHANGED opsVars
  <2>1. job' = job /\ HandsKeep
    BY <1>8 DEF Apply, OtherFault, opsVars, HandsKeep
  <2> QED BY <1>k, <2>1
<1> QED BY <1>1, <1>2, <1>3, <1>4, <1>5, <1>6, <1>7, <1>8 DEF OpsNext, Work
---------------------------------------------------------------------------
(* How a step moves what points at the copies *)

\* A job is created that drops copy c, with the statement that tells the row.
Drops(c, j, x) ==
  \/ x = Nothing /\ DiscardNow(c, j)
  \/ x \in Replicas /\ ExpireCopy(x, c, j)
  \/ \E e \in effects : e.by = x /\ job[e.job].of = c /\ DropRestored(e, j)

CopyTypes ==
  /\ asked \subseteq Statement
  /\ half \subseteq Jobs
  /\ loaded \subseteq Executors
  /\ scratch \in [Subjects -> {"absent", "present"}]

\* Who puts a statement off, and who executes or loses it.
AskedMoves ==
  \A a \in asked' \ asked :
    \/ a = Step("open", a.of, Nothing) /\ OpenCopy(a.of)
    \/ a = Step("refuse", a.of, Nothing) /\ \E b \in asked : b.of = a.of /\ OpenRefused(b)
    \/ a = Step("discard", a.of, Nothing) /\ DiscardRestoring(a.of)
    \/ a = Step("droppingJob", a.of, a.by) /\ \E j \in Jobs : Drops(a.of, j, a.by)

AskedLeaves ==
  \A a \in asked \ asked' : Continue(a) \/ RequestDies(a) \/ (a.by \in Executors /\ Dies(a.by))

\* Who lists a copy for dropping, and when it leaves the list.
ExpireMoves ==
  \A r \in Replicas :
    \/ expire'[r] = expire[r]
    \/ ListDue(r) /\ \A c \in expire'[r] : Due(c)
    \/ /\ expire'[r] \subseteq expire[r]
       /\ \/ Dies(r)
          \/ \E a \in asked : a.by = r /\ DropMarked(a) /\ expire'[r] = expire[r] \ {a.of}

ScratchMoves ==
  /\ scratch' \in [Subjects -> {"absent", "present"}]
  /\ \A c \in Subjects :
       \/ scratch'[c] = scratch[c]
       \/ \E x \in Executors : CreateScratch(x) /\ Of(x) = c /\ scratch'[c] = "present"
       \/ \E x \in Executors : DropScratch(x) /\ Of(x) = c /\ scratch'[c] = "absent"

HalfMoves == \A j \in half' : j \in half \/ \E e \in effects : e.job = j /\ (CopyRestored(e) \/ CopyFailed(e))

\* The statements that may change a row.
RowBy(c) ==
  \/ OpenCopy(c) \/ Extend(c) \/ GrowsOld(c) \/ Stalls(c)
  \/ \E a \in asked : a.of = c /\ (OpenRefused(a) \/ Refused(a) \/ Discarded(a) \/ DropMarked(a))
  \/ \E e \in effects : job[e.job].of = c /\ (CopyReady(e) \/ CopyFailed(e) \/ CopyDropped(e))

RowsMove == \A c \in Subjects : copy'[c] = copy[c] \/ RowBy(c)

\* A good outcome comes of a drop, or of filling a database that is there.
GoodHandsMove ==
  \A x \in Executors : hand'[x].step = "reporting" /\ hand'[x].ok =>
    \/ hand'[x] = hand[x]
    \/ DropScratch(x)
    \/ FillScratch(x) /\ scratch[Of(x)] = "present"

\* Who fills a database goes on with it.
LoadedMoves ==
  /\ loaded' \subseteq Executors
  /\ \A x \in loaded' :
       \/ x \in loaded /\ (hand'[x] = hand[x] \/ hand[x].step # "executing" \/ DropScratch(x))
       \/ CreateScratch(x)

\* Side effects are applied, or lost with who was to apply them.
EffectsLeave == \A e \in effects \ effects' : ApplyEffect(e) \/ Dies(e.by)

LEMMA StepFields == \A do, c, x : Step(do, c, x).do = do /\ Step(do, c, x).of = c /\ Step(do, c, x).by = x
BY DEF Step

LEMMA NextAsked ==
  ASSUME CopiesInv, CopyTypes, [CopyNext]_copyVars
  PROVE  AskedMoves /\ AskedLeaves
<1>k. ASSUME asked' = asked PROVE AskedMoves /\ AskedLeaves
  BY <1>k DEF AskedMoves, AskedLeaves
<1>1. CASE \E c \in Subjects : OpenCopy(c) \/ DiscardRestoring(c)
  <2>1. PICK c \in Subjects : OpenCopy(c) \/ DiscardRestoring(c)
    BY <1>1
  <2>2. CASE OpenCopy(c)
    <3>1. asked' = asked \cup {Step("open", c, Nothing)}
      BY <2>2 DEF OpenCopy
    <3>2. \A a \in asked' \ asked : a = Step("open", c, Nothing)
      BY <3>1
    <3> QED BY <2>2, <3>1, <3>2, StepFields DEF AskedMoves, AskedLeaves
  <2>3. CASE DiscardRestoring(c)
    <3>1. asked' = asked \cup {Step("discard", c, Nothing)}
      BY <2>3 DEF DiscardRestoring
    <3>2. \A a \in asked' \ asked : a = Step("discard", c, Nothing)
      BY <3>1
    <3> QED BY <2>3, <3>1, <3>2, StepFields DEF AskedMoves, AskedLeaves
  <2> QED BY <2>1, <2>2, <2>3
<1>2. CASE \E c \in Subjects : Extend(c) \/ GrowsOld(c) \/ Stalls(c)
  BY <1>k, <1>2 DEF Extend, GrowsOld, Stalls
<1>3. ASSUME NEW c, NEW j \in Jobs, NEW x, Drops(c, j, x) PROVE AskedMoves /\ AskedLeaves
  <2>1. asked' = asked \cup {Step("droppingJob", c, x)}
    BY <1>3 DEF Drops, DiscardNow, ExpireCopy, DropRestored, DropJob
  <2>2. \A a \in asked' \ asked : a = Step("droppingJob", c, x)
    BY <2>1
  <2> QED BY <1>3, <2>1, <2>2, StepFields DEF AskedMoves, AskedLeaves
<1>4. CASE \E c \in Subjects, j \in Jobs : DiscardNow(c, j)
  BY <1>3, <1>4 DEF Drops
<1>5. CASE \E a \in asked : Continue(a) \/ RequestDies(a)
  <2>1. PICK a \in asked : Continue(a) \/ RequestDies(a)
    BY <1>5
  <2>2. CASE asked' = asked \ {a}
    BY <2>1, <2>2 DEF AskedMoves, AskedLeaves
  <2>3. CASE OpenRefused(a)
    <3>1. asked' = (asked \ {a}) \cup {Step("refuse", a.of, Nothing)}
      BY <2>3 DEF OpenRefused
    <3>2. \A b \in asked' \ asked : b = Step("refuse", a.of, Nothing)
      BY <3>1
    <3>3. \A b \in asked \ asked' : b = a
      BY <3>1
    <3> QED BY <2>1, <2>3, <3>2, <3>3, StepFields DEF AskedMoves, AskedLeaves
  <2> QED BY <2>1, <2>2, <2>3 DEF Continue, RequestDies, OpenJob, Refused, Discarded, DropMarked
<1>6. CASE \E x \in Executors : Working(x)
  BY <1>k, <1>6 DEF Working, ClaimJob, PrepareJob, RefuseJob, ReportJob, CreateScratch, FillScratch,
                DropScratch, ExecuteFails
<1>7. CASE \E x \in Executors : Dies(x)
  <2>1. PICK x \in Executors : Dies(x)
    BY <1>7
  <2>2. asked' = {a \in asked : a.by # x}
    BY <2>1 DEF Dies
  <2> QED BY <2>1, <2>2 DEF AskedMoves, AskedLeaves
<1>8. CASE \E e \in effects : ApplyEffect(e)
  <2>1. PICK e \in effects : ApplyEffect(e)
    BY <1>8
  <2>2. CASE \E j \in Jobs : DropRestored(e, j)
    BY <1>3, <2>1, <2>2 DEF Drops
  <2>3. CASE CopyRestored(e) \/ CopyReady(e) \/ CopyFailed(e) \/ CopyDropped(e)
    BY <1>k, <2>3 DEF CopyRestored, CopyReady, CopyFailed, CopyDropped
  <2> QED BY <2>1, <2>2, <2>3 DEF ApplyEffect
<1>9. CASE \E r \in Replicas : FailStuckJobs(r) \/ Expiring(r)
  <2>1. PICK r \in Replicas : FailStuckJobs(r) \/ Expiring(r)
    BY <1>9
  <2>2. CASE FailStuckJobs(r) \/ ListDue(r)
    BY <1>k, <2>2 DEF FailStuckJobs, ListDue
  <2>3. CASE \E c \in expire[r], j \in Jobs : ExpireCopy(r, c, j)
    BY <1>3, <2>1, <2>3 DEF Drops
  <2> QED BY <2>1, <2>2, <2>3 DEF Expiring
<1>10. CASE (\E j \in Jobs : Ages(j)) \/ UNCHANGED copyVars
  BY <1>k, <1>10 DEF Ages, copyVars
<1> QED BY <1>1, <1>2, <1>4, <1>5, <1>6, <1>7, <1>8, <1>9, <1>10 DEF CopyNext

LEMMA NextExpire ==
  ASSUME CopiesInv, CopyTypes, [CopyNext]_copyVars
  PROVE  ExpireMoves
<1>k. ASSUME expire' = expire PROVE ExpireMoves
  BY <1>k DEF ExpireMoves
<1>t. expire \in [Replicas -> SUBSET Subjects]
  BY DEF CopiesInv
<1>1. CASE \E c \in Subjects :
             \/ OpenCopy(c) \/ Extend(c) \/ DiscardRestoring(c) \/ GrowsOld(c) \/ Stalls(c)
             \/ \E j \in Jobs : DiscardNow(c, j)
  BY <1>k, <1>1 DEF OpenCopy, Extend, DiscardRestoring, GrowsOld, Stalls, DiscardNow
<1>2. CASE \E a \in asked : Continue(a) \/ RequestDies(a)
  <2>1. PICK a \in asked : Continue(a) \/ RequestDies(a)
    BY <1>2
  <2>2. CASE DropMarked(a)
    <3>1. \A r \in Replicas : expire'[r] = IF r = a.by THEN expire[r] \ {a.of} ELSE expire[r]
      BY <2>2 DEF DropMarked
    <3> QED BY <2>1, <2>2, <3>1 DEF ExpireMoves
  <2> QED BY <1>k, <2>1, <2>2 DEF Continue, RequestDies, OpenJob, OpenRefused, Refused, Discarded
<1>3. CASE \E x \in Executors : Working(x)
  BY <1>k, <1>3 DEF Working, ClaimJob, PrepareJob, RefuseJob, ReportJob, CreateScratch, FillScratch,
                DropScratch, ExecuteFails
<1>4. CASE \E x \in Executors : Dies(x)
  <2>1. PICK x \in Executors : Dies(x)
    BY <1>4
  <2>2. \A r \in Replicas : expire'[r] = IF r = x THEN {} ELSE expire[r]
    BY <2>1 DEF Dies
  <2> QED BY <2>1, <2>2 DEF ExpireMoves
<1>5. CASE \E e \in effects : ApplyEffect(e)
  BY <1>k, <1>5 DEF ApplyEffect, DropRestored, CopyRestored, CopyReady, CopyFailed, CopyDropped
<1>6. CASE \E r \in Replicas : FailStuckJobs(r) \/ Expiring(r)
  <2>1. PICK r \in Replicas : FailStuckJobs(r) \/ Expiring(r)
    BY <1>6
  <2>2. CASE ListDue(r)
    <3>1. expire' = [expire EXCEPT ![r] = {c \in Subjects : Due(c)}]
      BY <2>2 DEF ListDue
    <3> QED BY <1>t, <2>2, <3>1 DEF ExpireMoves
  <2> QED BY <1>k, <2>1, <2>2 DEF Expiring, FailStuckJobs, ExpireCopy
<1>7. CASE (\E j \in Jobs : Ages(j)) \/ UNCHANGED copyVars
  BY <1>k, <1>7 DEF Ages, copyVars
<1> QED BY <1>1, <1>2, <1>3, <1>4, <1>5, <1>6, <1>7 DEF CopyNext

LEMMA NextScratch ==
  ASSUME CopiesInv, CopyTypes, [CopyNext]_copyVars
  PROVE  ScratchMoves /\ HalfMoves
<1>k. ASSUME scratch' = scratch, half' \subseteq half PROVE ScratchMoves /\ HalfMoves
  BY <1>k DEF ScratchMoves, HalfMoves, CopyTypes
<1>1. CASE \E c \in Subjects :
             \/ OpenCopy(c) \/ Extend(c) \/ DiscardRestoring(c) \/ GrowsOld(c) \/ Stalls(c)
             \/ \E j \in Jobs : DiscardNow(c, j)
  BY <1>k, <1>1 DEF OpenCopy, Extend, DiscardRestoring, GrowsOld, Stalls, DiscardNow
<1>2. CASE \E a \in asked : Continue(a) \/ RequestDies(a)
  BY <1>k, <1>2 DEF Continue, RequestDies, OpenJob, OpenRefused, Refused, Discarded, DropMarked
<1>3. CASE \E x \in Executors : Working(x) \/ Dies(x)
  <2>1. PICK x \in Executors : Working(x) \/ Dies(x)
    BY <1>3
  <2>2. CASE CreateScratch(x)
    <3>1. scratch' = [scratch EXCEPT ![Of(x)] = "present"] /\ half' = half
      BY <2>2 DEF CreateScratch
    <3>2. \A c \in Subjects : scratch'[c] = IF c = Of(x) THEN "present" ELSE scratch[c]
      BY <3>1 DEF CopyTypes
    <3> QED BY <2>2, <3>1, <3>2 DEF ScratchMoves, HalfMoves, CopyTypes
  <2>3. CASE DropScratch(x)
    <3>1. scratch' = [scratch EXCEPT ![Of(x)] = "absent"] /\ half' = half
      BY <2>3 DEF DropScratch
    <3>2. \A c \in Subjects : scratch'[c] = IF c = Of(x) THEN "absent" ELSE scratch[c]
      BY <3>1 DEF CopyTypes
    <3> QED BY <2>3, <3>1, <3>2 DEF ScratchMoves, HalfMoves, CopyTypes
  <2>4. CASE Dies(x)
    BY <1>k, <2>4 DEF Dies
  <2> QED BY <1>k, <2>1, <2>2, <2>3, <2>4 DEF Working, ClaimJob, PrepareJob, RefuseJob, ReportJob, FillScratch,
                                              ExecuteFails
<1>4. CASE \E e \in effects : ApplyEffect(e)
  <2>1. PICK e \in effects : ApplyEffect(e)
    BY <1>4
  <2>2. CASE CopyRestored(e) \/ CopyFailed(e)
    <3>1. half' = half \cup {e.job} /\ scratch' = scratch
      BY <2>2 DEF CopyRestored, CopyFailed
    <3> QED BY <2>1, <2>2, <3>1 DEF ScratchMoves, HalfMoves, CopyTypes
  <2>3. CASE CopyReady(e) \/ CopyDropped(e) \/ \E j \in Jobs : DropRestored(e, j)
    BY <1>k, <2>3 DEF CopyReady, CopyDropped, DropRestored
  <2> QED BY <2>1, <2>2, <2>3 DEF ApplyEffect
<1>5. CASE \E r \in Replicas : FailStuckJobs(r) \/ Expiring(r)
  BY <1>k, <1>5 DEF FailStuckJobs, Expiring, ListDue, ExpireCopy
<1>6. CASE (\E j \in Jobs : Ages(j)) \/ UNCHANGED copyVars
  BY <1>k, <1>6 DEF Ages, copyVars
<1> QED BY <1>1, <1>2, <1>3, <1>4, <1>5, <1>6 DEF CopyNext

\* One row is touched at a time.
LEMMA OneRow ==
  ASSUME copy \in [Subjects -> CopyRow], NEW c, NEW d \in Subjects, d # c,
         \/ InsertCopy(c) \/ MarkReady(c) \/ MarkFailed(c) \/ MarkDropped(c) \/ UNCHANGED copy
         \/ \E withJob \in BOOLEAN : MarkDropping(c, withJob)
         \/ \E row : Touched(c, row) \/ copy' = [copy EXCEPT ![c] = row]
  PROVE  copy'[d] = copy[d]
BY DEF InsertCopy, MarkReady, MarkFailed, MarkDropped, MarkDropping, Touched

LEMMA NextRows ==
  ASSUME CopiesInv, CopyTypes, [CopyNext]_copyVars
  PROVE  RowsMove
<1>k. ASSUME copy' = copy PROVE RowsMove
  BY <1>k DEF RowsMove
<1>t. copy \in [Subjects -> CopyRow]
  BY DEF CopiesInv
<1>r. ASSUME NEW c, c \in Subjects => RowBy(c), \A d \in Subjects : d # c => copy'[d] = copy[d]
      PROVE RowsMove
  BY <1>r DEF RowsMove
<1>1. CASE \E c \in Subjects : OpenCopy(c) \/ Extend(c) \/ GrowsOld(c) \/ Stalls(c)
  <2>1. PICK c \in Subjects : OpenCopy(c) \/ Extend(c) \/ GrowsOld(c) \/ Stalls(c)
    BY <1>1
  <2>2. CASE OpenCopy(c) \/ Extend(c)
    BY <1>t, <1>r, <2>2, OneRow DEF OpenCopy, Extend, RowBy
  <2>3. CASE GrowsOld(c) \/ Stalls(c)
    <3>1. \A d \in Subjects : d # c => copy'[d] = copy[d]
      BY <1>t, <2>3 DEF GrowsOld, Stalls
    <3> QED BY <1>r, <2>3, <3>1 DEF RowBy
  <2> QED BY <2>1, <2>2, <2>3
<1>2. CASE \E c \in Subjects : DiscardRestoring(c) \/ \E j \in Jobs : DiscardNow(c, j)
  BY <1>k, <1>2 DEF DiscardRestoring, DiscardNow
<1>3. CASE \E a \in asked : Continue(a) \/ RequestDies(a)
  <2>1. PICK a \in asked : Continue(a) \/ RequestDies(a)
    BY <1>3
  <2>2. CASE OpenRefused(a) \/ Refused(a) \/ Discarded(a) \/ DropMarked(a)
    <3>1. MarkFailed(a.of) \/ MarkDropped(a.of) \/ \E withJob \in BOOLEAN : MarkDropping(a.of, withJob)
      BY <2>2 DEF OpenRefused, Refused, Discarded, DropMarked
    <3>2. \A d \in Subjects : d # a.of => copy'[d] = copy[d]
      BY <1>t, <3>1, OneRow
    <3> QED BY <1>r, <2>1, <2>2, <3>2 DEF RowBy
  <2> QED BY <1>k, <2>1, <2>2 DEF Continue, RequestDies, OpenJob
<1>4. CASE \E x \in Executors : Working(x) \/ Dies(x)
  BY <1>k, <1>4 DEF Working, ClaimJob, PrepareJob, RefuseJob, ReportJob, CreateScratch, FillScratch,
                DropScratch, ExecuteFails, Dies
<1>5. CASE \E e \in effects : ApplyEffect(e)
  <2>1. PICK e \in effects : ApplyEffect(e)
    BY <1>5
  <2>2. CASE CopyReady(e) \/ CopyFailed(e) \/ CopyDropped(e)
    <3>1. MarkReady(job[e.job].of) \/ MarkFailed(job[e.job].of) \/ MarkDropped(job[e.job].of) \/ UNCHANGED copy
      BY <2>2 DEF CopyReady, CopyFailed, CopyDropped
    <3>2. \A d \in Subjects : d # job[e.job].of => copy'[d] = copy[d]
      BY <1>t, <3>1, OneRow
    <3> QED BY <1>r, <2>1, <2>2, <3>2 DEF RowBy
  <2> QED BY <1>k, <2>1, <2>2 DEF ApplyEffect, CopyRestored, DropRestored
<1>6. CASE \E r \in Replicas : FailStuckJobs(r) \/ Expiring(r)
  BY <1>k, <1>6 DEF FailStuckJobs, Expiring, ListDue, ExpireCopy
<1>7. CASE (\E j \in Jobs : Ages(j)) \/ UNCHANGED copyVars
  BY <1>k, <1>7 DEF Ages, copyVars
<1> QED BY <1>1, <1>2, <1>3, <1>4, <1>5, <1>6, <1>7 DEF CopyNext

LEMMA NextHands ==
  ASSUME CopiesInv, CopyTypes, [CopyNext]_copyVars
  PROVE  GoodHandsMove /\ LoadedMoves
<1>k. ASSUME hand' = hand, loaded' \subseteq loaded PROVE GoodHandsMove /\ LoadedMoves
  BY <1>k DEF GoodHandsMove, LoadedMoves, CopyTypes
<1>t. hand \in [Executors -> Hand]
  BY DEF CopiesInv, EngineInv, OpsInv, OpsTypeOK
<1>1. CASE \E c \in Subjects :
             \/ OpenCopy(c) \/ Extend(c) \/ DiscardRestoring(c) \/ GrowsOld(c) \/ Stalls(c)
             \/ \E j \in Jobs : DiscardNow(c, j)
  BY <1>k, <1>1 DEF OpenCopy, Extend, DiscardRestoring, GrowsOld, Stalls, DiscardNow, opsVars
<1>2. CASE \E a \in asked : Continue(a) \/ RequestDies(a)
  BY <1>k, <1>2 DEF Continue, RequestDies, OpenJob, OpenRefused, Refused, Discarded, DropMarked, opsVars, OtherFault
<1>3. CASE \E x \in Executors : Working(x) \/ Dies(x)
  <2>1. PICK x \in Executors : Working(x) \/ Dies(x)
    BY <1>3
  <2>m. ASSUME NEW h, hand' = [hand EXCEPT ![x] = h],
               \/ h.step # "reporting" \/ ~h.ok
               \/ DropScratch(x) \/ (FillScratch(x) /\ scratch[Of(x)] = "present"),
               \/ loaded' = loaded \ {x}
               \/ loaded' = loaded /\ (hand[x].step # "executing" \/ DropScratch(x))
        PROVE  GoodHandsMove /\ LoadedMoves
    <3>1. \A y \in Executors : hand'[y] = IF y = x THEN h ELSE hand[y]
      BY <1>t, <2>m
    <3> QED BY <2>m, <3>1 DEF GoodHandsMove, LoadedMoves, CopyTypes
  <2>2. CASE (\E j \in Jobs : ClaimJob(x, j)) \/ PrepareJob(x)
    <3>1. PICK j \in Jobs : (ClaimJob(x, j) \/ PrepareJob(x)) /\ hand[x].step # "executing" /\ loaded' = loaded
      BY <2>2, <1>t DEF ClaimJob, PrepareJob, ClaimNext, Prepare, CopiesInv, EngineInv, OpsInv, HeldIsClaimed
    <3>2. CASE ClaimJob(x, j)
      BY <2>m, <3>1, <3>2 DEF ClaimJob, ClaimNext
    <3>3. CASE PrepareJob(x)
      <4> DEFINE h == [hand[x] EXCEPT !.step = "executing"]
      <4>1. hand' = [hand EXCEPT ![x] = h] /\ h.step # "reporting"
        BY <1>t, <3>3 DEF PrepareJob, Prepare, Hand
      <4> HIDE DEF h
      <4> QED BY <2>m, <3>1, <4>1
    <3> QED BY <3>1, <3>2, <3>3
  <2>3. CASE RefuseJob(x) \/ (\E ok \in BOOLEAN : Execute(x, ok)
                               /\ (ok => DropScratch(x) \/ (FillScratch(x) /\ scratch[Of(x)] = "present"))
                               /\ (loaded' = loaded \ {x} \/ (loaded' = loaded /\ DropScratch(x))))
    <3>1. PICK ok \in BOOLEAN :
            /\ hand' = [hand EXCEPT ![x] = [[hand[x] EXCEPT !.step = "reporting"] EXCEPT !.ok = ok]]
            /\ ok => DropScratch(x) \/ (FillScratch(x) /\ scratch[Of(x)] = "present")
            /\ \/ loaded' = loaded \ {x} 
               \/ loaded' = loaded /\ (hand[x].step # "executing" \/ DropScratch(x))
      <4>1. CASE RefuseJob(x)
        <5>1. hand' = [hand EXCEPT ![x] = [[hand[x] EXCEPT !.step = "reporting"] EXCEPT !.ok = FALSE]]
          BY <1>t, <4>1 DEF RefuseJob, Refuse, Hand
        <5> QED BY <4>1, <5>1 DEF RefuseJob, Refuse
      <4>2. CASE ~RefuseJob(x)
        <5>1. PICK ok \in BOOLEAN : Execute(x, ok)
                               /\ (ok => DropScratch(x) \/ (FillScratch(x) /\ scratch[Of(x)] = "present"))
                               /\ (loaded' = loaded \ {x} \/ (loaded' = loaded /\ DropScratch(x)))
          BY <2>3, <4>2
        <5>2. hand' = [hand EXCEPT ![x] = [[hand[x] EXCEPT !.step = "reporting"] EXCEPT !.ok = ok]]
          BY <1>t, <5>1 DEF Execute, Hand
        <5> QED BY <5>1, <5>2
      <4> QED BY <4>1, <4>2
    <3> DEFINE h == [[hand[x] EXCEPT !.step = "reporting"] EXCEPT !.ok = ok]
    <3>2. h.ok = ok
      BY <1>t DEF Hand
    <3> HIDE DEF h
    <3> QED BY <2>m, <3>1, <3>2 DEF h
  <2>4. CASE FillScratch(x) \/ ExecuteFails(x) \/ DropScratch(x)
    <3>1. CASE FillScratch(x)
      <4>1. (scratch[Of(x)] = "present") \in BOOLEAN /\ Execute(x, scratch[Of(x)] = "present") /\ loaded' = loaded \ {x}
        BY <3>1 DEF FillScratch
      <4> QED BY <2>3, <3>1, <4>1
    <3>2. CASE ExecuteFails(x)
      BY <2>3, <3>2 DEF ExecuteFails
    <3>3. CASE DropScratch(x)
      BY <2>3, <3>3 DEF DropScratch
    <3> QED BY <2>4, <3>1, <3>2, <3>3
  <2>5. CASE ReportJob(x)
    BY <2>m, <2>5 DEF ReportJob, Report, IdleHand
  <2>6. CASE CreateScratch(x)
    <3>1. hand' = hand /\ loaded' = loaded \cup {x}
      BY <2>6 DEF CreateScratch, opsVars
    <3> QED BY <2>6, <3>1 DEF GoodHandsMove, LoadedMoves, CopyTypes
  <2>7. CASE Dies(x)
    <3>1. loaded' = loaded \ {x} /\ (hand' = hand \/ hand' = [hand EXCEPT ![x] = IdleHand])
      BY <2>7 DEF Dies, Crash, OtherFault
    <3> QED BY <1>k, <2>m, <3>1 DEF IdleHand
  <2> QED BY <2>1, <2>2, <2>3, <2>4, <2>5, <2>6, <2>7 DEF Working
<1>4. CASE \E e \in effects : ApplyEffect(e)
  BY <1>k, <1>4 DEF ApplyEffect, DropRestored, CopyRestored, CopyReady, CopyFailed, CopyDropped, opsVars
<1>5. CASE \E r \in Replicas : FailStuckJobs(r) \/ Expiring(r)
  BY <1>k, <1>5 DEF FailStuckJobs, Expiring, ListDue, ExpireCopy, opsVars, Housekeep, ListStuck, FailStuck
<1>6. CASE (\E j \in Jobs : Ages(j)) \/ UNCHANGED copyVars
  BY <1>k, <1>6 DEF Ages, copyVars, opsVars, ComeOfAge
<1> QED BY <1>1, <1>2, <1>3, <1>4, <1>5, <1>6 DEF CopyNext

LEMMA NextLeaves ==
  ASSUME CopiesInv, CopyTypes, [CopyNext]_copyVars
  PROVE  EffectsLeave
<1>k. ASSUME effects \subseteq effects' PROVE EffectsLeave
  BY <1>k DEF EffectsLeave
<1>f. ASSUME NEW j, NEW ok, NEW x, Finalize(j, ok, x) PROVE effects \subseteq effects'
  BY <1>f DEF Finalize
<1>1. CASE \E c \in Subjects :
             \/ OpenCopy(c) \/ Extend(c) \/ DiscardRestoring(c) \/ GrowsOld(c) \/ Stalls(c)
             \/ \E j \in Jobs : DiscardNow(c, j)
  BY <1>k, <1>1 DEF OpenCopy, Extend, DiscardRestoring, GrowsOld, Stalls, DiscardNow, opsVars
<1>2. CASE \E a \in asked : Continue(a) \/ RequestDies(a)
  BY <1>k, <1>2 DEF Continue, RequestDies, OpenJob, OpenRefused, Refused, Discarded, DropMarked, opsVars, OtherFault
<1>3. CASE \E x \in Executors : Working(x)
  BY <1>k, <1>3, <1>f DEF Working, ClaimJob, PrepareJob, RefuseJob, ReportJob, CreateScratch, FillScratch,
                     ExecuteFails, DropScratch, ClaimNext, Prepare, Refuse, Execute, Report, opsVars
<1>4. CASE \E x \in Executors : Dies(x)
  <2>1. PICK x \in Executors : Dies(x)
    BY <1>4
  <2>2. \A e \in effects \ effects' : e.by = x
    BY <2>1 DEF Dies, Crash, OtherFault
  <2> QED BY <2>1, <2>2 DEF EffectsLeave
<1>5. CASE \E e \in effects : ApplyEffect(e)
  <2>1. PICK e \in effects : ApplyEffect(e)
    BY <1>5
  <2>2. effects \ {e} \subseteq effects'
    BY <2>1 DEF ApplyEffect, DropRestored, CopyRestored, CopyReady, CopyFailed, CopyDropped, opsVars
  <2> QED BY <2>1, <2>2 DEF EffectsLeave
<1>6. CASE \E r \in Replicas : FailStuckJobs(r) \/ Expiring(r)
  BY <1>k, <1>f, <1>6 DEF FailStuckJobs, Expiring, ListDue, ExpireCopy, opsVars, Housekeep, ListStuck, FailStuck
<1>7. CASE (\E j \in Jobs : Ages(j)) \/ UNCHANGED copyVars
  BY <1>k, <1>7 DEF Ages, copyVars, opsVars, ComeOfAge
<1> QED BY <1>1, <1>2, <1>3, <1>4, <1>5, <1>6, <1>7 DEF CopyNext

\* A worker that expires copies claims nothing and gives nothing up.
ExpiringWaits ==
  \A r \in Replicas : expire[r] # {} /\ hand[r].step = "idle" /\ stuck[r] = {} =>
    hand'[r].step = "idle" /\ stuck'[r] = {}

LEMMA NextWaits ==
  ASSUME CopiesInv, CopyTypes, [CopyNext]_copyVars
  PROVE  ExpiringWaits
<1>k. ASSUME hand' = hand, stuck' = stuck PROVE ExpiringWaits
  BY <1>k DEF ExpiringWaits
<1>t. hand \in [Executors -> Hand] /\ stuck \in [Replicas -> SUBSET Jobs] /\ Replicas \subseteq Executors
  BY DEF CopiesInv, EngineInv, OpsInv, OpsTypeOK, Executors
<1>1. CASE \E c \in Subjects :
             \/ OpenCopy(c) \/ Extend(c) \/ DiscardRestoring(c) \/ GrowsOld(c) \/ Stalls(c)
             \/ \E j \in Jobs : DiscardNow(c, j)
  BY <1>k, <1>1 DEF OpenCopy, Extend, DiscardRestoring, GrowsOld, Stalls, DiscardNow, opsVars
<1>2. CASE \E a \in asked : Continue(a) \/ RequestDies(a)
  BY <1>k, <1>2 DEF Continue, RequestDies, OpenJob, OpenRefused, Refused, Discarded, DropMarked, opsVars, OtherFault
<1>3. CASE \E x \in Executors : Working(x) \/ Dies(x)
  <2>1. PICK x \in Executors : Working(x) \/ Dies(x)
    BY <1>3
  <2>m. ASSUME \A y \in Executors : y # x => hand'[y] = hand[y], \A r \in Replicas : stuck'[r] = stuck[r] \/ stuck'[r] = {},
               x \in Replicas => expire[x] = {} \/ hand[x].step # "idle" \/ hand'[x].step = "idle"
        PROVE  ExpiringWaits
    BY <1>t, <2>m DEF ExpiringWaits
  <2>2. CASE \E j \in Jobs : ClaimJob(x, j)
    BY <1>t, <2>m, <2>2 DEF ClaimJob, ClaimNext
  <2>3. CASE PrepareJob(x) \/ RefuseJob(x) \/ ReportJob(x) \/ \E ok : Execute(x, ok)
    BY <1>t, <2>m, <2>3 DEF PrepareJob, RefuseJob, ReportJob, Prepare, Refuse, Report, Execute
  <2>4. CASE FillScratch(x) \/ DropScratch(x) \/ ExecuteFails(x)
    BY <2>3, <2>4 DEF FillScratch, DropScratch, ExecuteFails
  <2>5. CASE CreateScratch(x)
    BY <1>k, <2>5 DEF CreateScratch, opsVars
  <2>6. CASE Dies(x)
    <3>1. CASE Crash(x)
      BY <1>t, <2>m, <3>1 DEF Crash, IdleHand
    <3>2. CASE OtherFault
      BY <1>k, <3>2 DEF OtherFault
    <3> QED BY <2>6, <3>1, <3>2 DEF Dies
  <2> QED BY <2>1, <2>2, <2>3, <2>4, <2>5, <2>6 DEF Working
<1>4. CASE \E e \in effects : ApplyEffect(e)
  BY <1>k, <1>4 DEF ApplyEffect, DropRestored, CopyRestored, CopyReady, CopyFailed, CopyDropped, opsVars
<1>5. CASE \E r \in Replicas : FailStuckJobs(r)
  BY <1>5 DEF FailStuckJobs, NoOneExpires, ExpiringWaits
<1>6. CASE \E r \in Replicas : Expiring(r)
  BY <1>k, <1>6 DEF Expiring, ListDue, ExpireCopy, opsVars
<1>7. CASE (\E j \in Jobs : Ages(j)) \/ UNCHANGED copyVars
  BY <1>k, <1>7 DEF Ages, copyVars, opsVars, ComeOfAge
<1> QED BY <1>1, <1>2, <1>3, <1>4, <1>5, <1>6, <1>7 DEF CopyNext

\* A step that creates a job, and what it creates.
Made(j) ==
  /\ job[j].status = "none" /\ job'[j].status = "pending" /\ job'[j].server = hostedOn
  /\ \A i \in Jobs : i < j => job[i].status # "none"
  /\ \A i \in Jobs \ {j} : job'[i] = job[i]
  /\ UNCHANGED <<hand, copy, scratch, expire>>
  /\ \/ \E a \in asked : OpenJob(a, j) /\ job'[j].kind = "restore" /\ job'[j].of = a.of
     \/ \E c \in Subjects, x \in Executors \cup {Nothing} :
          Drops(c, j, x) /\ job'[j].kind = "drop" /\ job'[j].of = c

LEMMA Makes ==
  ASSUME CopiesInv, EngineOrder, CopyTypes, [CopyNext]_copyVars,
         NEW j \in Jobs, job[j].status = "none", job'[j].status # "none"
  PROVE  Made(j)
<1>t. OpsInv /\ EngineInv /\ JobsInOrder /\ JobsInOrder' /\ job \in [Jobs -> Job] /\ effects \subseteq Effect
      /\ expire \in [Replicas -> SUBSET Subjects]
  BY NextMaps, NextEngineMoves DEF CopiesInv, EngineOrder, EngineInv, OpsInv, OpsTypeOK
<1>1. ~EngineStep
  <2>1. ASSUME EngineStep PROVE FALSE
    <3>1. job'[j].kind = job[j].kind
      BY <1>t, <2>1, EngineAbout DEF AboutStays
    <3>2. job[j].kind = Nothing /\ job'[j].kind # Nothing
      BY <1>t DEF JobsInOrder, NoJob
    <3> QED BY <3>1, <3>2
  <2> QED BY <2>1
<1>n. ASSUME NEW i \in Jobs, NEW kind, NEW c, NewJob(i, kind, c, hostedOn)
      PROVE  /\ i = j /\ job'[j].status = "pending" /\ job'[j].server = hostedOn
             /\ job'[j].kind = kind /\ job'[j].of = c
             /\ \A k \in Jobs : k < j => job[k].status # "none"
             /\ \A k \in Jobs \ {j} : job'[k] = job[k]
  <2>1. /\ job'[i] = [status |-> "pending", kind |-> kind, of |-> c, server |-> hostedOn, old |-> FALSE]
        /\ \A k \in Jobs \ {i} : job'[k] = job[k]
    BY <1>t, <1>n DEF NewJob
  <2>2. i = j
    BY <2>1
  <2> QED BY <1>n, <2>1, <2>2 DEF NewJob
<1>d. ASSUME NEW i \in Jobs, NEW c \in Subjects, NEW x \in Executors \cup {Nothing}, Drops(c, i, x)
      PROVE  Made(j)
  <2>1. NewJob(i, "drop", c, hostedOn) /\ UNCHANGED <<hand, copy, scratch, expire>>
    BY <1>d DEF Drops, DiscardNow, ExpireCopy, DropRestored, DropJob
  <2>2. i = j /\ job'[j].kind = "drop" /\ job'[j].of = c
    BY <1>n, <2>1
  <2> QED BY <1>d, <1>n, <2>1, <2>2 DEF Made
<1>2. CASE \E a \in asked, i \in Jobs : OpenJob(a, i)
  <2>1. PICK a \in asked, i \in Jobs : OpenJob(a, i)
    BY <1>2
  <2>2. NewJob(i, "restore", a.of, hostedOn) /\ UNCHANGED <<hand, copy, scratch, expire>>
    BY <2>1 DEF OpenJob
  <2>3. i = j /\ job'[j].kind = "restore" /\ job'[j].of = a.of
    BY <1>n, <2>2
  <2> QED BY <1>n, <2>1, <2>2, <2>3 DEF Made
<1>3. CASE \E c \in Subjects, i \in Jobs : DiscardNow(c, i)
  BY <1>d, <1>3 DEF Drops
<1>4. CASE \E r \in Replicas : \E c \in expire[r], i \in Jobs : ExpireCopy(r, c, i)
  <2>1. PICK r \in Replicas : \E c \in expire[r], i \in Jobs : ExpireCopy(r, c, i)
    BY <1>4
  <2>2. PICK c \in expire[r], i \in Jobs : ExpireCopy(r, c, i)
    BY <2>1
  <2>3. c \in Subjects /\ r \in Executors
    BY <1>t DEF Executors
  <2> QED BY <1>d, <2>2, <2>3 DEF Drops
<1>5. CASE \E e \in effects, i \in Jobs : DropRestored(e, i)
  <2>1. PICK e \in effects, i \in Jobs : DropRestored(e, i)
    BY <1>5
  <2>2. e.job \in Jobs /\ e.by \in Executors /\ job[e.job].kind = "restore"
    BY <1>t, <2>1 DEF DropRestored, Effect
  <2>3. job[e.job].of \in Subjects
    BY <2>2, CopyAssumption, OperationAssumption
       DEF CopyAssumption, OperationAssumption, CopyKinds, CopiesInv, AllOpened
  <2> QED BY <1>d, <2>1, <2>2, <2>3 DEF Drops
<1> QED
  <2>u. ~UNCHANGED opsVars
    BY <1>1 DEF EngineStep
  <2>1. ~(\E c \in Subjects : OpenCopy(c) \/ Extend(c) \/ DiscardRestoring(c) \/ GrowsOld(c) \/ Stalls(c))
    BY <2>u DEF OpenCopy, Extend, DiscardRestoring, GrowsOld, Stalls
  <2>2. ~(\E a \in asked : OpenRefused(a) \/ Refused(a) \/ Discarded(a) \/ DropMarked(a) \/ RequestDies(a))
    BY <1>1, <2>u DEF OpenRefused, Refused, Discarded, DropMarked, RequestDies, EngineStep
  <2>3. ~(\E x \in Executors : Working(x) \/ Dies(x))
    <3>1. ASSUME NEW x \in Executors, Working(x) \/ Dies(x) PROVE EngineStep
      BY <3>1 DEF EngineStep, Work, Working, Dies, ClaimJob, PrepareJob, RefuseJob, ReportJob, CreateScratch,
                  FillScratch, DropScratch, ExecuteFails
    <3> QED BY <1>1, <3>1
  <2>4. ~(\E e \in effects : CopyRestored(e) \/ CopyReady(e) \/ CopyFailed(e) \/ CopyDropped(e))
    <3>1. \A e \in effects : CopyReady(e) \/ CopyDropped(e) => Apply(e)
      BY DEF CopyReady, CopyDropped, Apply
    <3> QED BY <1>1, <2>u, <3>1 DEF EngineStep, CopyRestored, CopyFailed
  <2>5. ~(\E r \in Replicas : FailStuckJobs(r) \/ ListDue(r))
    BY <1>1, <2>u DEF FailStuckJobs, ListDue, EngineStep
  <2>6. ~(\E i \in Jobs : Ages(i)) /\ ~UNCHANGED copyVars
    BY <1>1, <2>u DEF Ages, EngineStep, copyVars
  <2> QED BY <1>2, <1>3, <1>4, <1>5, <2>1, <2>2, <2>3, <2>4, <2>5, <2>6
     DEF CopyNext, Continue, ApplyEffect, Expiring

---------------------------------------------------------------------------
(* What every step keeps of the engine's *)

JobOf(j, kind, c) == job[j].kind = kind /\ job[j].of = c

\* The jobs there are stay what they are, and the others are made.
JobsBefore ==
  \A j \in Jobs :
    \/ /\ job[j].status # "none" /\ job'[j].status # "none" /\ job[j].kind # Nothing
       /\ job'[j].kind = job[j].kind /\ job'[j].of = job[j].of /\ job'[j].server = job[j].server
    \/ /\ job[j].status = "none" /\ job'[j].status = "none"
       /\ job[j].kind = Nothing /\ job'[j].kind = Nothing
    \/ job[j].kind = Nothing /\ Made(j)

LEMMA ServersStay ==
  ASSUME OpsInv, [OpsNext]_opsVars, NEW j \in Jobs, job[j].status # "none"
  PROVE  job'[j].server = job[j].server
<1>t. job \in [Jobs -> Job]
  BY DEF OpsInv, OpsTypeOK
<1>s. ASSUME NEW i \in Jobs, NEW s, job' = [job EXCEPT ![i].status = s] PROVE job'[j].server = job[j].server
  <2>1. job[i] \in Job
    BY <1>t
  <2>2. [job[i] EXCEPT !.status = s].server = job[i].server
    BY <2>1 DEF Job
  <2> QED BY <1>t, <1>s, <2>2
<1>f. ASSUME NEW i \in Jobs, NEW ok, NEW x, Finalize(i, ok, x) PROVE job'[j].server = job[j].server
  <2>1. job' = job \/ \E s : job' = [job EXCEPT ![i].status = s]
    BY <1>f DEF Finalize
  <2> QED BY <1>s, <2>1
<1>1. CASE \/ \E i \in Jobs, kind \in Kinds, of \in Subjects, server \in Agents \cup {Nothing} :
                Create(i, kind, of, server)
           \/ \E e \in effects, i \in Jobs, kind \in Kinds, of \in Subjects, server \in Agents \cup {Nothing} :
                ApplyCreating(e, i, kind, of, server)
  <2>1. PICK i \in Jobs, kind \in Kinds, of \in Subjects, server \in Agents \cup {Nothing} :
          NewJob(i, kind, of, server)
    BY <1>1 DEF Create, ApplyCreating
  <2>2. job[i].status = "none" /\ \A k \in Jobs \ {i} : job'[k] = job[k]
    BY <1>t, <2>1 DEF NewJob
  <2> QED BY <2>2
<1>2. CASE \E x \in Executors : Work(x) \/ Crash(x)
  <2>1. PICK x \in Executors : Work(x) \/ Crash(x)
    BY <1>2
  <2>2. CASE \E i \in Jobs : ClaimNext(x, i)
    <3>1. PICK i \in Jobs : job' = [job EXCEPT ![i].status = "running"]
      BY <2>2 DEF ClaimNext
    <3> QED BY <1>s, <3>1
  <2>3. CASE Report(x)
    <3>1. hand[x].job \in Jobs /\ Finalize(hand[x].job, hand[x].ok, x)
      BY <2>3 DEF Report, OpsInv, HeldIsClaimed
    <3> QED BY <1>f, <3>1
  <2> QED BY <2>1, <2>2, <2>3 DEF Work, Prepare, Refuse, Execute, Crash
<1>3. CASE \E i \in Jobs : ComeOfAge(i)
  <2>1. PICK i \in Jobs : job' = [job EXCEPT ![i] = [job[i] EXCEPT !.old = TRUE]]
    BY <1>3, <1>t DEF ComeOfAge
  <2>2. [job[i] EXCEPT !.old = TRUE].server = job[i].server
    BY <1>t DEF Job
  <2> QED BY <1>t, <2>1, <2>2
<1>4. CASE \E r \in Replicas : Housekeep(r)
  <2>1. PICK r \in Replicas : Housekeep(r)
    BY <1>4
  <2>2. CASE \E i \in stuck[r] : FailStuck(r, i)
    <3>1. PICK i \in stuck[r] : FailStuck(r, i)
      BY <2>2
    <3>2. i \in Jobs
      BY <2>1, <3>1 DEF OpsInv, OpsTypeOK
    <3> QED BY <1>f, <3>1, <3>2 DEF FailStuck
  <2> QED BY <2>1, <2>2 DEF Housekeep, ListStuck
<1> QED BY <1>1, <1>2, <1>3, <1>4 DEF OpsNext, Apply, OtherFault, opsVars

LEMMA CopyKindsAre == Nothing \notin {"restore", "drop"}
BY CopyAssumption, OperationAssumption DEF CopyAssumption, OperationAssumption, CopyKinds

LEMMA NextJobs ==
  ASSUME CopiesInv, EngineOrder, CopyTypes, [CopyNext]_copyVars
  PROVE  JobsBefore
<1>1. /\ OpsInv /\ JobsInOrder /\ JobsInOrder' /\ JobsLast /\ [OpsNext]_opsVars
  BY NextMaps, NextEngineMoves DEF CopiesInv, EngineOrder, EngineMoves, EngineInv
<1>2. ASSUME NEW j \in Jobs, job[j].status # "none"
      PROVE  /\ job'[j].status # "none" /\ job[j].kind # Nothing
             /\ job'[j].kind = job[j].kind /\ job'[j].of = job[j].of /\ job'[j].server = job[j].server
  BY <1>1, <1>2, ServersStay DEF JobsLast, JobsInOrder
<1>3. ASSUME NEW j \in Jobs, job[j].status = "none", job'[j].status = "none"
      PROVE  job[j].kind = Nothing /\ job'[j].kind = Nothing
  BY <1>1, <1>3 DEF JobsInOrder, NoJob
<1>4. ASSUME NEW j \in Jobs, job[j].status = "none", job'[j].status # "none"
      PROVE  job[j].kind = Nothing /\ Made(j)
  <2>1. job[j].kind = Nothing
    BY <1>1, <1>4 DEF JobsInOrder, NoJob
  <2> QED BY <1>4, <2>1, Makes
<1> QED BY <1>2, <1>3, <1>4 DEF JobsBefore

\* A job with side effects to come was open when it was finalized.
EffectsComeOnce ==
  \A e \in effects' \ effects :
    /\ job[e.job].status \in Open
    /\ hand[e.by].step = "reporting" \/ (e.by \in Replicas /\ stuck[e.by] # {})

LEMMA NextEffects ==
  ASSUME OpsInv, [OpsNext]_opsVars
  PROVE  EffectsComeOnce
<1>k. ASSUME effects' \subseteq effects PROVE EffectsComeOnce
  BY <1>k DEF EffectsComeOnce
<1>f. ASSUME NEW j, NEW ok, NEW x, Finalize(j, ok, x),
             hand[x].step = "reporting" \/ (x \in Replicas /\ stuck[x] # {})
      PROVE EffectsComeOnce
  <2>1. effects' \subseteq effects \/ (job[j].status \in Open /\ effects' = effects \cup {[job |-> j, ok |-> ok, by |-> x]})
    BY <1>f DEF Finalize, Finalizable
  <2>2. \A e \in effects' \ effects : job[j].status \in Open /\ e.job = j /\ e.by = x
    BY <2>1
  <2> QED BY <1>f, <2>2 DEF EffectsComeOnce
<1>1. CASE \E x \in Executors : Report(x)
  BY <1>f, <1>1 DEF Report
<1>2. CASE \E r \in Replicas : Housekeep(r)
  <2>1. PICK r \in Replicas : Housekeep(r)
    BY <1>2
  <2>2. CASE \E i \in stuck[r] : FailStuck(r, i)
    BY <1>f, <2>1, <2>2 DEF FailStuck
  <2> QED BY <1>k, <2>1, <2>2 DEF Housekeep, ListStuck
<1> QED BY <1>k, <1>1, <1>2 DEF OpsNext, Work, ClaimNext, Prepare, Refuse, Execute, Crash, ComeOfAge, Apply,
                                ApplyCreating, Create, OtherFault, opsVars

\* Nothing is given up as long as no process died and no execution outlives
\* its limit: what runs is held.
Clean == \A j \in Jobs : ~job[j].old /\ (job[j].status = "running" => \E x \in Executors : Holding(x, j))

Good(j) == ReportedGood(j) \/ \E e \in effects : e.job = j /\ e.ok

\* A good outcome is recorded, and then its side effect is applied.
GoodLast == \A j \in Jobs : Good(j) => Good(j)' \/ \E e \in effects \ effects' : e.job = j /\ e.ok

LEMMA StaysClean ==
  ASSUME EngineInv, EngineOrder, ~Slow, Clean, [OpsNext]_opsVars, faults' = faults
  PROVE  Clean' /\ GoodLast
<1>t. /\ job \in [Jobs -> Job] /\ hand \in [Executors -> Hand] /\ faults \in Nat /\ stuck \in [Replicas -> SUBSET Jobs]
      /\ \A j \in Jobs : job[j] \in Job
  BY OperationAssumption DEF OperationAssumption, EngineInv, OpsInv, OpsTypeOK
<1>k. ASSUME job' = job,
             \A x \in Executors : hand[x].step # "idle" => hand'[x].step # "idle" /\ hand'[x].job = hand[x].job
      PROVE  Clean'
  BY <1>k DEF Clean, Holding
<1>g. ASSUME \A x \in Executors : hand[x].step = "reporting" /\ hand[x].ok =>
               \/ hand'[x] = hand[x]
               \/ \E e \in effects' : e.job = hand[x].job /\ e.ok
      PROVE  GoodLast
  BY <1>g DEF GoodLast, Good, ReportedGood
<1>1. CASE \/ \E j \in Jobs, kind \in Kinds, of \in Subjects, server \in Agents \cup {Nothing} :
                Create(j, kind, of, server)
           \/ \E e \in effects, j \in Jobs, kind \in Kinds, of \in Subjects, server \in Agents \cup {Nothing} :
                ApplyCreating(e, j, kind, of, server)
  <2>1. PICK j \in Jobs, kind \in Kinds, of \in Subjects, server \in Agents \cup {Nothing} :
          NewJob(j, kind, of, server) /\ hand' = hand
    BY <1>1 DEF Create, ApplyCreating
  <2>2. /\ job[j].status = "none" /\ job'[j].status = "pending" /\ job'[j].old = FALSE
        /\ \A i \in Jobs \ {j} : job'[i] = job[i]
    BY <1>t, <2>1 DEF NewJob
  <2>3. Clean'
    BY <2>1, <2>2 DEF Clean, Holding
  <2> QED BY <1>g, <2>1, <2>3
<1>2. CASE \E x \in Executors, j \in Jobs : ClaimNext(x, j)
  <2>1. PICK x \in Executors, j \in Jobs : ClaimNext(x, j)
    BY <1>2
  <2>2. /\ \A i \in Jobs : job'[i].old = job[i].old
        /\ \A i \in Jobs \ {j} : job'[i] = job[i]
    <3>1. job' = [job EXCEPT ![j] = [job[j] EXCEPT !.status = "running"]]
      BY <1>t, <2>1 DEF ClaimNext
    <3> QED BY <1>t, <3>1 DEF Job
  <2>3. /\ hand[x].step = "idle" /\ hand'[x] = [step |-> "claimed", job |-> j, ok |-> FALSE]
        /\ \A y \in Executors \ {x} : hand'[y] = hand[y]
    BY <1>t, <2>1 DEF ClaimNext
  <2>4. Clean'
    <3>1. \A y \in Executors : hand[y].step # "idle" => hand'[y] = hand[y]
      BY <2>3
    <3>2. hand'[x].step # "idle" /\ hand'[x].job = j
      BY <2>3
    <3> QED BY <2>2, <3>1, <3>2 DEF Clean, Holding
  <2>5. GoodLast
    BY <1>g, <2>3
  <2> QED BY <2>4, <2>5
<1>3. CASE \E x \in Executors : Prepare(x) \/ Refuse(x) \/ \E ok \in BOOLEAN : Execute(x, ok)
  <2>1. PICK x \in Executors : Prepare(x) \/ Refuse(x) \/ \E ok \in BOOLEAN : Execute(x, ok)
    BY <1>3
  <2>2. job' = job /\ hand[x].step # "reporting" /\ \A y \in Executors : y # x => hand'[y] = hand[y]
    BY <1>t, <2>1 DEF Prepare, Refuse, Execute
  <2>3. hand'[x].step # "idle" /\ hand'[x].job = hand[x].job
    BY <1>t, <2>1 DEF Prepare, Refuse, Execute, Hand
  <2> QED BY <1>k, <1>g, <2>2, <2>3
<1>4. CASE \E x \in Executors : Report(x)
  <2>1. PICK x \in Executors : Report(x)
    BY <1>4
  <2> DEFINE j == hand[x].job
  <2>2. j \in Jobs /\ job[j].status = "running" /\ hand[x].ok \in BOOLEAN
    BY <1>t, <2>1 DEF Report, EngineInv, OpsInv, HeldIsClaimed, EngineOrder, GivenUpIsOld, Clean, Hand
  <2>3. /\ job' = [job EXCEPT ![j].status = IF hand[x].ok THEN "succeeded" ELSE "failed"]
        /\ effects' = effects \cup {[job |-> j, ok |-> hand[x].ok, by |-> x]}
    BY <2>1, <2>2 DEF Report, Finalize, Finalizable, Open
  <2>4. \A y \in Executors : y # x => hand'[y] = hand[y]
    BY <1>t, <2>1 DEF Report
  <2>5. /\ job'[j].status # "running" /\ \A i \in Jobs : job'[i].old = job[i].old
        /\ \A i \in Jobs \ {j} : job'[i] = job[i]
    <3> DEFINE s == IF hand[x].ok THEN "succeeded" ELSE "failed"
    <3>1. job' = [job EXCEPT ![j] = [job[j] EXCEPT !.status = s]]
      BY <1>t, <2>2, <2>3
    <3>2. s # "running"
      OBVIOUS
    <3> HIDE DEF s
    <3> QED BY <1>t, <2>2, <3>1, <3>2 DEF Job
  <2>6. Clean'
    BY <2>2, <2>4, <2>5 DEF Clean, Holding
  <2>7. GoodLast
    <3> DEFINE e == [job |-> j, ok |-> hand[x].ok, by |-> x]
    <3>1. e \in effects' /\ e.job = j /\ e.ok = hand[x].ok
      BY <2>3
    <3>2. \A y \in Executors : hand[y].step = "reporting" /\ hand[y].ok =>
            hand'[y] = hand[y] \/ \E f \in effects' : f.job = hand[y].job /\ f.ok
      BY <2>4, <3>1
    <3> QED BY <1>g, <3>2
  <2> QED BY <2>6, <2>7
<1>5. CASE (\E x \in Executors : Crash(x)) \/ OtherFault
  BY <1>t, <1>5 DEF Crash, OtherFault
<1>6. CASE \E j \in Jobs : ComeOfAge(j)
  BY <1>6 DEF ComeOfAge, Clean
<1>7. CASE \E r \in Replicas : Housekeep(r)
  <2>1. PICK r \in Replicas : ListStuck(r)
    BY <1>t, <1>7 DEF Housekeep, EngineOrder, GivenUpIsOld, Clean
  <2>2. job' = job /\ hand' = hand
    BY <2>1 DEF ListStuck
  <2> QED BY <1>k, <1>g, <2>2
<1>8. CASE (\E e \in effects : Apply(e)) \/ UNCHANGED opsVars
  <2>1. job' = job /\ hand' = hand
    BY <1>8 DEF Apply, opsVars
  <2> QED BY <1>k, <1>g, <2>1
<1> QED BY <1>1, <1>2, <1>3, <1>4, <1>5, <1>6, <1>7, <1>8 DEF OpsNext, Work

---------------------------------------------------------------------------
(* What becomes of a row, and by whose statement *)

Becomes(c, s) ==
  copy'[c].status = s /\ copy'[c].attempts = copy[c].attempts /\ ~copy'[c].stale

RowTurns(c) ==
  \/ /\ copy'[c].status = copy[c].status /\ copy'[c].attempts = copy[c].attempts
     /\ copy'[c].stale => copy[c].stale \/ Stalls(c)
  \/ /\ OpenCopy(c) /\ copy[c].status = "none"
     /\ copy'[c].status = "restoring" /\ copy'[c].attempts = 0 /\ ~copy'[c].stale
  \/ /\ \E e \in effects : job[e.job].of = c /\ CopyReady(e)
     /\ copy[c].status = "restoring" /\ Becomes(c, "ready")
  \/ /\ \/ \E a \in asked : a.of = c /\ OpenRefused(a)
        \/ \E e \in effects : job[e.job].of = c /\ CopyFailed(e)
     /\ Live(c) /\ Becomes(c, "failed")
  \/ /\ \E a \in asked : a.of = c /\ Discarded(a)
     /\ copy[c].status # "dropped" /\ Becomes(c, "dropping")
  \/ /\ \E a \in asked : a.of = c /\ DropMarked(a)
     /\ copy[c].status # "dropped" /\ copy'[c].status = "dropping"
     /\ copy'[c].attempts = copy[c].attempts + 1 /\ ~copy'[c].stale
  \/ /\ \/ \E a \in asked : a.of = c /\ Refused(a)
        \/ \E e \in effects : job[e.job].of = c /\ CopyDropped(e) /\ e.ok
     /\ Becomes(c, "dropped")

\* A row is written as given, and is not stale.
LEMMA Written ==
  ASSUME copy \in [Subjects -> CopyRow], NEW c \in Subjects, NEW row \in CopyRow, Touched(c, row)
  PROVE  copy'[c].status = row.status /\ copy'[c].attempts = row.attempts /\ ~copy'[c].stale
<1>1. copy'[c] = [row EXCEPT !.stale = FALSE]
  BY DEF Touched
<1> QED BY <1>1 DEF CopyRow

LEMMA NextTurns ==
  ASSUME CopiesInv, RowsMove, NEW c \in Subjects
  PROVE  RowTurns(c)
<1>t. copy \in [Subjects -> CopyRow] /\ copy[c] \in CopyRow /\ 0 \in 0 .. Lives /\ 1 \in 0 .. Lives
  BY CopyAssumption DEF CopyAssumption, CopiesInv
<1>k. ASSUME copy'[c] = copy[c] PROVE RowTurns(c)
  BY <1>k DEF RowTurns
<1>1. CASE OpenCopy(c)
  <2> DEFINE row == [NotOpened EXCEPT !.status = "restoring"]
  <2>1. row \in CopyRow /\ row.status = "restoring" /\ row.attempts = 0
    BY <1>t DEF NotOpened, CopyRow
  <2>2. Touched(c, row) /\ copy[c].status = "none"
    BY <1>1 DEF OpenCopy, InsertCopy
  <2> HIDE DEF row
  <2> QED BY <1>1, <1>t, <2>1, <2>2, Written DEF RowTurns
<1>2. CASE Extend(c)
  <2>0. copy[c].age + 1 \in 0 .. Lives
    BY <1>t, <1>2, CopyAssumption DEF Extend, CopyRow, CopyAssumption
  <2> DEFINE row == [copy[c] EXCEPT !.until = copy[c].age + 1]
  <2>1. row \in CopyRow /\ row.status = copy[c].status /\ row.attempts = copy[c].attempts
    BY <1>t, <2>0 DEF CopyRow
  <2>2. Touched(c, row)
    BY <1>2 DEF Extend
  <2> HIDE DEF row
  <2> QED BY <1>t, <2>1, <2>2, Written DEF RowTurns
<1>3. CASE GrowsOld(c)
  <2>1. copy'[c] = [copy[c] EXCEPT !.age = copy[c].age + 1]
    BY <1>t, <1>3 DEF GrowsOld
  <2>2. copy'[c].status = copy[c].status /\ copy'[c].attempts = copy[c].attempts /\ copy'[c].stale = copy[c].stale
    BY <1>t, <2>1 DEF CopyRow
  <2> QED BY <2>2 DEF RowTurns
<1>4. CASE Stalls(c)
  <2>1. copy'[c] = [copy[c] EXCEPT !.stale = TRUE]
    BY <1>t, <1>4 DEF Stalls
  <2>2. copy'[c].status = copy[c].status /\ copy'[c].attempts = copy[c].attempts
    BY <1>t, <2>1 DEF CopyRow
  <2> QED BY <1>4, <2>2 DEF RowTurns
<1>r. MarkReady(c) => copy'[c] = copy[c] \/ (copy[c].status = "restoring" /\ Becomes(c, "ready"))
  <2> SUFFICES ASSUME MarkReady(c), copy[c].status = "restoring" PROVE Becomes(c, "ready")
    BY DEF MarkReady
  <2> DEFINE row == [copy[c] EXCEPT !.status = "ready", !.age = 0, !.until = 1]
  <2>1. row \in CopyRow /\ row.status = "ready" /\ row.attempts = copy[c].attempts
    BY <1>t DEF CopyRow
  <2>2. Touched(c, row)
    BY DEF MarkReady
  <2> HIDE DEF row
  <2> QED BY <1>t, <2>1, <2>2, Written DEF Becomes
<1>f. MarkFailed(c) => copy'[c] = copy[c] \/ (Live(c) /\ Becomes(c, "failed"))
  <2> SUFFICES ASSUME MarkFailed(c), Live(c) PROVE Becomes(c, "failed")
    BY DEF MarkFailed
  <2> DEFINE row == [copy[c] EXCEPT !.status = "failed"]
  <2>1. row \in CopyRow /\ row.status = "failed" /\ row.attempts = copy[c].attempts
    BY <1>t DEF CopyRow
  <2>2. Touched(c, row)
    BY DEF MarkFailed
  <2> HIDE DEF row
  <2> QED BY <1>t, <2>1, <2>2, Written DEF Becomes
<1>d. MarkDropped(c) => Becomes(c, "dropped")
  <2> SUFFICES ASSUME MarkDropped(c) PROVE Becomes(c, "dropped")
    OBVIOUS
  <2> DEFINE row == [copy[c] EXCEPT !.status = "dropped"]
  <2>1. row \in CopyRow /\ row.status = "dropped" /\ row.attempts = copy[c].attempts
    BY <1>t DEF CopyRow
  <2>2. Touched(c, row)
    BY DEF MarkDropped
  <2> HIDE DEF row
  <2> QED BY <1>t, <2>1, <2>2, Written DEF Becomes
<1>g. ASSUME NEW withJob \in BOOLEAN, MarkDropping(c, withJob)
      PROVE  \/ copy'[c] = copy[c]
             \/ /\ copy[c].status # "dropped" /\ copy'[c].status = "dropping" /\ ~copy'[c].stale
                /\ copy'[c].attempts = IF withJob THEN copy[c].attempts + 1 ELSE copy[c].attempts
  <2> SUFFICES ASSUME copy[c].status # "dropped"
               PROVE  /\ copy'[c].status = "dropping" /\ ~copy'[c].stale
                      /\ copy'[c].attempts = IF withJob THEN copy[c].attempts + 1 ELSE copy[c].attempts
    BY <1>g DEF MarkDropping
  <2> DEFINE row == [copy[c] EXCEPT !.status = "dropping", !.drop = @ \/ withJob,
                                    !.attempts = IF withJob THEN @ + 1 ELSE @]
             drop == copy[c].drop \/ withJob
             attempts == IF withJob THEN copy[c].attempts + 1 ELSE copy[c].attempts
  <2>1. drop \in BOOLEAN /\ attempts \in Nat
    <3>1. copy[c].drop \in BOOLEAN /\ copy[c].attempts \in Nat
      BY <1>t DEF CopyRow
    <3> QED BY <3>1
  <2>2. row = [[copy[c] EXCEPT !.status = "dropping"] EXCEPT !.drop = drop, !.attempts = attempts]
    BY <1>t DEF CopyRow
  <2>3. Touched(c, row)
    BY <1>g DEF MarkDropping
  <2>4. row \in CopyRow /\ row.status = "dropping" /\ row.attempts = attempts
    <3> HIDE DEF drop, attempts, row
    <3> QED BY <1>t, <2>1, <2>2 DEF CopyRow
  <2> HIDE DEF row
  <2> QED BY <1>t, <2>3, <2>4, Written
<1>5. CASE \E a \in asked : a.of = c /\ (OpenRefused(a) \/ Refused(a) \/ Discarded(a) \/ DropMarked(a))
  <2>1. PICK a \in asked : a.of = c /\ (OpenRefused(a) \/ Refused(a) \/ Discarded(a) \/ DropMarked(a))
    BY <1>5
  <2>2. CASE OpenRefused(a)
    <3>1. MarkFailed(c)
      BY <2>1, <2>2 DEF OpenRefused
    <3> QED BY <1>k, <1>f, <2>1, <2>2, <3>1 DEF RowTurns
  <2>3. CASE Refused(a)
    <3>1. MarkDropped(c)
      BY <2>1, <2>3 DEF Refused
    <3> QED BY <1>d, <2>1, <2>3, <3>1 DEF RowTurns
  <2>4. CASE Discarded(a)
    <3>1. MarkDropping(c, FALSE)
      BY <2>1, <2>4 DEF Discarded
    <3>2. copy'[c] = copy[c] \/ (copy[c].status # "dropped" /\ Becomes(c, "dropping"))
      BY <1>g, <3>1 DEF Becomes
    <3> QED BY <1>k, <2>1, <2>4, <3>2 DEF RowTurns
  <2>5. CASE DropMarked(a)
    <3>1. MarkDropping(c, TRUE)
      BY <2>1, <2>5 DEF DropMarked
    <3>2. \/ copy'[c] = copy[c]
          \/ /\ copy[c].status # "dropped" /\ copy'[c].status = "dropping"
             /\ copy'[c].attempts = copy[c].attempts + 1 /\ ~copy'[c].stale
      BY <1>g, <3>1
    <3> QED BY <1>k, <2>1, <2>5, <3>2 DEF RowTurns
  <2> QED BY <2>1, <2>2, <2>3, <2>4, <2>5
<1>6. CASE \E e \in effects : job[e.job].of = c /\ (CopyReady(e) \/ CopyFailed(e) \/ CopyDropped(e))
  <2>1. PICK e \in effects : job[e.job].of = c /\ (CopyReady(e) \/ CopyFailed(e) \/ CopyDropped(e))
    BY <1>6
  <2>2. CASE CopyReady(e)
    <3>1. MarkReady(c)
      BY <2>1, <2>2 DEF CopyReady
    <3> QED BY <1>k, <1>r, <2>1, <2>2, <3>1 DEF RowTurns
  <2>3. CASE CopyFailed(e)
    <3>1. MarkFailed(c)
      BY <2>1, <2>3 DEF CopyFailed
    <3> QED BY <1>k, <1>f, <2>1, <2>3, <3>1 DEF RowTurns
  <2>4. CASE CopyDropped(e)
    <3>1. (e.ok /\ MarkDropped(c)) \/ UNCHANGED copy
      BY <2>1, <2>4 DEF CopyDropped
    <3> QED BY <1>k, <1>d, <2>1, <2>4, <3>1 DEF RowTurns
  <2> QED BY <2>1, <2>2, <2>3, <2>4
<1> QED BY <1>k, <1>1, <1>2, <1>3, <1>4, <1>5, <1>6 DEF RowsMove, RowBy

---------------------------------------------------------------------------
(* All of the above, of every step *)

CopyMoves ==
  /\ AskedMoves /\ AskedLeaves /\ ExpireMoves /\ ScratchMoves /\ HalfMoves /\ GoodHandsMove /\ LoadedMoves
  /\ EffectsLeave /\ ExpiringWaits /\ JobsBefore /\ EffectsComeOnce
  /\ \A c \in Subjects : RowTurns(c)

Around == CopiesInv /\ EngineOrder /\ OldIsClaimed /\ CopyTypes

LEMMA NextTypes ==
  ASSUME CopiesInv, CopyTypes, [CopyNext]_copyVars, AskedMoves, ScratchMoves, HalfMoves, LoadedMoves
  PROVE  CopyTypes'
<1>t. effects \subseteq Effect /\ Nothing \notin Executors /\ expire \in [Replicas -> SUBSET Subjects]
      /\ CopiesInv'
  BY NextCopies, OperationAssumption DEF CopiesInv, EngineInv, OpsInv, OpsTypeOK, OperationAssumption
<1>1. asked' \subseteq Statement
  <2>1. ASSUME NEW a \in asked', a \notin asked PROVE a \in Statement
    <3>1. a.of \in Subjects
      BY <1>t, <2>1 DEF CopiesInv, AllOpened
    <3>2. CASE a = Step("open", a.of, Nothing) \/ a = Step("refuse", a.of, Nothing) \/ a = Step("discard", a.of, Nothing)
      BY <3>1, <3>2 DEF Step, Statement
    <3>3. CASE a = Step("droppingJob", a.of, a.by) /\ \E j \in Jobs : Drops(a.of, j, a.by)
      <4>1. a.by \in Executors \cup {Nothing}
        BY <1>t, <3>3 DEF Drops, Effect, Executors
      <4> QED BY <3>1, <3>3, <4>1 DEF Step, Statement
    <3> QED BY <2>1, <3>2, <3>3 DEF AskedMoves
  <2> QED BY <2>1 DEF CopyTypes
<1>2. half' \subseteq Jobs
  BY <1>t DEF HalfMoves, CopyTypes, Effect
<1> QED BY <1>1, <1>2 DEF CopyTypes, ScratchMoves, LoadedMoves

LEMMA NextCopyMoves ==
  Around /\ [CopyNext]_copyVars => Around' /\ CopyMoves /\ ClaimsMove /\ EngineMoves /\ JobsMove
                                   /\ [OpsNext]_opsVars /\ UNCHANGED hostedOn
<1> SUFFICES ASSUME Around, [CopyNext]_copyVars
             PROVE  Around' /\ CopyMoves /\ ClaimsMove /\ EngineMoves /\ JobsMove
                    /\ [OpsNext]_opsVars /\ UNCHANGED hostedOn
  OBVIOUS
<1>1. CopiesInv /\ EngineOrder /\ OldIsClaimed /\ CopyTypes /\ EngineInv /\ OpsInv
  BY DEF Around, CopiesInv, EngineInv
<1>2. [OpsNext]_opsVars /\ CopiesInv' /\ UNCHANGED hostedOn
  BY <1>1, NextMaps, NextCopies, NextMoves DEF Points
<1>3. EngineOrder' /\ EngineMoves /\ ClaimsMove /\ OldIsClaimed' /\ JobsMove /\ EffectsComeOnce
  BY <1>1, <1>2, NextEngineMoves, NextClaims, NextOps, NextEffects
<1>4. AskedMoves /\ AskedLeaves /\ ExpireMoves /\ ScratchMoves /\ HalfMoves /\ GoodHandsMove /\ LoadedMoves
  BY <1>1, NextAsked, NextExpire, NextScratch, NextHands
<1>5. EffectsLeave /\ ExpiringWaits /\ JobsBefore /\ \A c \in Subjects : RowTurns(c)
  BY <1>1, NextLeaves, NextWaits, NextJobs, NextRows, NextTurns
<1>6. CopyTypes'
  BY <1>1, <1>4, NextTypes
<1> QED BY <1>1, <1>2, <1>3, <1>4, <1>5, <1>6 DEF Around, CopyMoves

---------------------------------------------------------------------------
(* In which order a copy is opened, restored and dropped *)

Opening(c) == Step("open", c, Nothing) \in asked

NotRestored(c) == ~Opening(c) /\ \A j \in Jobs : ~JobOf(j, "restore", c)

NotDropped(c) ==
  /\ \A j \in Jobs : ~JobOf(j, "drop", c)
  /\ \A a \in asked : ~(a.do = "droppingJob" /\ a.of = c)
  /\ \A r \in Replicas : c \notin expire[r]

RequestsAreUsers == \A a \in asked : a.do # "droppingJob" => a.by = Nothing

\* Nothing drops a copy as long as it is restoring.
DroppedLater == \A c \in Subjects : copy[c].status \in {"none", "restoring"} => NotDropped(c)

HalfDone == \A j \in half : job[j].kind = "restore" /\ \E e \in effects : e.job = j

FailedIsPast == \A e \in effects : e.job \in half /\ ~e.ok => copy[job[e.job].of].status \in Past

\* A copy whose restore is still to be created may have been discarded, and
\* nothing more.
OpeningIsFirst ==
  \A c \in Subjects : Opening(c) =>
    /\ copy[c].status \in {"restoring", "dropping"} /\ ~copy[c].stale
    /\ NotDropped(c) /\ \A j \in Jobs : ~JobOf(j, "restore", c)

RefusedIsNotRestored == \A a \in asked : a.do = "refuse" => NotRestored(a.of)

OneRestore ==
  \A c \in Subjects : \A i, j \in Jobs : JobOf(i, "restore", c) /\ JobOf(j, "restore", c) => i = j

RestoredFirst ==
  \A c \in Subjects : \A i, j \in Jobs : JobOf(i, "restore", c) /\ JobOf(j, "drop", c) => i < j

\* Who fills a database executes a restore.
LoadedRestores == \A x \in loaded : hand[x].step = "executing" /\ job[hand[x].job].kind = "restore"

OrderInv ==
  /\ LoadedRestores
  /\ RequestsAreUsers /\ DroppedLater /\ HalfDone /\ FailedIsPast
  /\ OpeningIsFirst /\ RefusedIsNotRestored /\ OneRestore /\ RestoredFirst

LEMMA Statements ==
  ASSUME CopyTypes, NEW a \in asked
  PROVE  a \in Statement /\ a = Step(a.do, a.of, a.by) /\ a.of \in Subjects
BY DEF CopyTypes, Statement, Step

LEMMA MadeJobs ==
  ASSUME JobsBefore, NEW j \in Jobs, NEW c
  PROVE  /\ JobOf(j, "restore", c) => JobOf(j, "restore", c)' /\ job[j].status # "none"
         /\ JobOf(j, "drop", c) => JobOf(j, "drop", c)' /\ job[j].status # "none"
         /\ JobOf(j, "restore", c)' =>
              JobOf(j, "restore", c) \/ (Made(j) /\ \E a \in asked : a.of = c /\ OpenJob(a, j))
         /\ JobOf(j, "drop", c)' =>
              JobOf(j, "drop", c) \/ (Made(j) /\ \E x \in Executors \cup {Nothing} : Drops(c, j, x))
BY CopyKindsAre DEF JobsBefore, JobOf, Made

\* Where a drop may come from: not of a copy that is restoring.
LEMMA DropsOf ==
  ASSUME Around, OrderInv, NEW c \in Subjects, NEW j \in Jobs, NEW x, Drops(c, j, x)
  PROVE  /\ copy[c].status \notin {"none", "restoring"} /\ ~Opening(c)
         /\ UNCHANGED <<copy, expire, hand, scratch>>
         /\ asked' = asked \cup {Step("droppingJob", c, x)}
<1>t. effects \subseteq Effect
  BY DEF Around, CopiesInv, EngineInv, OpsInv, OpsTypeOK
<1>1. /\ UNCHANGED <<copy, expire, hand, scratch>>
      /\ asked' = asked \cup {Step("droppingJob", c, x)}
  BY DEF Drops, DiscardNow, ExpireCopy, DropRestored, DropJob
<1>2. CASE DiscardNow(c, j)
  BY <1>1, <1>2 DEF DiscardNow, OrderInv, OpeningIsFirst
<1>3. CASE x \in Replicas /\ ExpireCopy(x, c, j)
  <2>1. c \in expire[x] /\ ~NotDropped(c)
    BY <1>3 DEF ExpireCopy, NotDropped
  <2> QED BY <1>1, <2>1 DEF OrderInv, OpeningIsFirst, DroppedLater
<1>4. CASE \E e \in effects : e.by = x /\ job[e.job].of = c /\ DropRestored(e, j)
  <2>1. PICK e \in effects : job[e.job].of = c /\ DropRestored(e, j)
    BY <1>4
  <2>2. e.job \in Jobs /\ JobOf(e.job, "restore", c)
    BY <1>t, <2>1 DEF DropRestored, JobOf, Effect
  <2>3. ~Opening(c)
    BY <2>2 DEF OrderInv, OpeningIsFirst
  <2>4. copy[c].status = "dropping" \/ copy[c].status \in Past
    BY <2>1 DEF DropRestored, OrderInv, FailedIsPast
  <2> QED BY <1>1, <2>3, <2>4 DEF Past
<1> QED BY <1>2, <1>3, <1>4 DEF Drops

LEMMA OrderOfDrops ==
  ASSUME Around, OrderInv, CopyMoves, NEW c \in Subjects, NotDropped(c), ~NotDropped(c)'
  PROVE  \/ \E j \in Jobs, x \in Executors \cup {Nothing} : Drops(c, j, x)
         \/ Due(c) /\ UNCHANGED copy
<1>1. CASE \E j \in Jobs : JobOf(j, "drop", c)'
  BY <1>1, MadeJobs DEF NotDropped, CopyMoves
<1>2. CASE \E a \in asked' : a.do = "droppingJob" /\ a.of = c
  <2>1. PICK a \in asked' : a.do = "droppingJob" /\ a.of = c
    BY <1>2
  <2>2. a \notin asked
    BY <2>1 DEF NotDropped
  <2>3. \E j \in Jobs : Drops(c, j, a.by)
    <3>1. /\ \A d, x : Step("open", d, x).do # "droppingJob"
          /\ \A d, x : Step("refuse", d, x).do # "droppingJob"
          /\ \A d, x : Step("discard", d, x).do # "droppingJob"
      BY DEF Step
    <3> QED BY <2>1, <2>2, <3>1 DEF CopyMoves, AskedMoves
  <2>4. \A j, x : Drops(c, j, x) => x \in Executors \cup {Nothing}
    <3>1. effects \subseteq Effect
      BY DEF Around, CopiesInv, EngineInv, OpsInv, OpsTypeOK
    <3> QED BY <3>1 DEF Drops, Effect, Executors
  <2> QED BY <2>3, <2>4
<1>3. CASE \E r \in Replicas : c \in expire'[r]
  <2>1. PICK r \in Replicas : c \in expire'[r] /\ c \notin expire[r]
    BY <1>3 DEF NotDropped
  <2>2. ListDue(r) /\ Due(c)
    BY <2>1 DEF CopyMoves, ExpireMoves
  <2> QED BY <2>2 DEF ListDue
<1> QED BY <1>1, <1>2, <1>3 DEF NotDropped, JobOf

LEMMA NextRequests == Around /\ OrderInv /\ CopyMoves => RequestsAreUsers'
<1> SUFFICES ASSUME Around, OrderInv, CopyMoves, NEW a \in asked', a.do # "droppingJob" PROVE a.by = Nothing
  BY DEF RequestsAreUsers
<1>1. CASE a \in asked
  BY <1>1 DEF OrderInv, RequestsAreUsers
<1>2. CASE a \notin asked
  <2>1. a = Step(a.do, a.of, Nothing) \/ a = Step("droppingJob", a.of, a.by)
    BY <1>2, StepFields DEF CopyMoves, AskedMoves
  <2> QED BY <2>1, StepFields
<1> QED BY <1>1, <1>2

LEMMA NextDroppedLater == Around /\ OrderInv /\ CopyMoves => DroppedLater'
<1> SUFFICES ASSUME Around, OrderInv, CopyMoves, NEW c \in Subjects, copy'[c].status \in {"none", "restoring"}, ~NotDropped(c)'
             PROVE  FALSE
  BY DEF DroppedLater
<1>1. copy[c].status \in {"none", "restoring"}
  <2>1. RowTurns(c)
    BY DEF CopyMoves
  <2> QED BY <2>1 DEF RowTurns, Becomes
<1>2. NotDropped(c)
  BY <1>1 DEF OrderInv, DroppedLater
<1>3. ~Due(c)
  BY <1>1 DEF Due
<1>4. \A j \in Jobs : \A x : ~Drops(c, j, x)
  BY <1>1, DropsOf
<1> QED BY <1>2, <1>3, <1>4, OrderOfDrops

LEMMA NextHalf == Around /\ Around' /\ OrderInv /\ CopyMoves /\ JobsMove => HalfDone' /\ FailedIsPast'
<1> SUFFICES ASSUME Around, Around', OrderInv, CopyMoves, JobsMove PROVE HalfDone' /\ FailedIsPast'
  OBVIOUS
<1>t. /\ effects \subseteq Effect /\ EffectsAgree /\ EffectsAgree' /\ half \subseteq Jobs
      /\ effects' \subseteq Effect
  BY DEF Around, CopiesInv, EngineInv, OpsInv, OpsTypeOK, CopyTypes
<1>s. \A j \in Jobs : job[j].kind = "restore" => job'[j].kind = "restore" /\ job'[j].of = job[j].of
  BY CopyKindsAre DEF CopyMoves, JobsBefore
<1>1. ASSUME NEW j \in half' PROVE job'[j].kind = "restore" /\ \E e \in effects' : e.job = j
  <2>1. CASE j \notin half
    <3>1. PICK e \in effects : e.job = j /\ (CopyRestored(e) \/ CopyFailed(e))
      BY <1>1, <2>1 DEF CopyMoves, HalfMoves
    <3>2. job[j].kind = "restore" /\ effects' = effects /\ j \in Jobs
      BY <1>t, <3>1 DEF CopyRestored, CopyFailed, opsVars, Effect
    <3> QED BY <1>s, <3>1, <3>2
  <2>2. CASE j \in half
    <3>1. PICK e \in effects : e.job = j /\ job[j].kind = "restore"
      BY <2>2 DEF OrderInv, HalfDone
    <3>2. CASE e \notin effects'
      <4>1. CASE ApplyEffect(e)
        <5>1. CASE CopyReady(e) \/ \E i \in Jobs : DropRestored(e, i)
          BY <1>1, <3>1, <5>1 DEF CopyReady, DropRestored
        <5>2. CASE CopyRestored(e) \/ CopyFailed(e)
          BY <3>2, <5>2 DEF CopyRestored, CopyFailed, opsVars
        <5>3. CASE CopyDropped(e)
          BY <3>1, <5>3 DEF CopyDropped
        <5> QED BY <4>1, <5>1, <5>2, <5>3 DEF ApplyEffect
      <4>2. CASE Dies(e.by)
        <5>1. PICK f \in effects : f.job = j /\ f.by # e.by
          BY <1>1, <4>2 DEF Dies
        <5>2. f = e
          BY <1>t, <3>1, <5>1 DEF EffectsAgree
        <5> QED BY <5>1, <5>2
      <4> QED BY <3>2, <4>1, <4>2 DEF CopyMoves, EffectsLeave
    <3> QED BY <1>s, <1>t, <2>2, <3>1, <3>2
  <2> QED BY <2>1, <2>2
<1>2. ASSUME NEW e \in effects', e.job \in half', ~e.ok PROVE copy'[job'[e.job].of].status \in Past
  <2>1. e.job \in Jobs /\ e \in effects
    <3>1. CASE e.job \in half
      <4>1. PICK f \in effects : f.job = e.job
        BY <3>1 DEF OrderInv, HalfDone
      <4>2. job[e.job].status \in Final
        BY <1>t, <4>1 DEF EffectsAgree, Final
      <4>3. e \in effects
        BY <1>2, <4>2 DEF CopyMoves, EffectsComeOnce, Open, Final
      <4> QED BY <1>t, <4>3 DEF Effect
    <3>2. CASE e.job \notin half
      <4>1. PICK f \in effects : f.job = e.job /\ (CopyRestored(f) \/ CopyFailed(f))
        BY <1>2, <3>2 DEF CopyMoves, HalfMoves
      <4>2. effects' = effects
        BY <4>1 DEF CopyRestored, CopyFailed, opsVars
      <4> QED BY <1>t, <1>2, <4>2 DEF Effect
    <3> QED BY <3>1, <3>2
  <2> DEFINE c == job[e.job].of
  <2>2. job[e.job].kind = "restore"
    <3>1. CASE e.job \in half
      BY <3>1 DEF OrderInv, HalfDone
    <3>2. CASE e.job \notin half
      BY <1>2, <3>2 DEF CopyMoves, HalfMoves, CopyRestored, CopyFailed
    <3> QED BY <3>1, <3>2
  <2>3. job'[e.job].of = c /\ c \in Subjects /\ Opened(c)
    BY <1>s, <2>1, <2>2, CopyKindsAre DEF Around, CopiesInv, AllOpened
  <2>4. RowTurns(c)
    BY <2>3 DEF CopyMoves
  <2>5. CASE copy[c].status \in Past
    BY <2>3, <2>4, <2>5 DEF RowTurns, Becomes, Past, Live
  <2>6. CASE copy[c].status \notin Past
    <3>1. e.job \notin half
      BY <1>2, <2>1, <2>6 DEF OrderInv, FailedIsPast
    <3>2. PICK f \in effects : f.job = e.job /\ (CopyRestored(f) \/ CopyFailed(f))
      BY <1>2, <3>1 DEF CopyMoves, HalfMoves
    <3>3. f = e
      BY <1>t, <2>1, <3>2 DEF EffectsAgree
    <3>4. MarkFailed(c)
      BY <1>2, <3>2, <3>3 DEF CopyRestored, CopyFailed
    <3>5. Live(c)
      BY <2>3, <2>6 DEF Live, Opened, Past, Around, CopiesInv, CopyRow
    <3>6. copy'[c].status = "failed"
      <4>1. copy \in [Subjects -> CopyRow] /\ [copy[c] EXCEPT !.status = "failed"] \in CopyRow
            /\ [copy[c] EXCEPT !.status = "failed"].status = "failed"
        <5>1. copy \in [Subjects -> CopyRow] /\ copy[c] \in CopyRow
          BY <2>3 DEF Around, CopiesInv
        <5> HIDE DEF c
        <5> QED BY <5>1 DEF CopyRow
      <4> QED BY <2>3, <3>4, <3>5, <4>1, Touching DEF MarkFailed
    <3> QED BY <2>3, <3>6 DEF Past
  <2> QED BY <2>5, <2>6
<1> QED BY <1>1, <1>2 DEF HalfDone, FailedIsPast

LEMMA Inserted ==
  ASSUME CopiesInv, NEW c \in Subjects, OpenCopy(c)
  PROVE  copy[c].status = "none" /\ copy'[c].status = "restoring" /\ copy'[c].attempts = 0 /\ ~copy'[c].stale
<1> DEFINE row == [NotOpened EXCEPT !.status = "restoring"]
<1>1. row \in CopyRow /\ row.status = "restoring" /\ row.attempts = 0
  <2>1. 0 \in 0 .. Lives
    BY CopyAssumption DEF CopyAssumption
  <2> QED BY <2>1 DEF NotOpened, CopyRow
<1>2. Touched(c, row) /\ copy[c].status = "none"
  BY DEF OpenCopy, InsertCopy
<1> HIDE DEF row
<1> QED BY <1>1, <1>2, Written DEF CopiesInv

\* The statement that creates the restore, or refuses it, is the only one.
LEMMA OpenStatement ==
  ASSUME CopyTypes, RequestsAreUsers, NEW a \in asked, a.do = "open"
  PROVE  a = Step("open", a.of, Nothing)
BY Statements DEF RequestsAreUsers

LEMMA NewOpening ==
  ASSUME Around, CopyMoves, NEW c \in Subjects, Opening(c)', ~Opening(c)
  PROVE  OpenCopy(c)
<1>1. /\ \A d, x : Step("refuse", d, x) # Step("open", c, Nothing)
      /\ \A d, x : Step("discard", d, x) # Step("open", c, Nothing)
      /\ \A d, x : Step("droppingJob", d, x) # Step("open", c, Nothing)
      /\ Step("open", c, Nothing).of = c
  BY DEF Step
<1> QED BY <1>1 DEF Opening, CopyMoves, AskedMoves

LEMMA NotOpeningLater ==
  ASSUME CopyTypes, RequestsAreUsers, NEW a \in asked, OpenRefused(a) \/ \E j \in Jobs : OpenJob(a, j)
  PROVE  Opening(a.of) /\ ~Opening(a.of)'
<1>1. a = Step("open", a.of, Nothing)
  BY OpenStatement DEF OpenRefused, OpenJob
<1>2. Step("refuse", a.of, Nothing) # Step("open", a.of, Nothing)
  BY DEF Step
<1>3. asked' \subseteq (asked \ {a}) \cup {Step("refuse", a.of, Nothing)}
  BY DEF OpenRefused, OpenJob
<1> QED BY <1>1, <1>2, <1>3 DEF Opening

LEMMA NextOpening == Around /\ OrderInv /\ CopyMoves => OpeningIsFirst'
<1> SUFFICES ASSUME Around, OrderInv, CopyMoves, NEW c \in Subjects, Opening(c)'
             PROVE  /\ copy'[c].status \in {"restoring", "dropping"} /\ ~copy'[c].stale
                    /\ NotDropped(c)' /\ \A j \in Jobs : ~JobOf(j, "restore", c)'
  BY DEF OpeningIsFirst
<1>t. CopiesInv /\ CopyTypes /\ RequestsAreUsers /\ effects \subseteq Effect
  BY DEF Around, OrderInv, CopiesInv, EngineInv, OpsInv, OpsTypeOK
<1>1. CASE ~Opening(c)
  <2>1. OpenCopy(c)
    BY <1>1, <1>t, NewOpening
  <2>2. copy[c].status = "none" /\ copy'[c].status = "restoring" /\ ~copy'[c].stale
    BY <1>t, <2>1, Inserted
  <2>3. NotDropped(c) /\ \A j \in Jobs : ~JobOf(j, "restore", c)
    <3>1. \A j \in Jobs : ~JobOf(j, "restore", c)
      BY <1>t, <2>2, CopyKindsAre DEF CopiesInv, AllOpened, Opened, JobOf
    <3> QED BY <2>2, <3>1 DEF OrderInv, DroppedLater
  <2>4. UNCHANGED <<job, expire>> /\ asked' = asked \cup {Step("open", c, Nothing)}
    BY <2>1 DEF OpenCopy, opsVars
  <2>5. NotDropped(c)' /\ \A j \in Jobs : ~JobOf(j, "restore", c)'
    BY <2>3, <2>4, StepFields DEF NotDropped, JobOf
  <2> QED BY <2>2, <2>5
<1>2. CASE Opening(c)
  <2>1. /\ copy[c].status \in {"restoring", "dropping"} /\ ~copy[c].stale
        /\ NotDropped(c) /\ \A j \in Jobs : ~JobOf(j, "restore", c)
    BY <1>2 DEF OrderInv, OpeningIsFirst
  <2>2. ~Stalls(c)
    <3>1. Step("open", c, Nothing) \in asked
      BY <1>2 DEF Opening
    <3> QED BY <3>1, StepFields DEF Stalls
  <2>3. ~(\E a \in asked : a.of = c /\ (OpenRefused(a) \/ Refused(a) \/ DropMarked(a) \/ \E j \in Jobs : OpenJob(a, j)))
    <3>1. ASSUME NEW a \in asked, a.of = c, Refused(a) \/ DropMarked(a) PROVE FALSE
      BY <1>2, <2>1, <3>1 DEF Refused, DropMarked, NotDropped, OrderInv, RefusedIsNotRestored, NotRestored
    <3>2. ASSUME NEW a \in asked, a.of = c, OpenRefused(a) \/ \E j \in Jobs : OpenJob(a, j) PROVE FALSE
      BY <1>t, <3>2, NotOpeningLater
    <3> QED BY <3>1, <3>2
  <2>4. ~(\E e \in effects : job[e.job].of = c /\ (CopyReady(e) \/ CopyFailed(e) \/ CopyDropped(e)))
    <3>1. ASSUME NEW e \in effects, job[e.job].of = c PROVE job[e.job].kind \notin {"restore", "drop"}
      BY <1>t, <2>1, <3>1 DEF NotDropped, JobOf, Effect
    <3> QED BY <3>1 DEF CopyReady, CopyFailed, CopyDropped, OrderInv, HalfDone
  <2>5. copy'[c].status \in {"restoring", "dropping"} /\ ~copy'[c].stale
    <3>1. RowTurns(c)
      BY DEF CopyMoves
    <3> QED BY <2>1, <2>2, <2>3, <2>4, <3>1 DEF RowTurns, Becomes
  <2>6. NotDropped(c)'
    <3>1. ~Due(c)
      BY <2>1 DEF Due
    <3>2. \A j \in Jobs : \A x : ~Drops(c, j, x)
      BY <1>2, DropsOf
    <3> QED BY <2>1, <3>1, <3>2, OrderOfDrops
  <2>7. \A j \in Jobs : ~JobOf(j, "restore", c)'
    BY <2>1, <2>3, MadeJobs DEF CopyMoves
  <2> QED BY <2>5, <2>6, <2>7
<1> QED BY <1>1, <1>2

\* Once no restore is to come of a copy that was opened, none comes.
LEMMA NotRestoredStays ==
  ASSUME Around, OrderInv, CopyMoves, NEW c \in Subjects, Opened(c), NotRestored(c)
  PROVE  NotRestored(c)'
<1>t. CopiesInv /\ CopyTypes /\ RequestsAreUsers
  BY DEF Around, OrderInv
<1>1. ~Opening(c)'
  BY <1>t, NewOpening, Inserted DEF NotRestored, Opened
<1>2. ASSUME NEW j \in Jobs, JobOf(j, "restore", c)' PROVE FALSE
  <2>1. PICK a \in asked : a.of = c /\ OpenJob(a, j)
    BY <1>2, MadeJobs DEF CopyMoves, NotRestored
  <2>2. Opening(c)
    BY <1>t, <2>1, NotOpeningLater
  <2> QED BY <2>2 DEF NotRestored
<1> QED BY <1>1, <1>2 DEF NotRestored

LEMMA NextRefused == Around /\ OrderInv /\ CopyMoves => RefusedIsNotRestored'
<1> SUFFICES ASSUME Around, OrderInv, CopyMoves, NEW a \in asked', a.do = "refuse" PROVE NotRestored(a.of)'
  BY DEF RefusedIsNotRestored
<1>t. CopiesInv /\ CopyTypes /\ RequestsAreUsers
  BY DEF Around, OrderInv
<1>1. CASE a \in asked
  <2>1. NotRestored(a.of) /\ Opened(a.of) /\ a.of \in Subjects
    BY <1>1, <1>t DEF OrderInv, RefusedIsNotRestored, CopiesInv, AllOpened
  <2> QED BY <2>1, NotRestoredStays
<1>2. CASE a \notin asked
  <2>1. PICK b \in asked : b.of = a.of /\ OpenRefused(b)
    <3>1. /\ \A d, x : Step("open", d, x).do # "refuse"
          /\ \A d, x : Step("discard", d, x).do # "refuse"
          /\ \A d, x : Step("droppingJob", d, x).do # "refuse"
      BY DEF Step
    <3> QED BY <1>2, <3>1 DEF CopyMoves, AskedMoves
  <2>2. Opening(a.of) /\ ~Opening(a.of)' /\ a.of \in Subjects
    BY <1>t, <2>1, NotOpeningLater, Statements
  <2>3. \A j \in Jobs : ~JobOf(j, "restore", a.of)
    BY <2>2 DEF OrderInv, OpeningIsFirst
  <2>4. job' = job
    BY <2>1 DEF OpenRefused, opsVars
  <2> QED BY <2>2, <2>3, <2>4 DEF NotRestored, JobOf
<1> QED BY <1>1, <1>2

LEMMA NextRestores == Around /\ OrderInv /\ CopyMoves => OneRestore' /\ RestoredFirst'
<1> SUFFICES ASSUME Around, OrderInv, CopyMoves PROVE OneRestore' /\ RestoredFirst'
  OBVIOUS
<1>t. CopiesInv /\ CopyTypes /\ RequestsAreUsers /\ JobsBefore /\ Jobs \subseteq Nat
  BY OperationAssumption DEF OperationAssumption, Around, OrderInv, CopyMoves
<1>1. ASSUME NEW c \in Subjects, NEW j \in Jobs, JobOf(j, "restore", c)', ~JobOf(j, "restore", c)
      PROVE  NotDropped(c) /\ Made(j) /\ \A i \in Jobs : ~JobOf(i, "restore", c)
  <2>1. PICK a \in asked : a.of = c /\ OpenJob(a, j) /\ Made(j)
    BY <1>1, <1>t, MadeJobs
  <2>2. Opening(c)
    BY <1>t, <2>1, NotOpeningLater
  <2> QED BY <2>1, <2>2 DEF OrderInv, OpeningIsFirst
<1>2. ASSUME NEW c \in Subjects, NEW i \in Jobs, NEW j \in Jobs, JobOf(i, "restore", c)', JobOf(j, "restore", c)'
      PROVE  i = j
  <2>1. CASE ~JobOf(j, "restore", c)
    BY <1>1, <1>2, <2>1 DEF Made, JobOf
  <2>2. CASE ~JobOf(i, "restore", c)
    BY <1>1, <1>2, <2>2 DEF Made, JobOf
  <2>3. CASE JobOf(i, "restore", c) /\ JobOf(j, "restore", c)
    BY <2>3 DEF OrderInv, OneRestore
  <2> QED BY <2>1, <2>2, <2>3
<1>3. ASSUME NEW c \in Subjects, NEW i \in Jobs, NEW j \in Jobs, JobOf(i, "restore", c)', JobOf(j, "drop", c)'
      PROVE  i < j
  <2>1. i # j
    BY <1>3 DEF JobOf
  <2>2. CASE ~JobOf(i, "restore", c)
    <3>1. NotDropped(c) /\ Made(i)
      BY <1>1, <1>3, <2>2
    <3>2. JobOf(j, "drop", c)
      BY <1>3, <2>1, <3>1 DEF Made, JobOf
    <3> QED BY <3>1, <3>2 DEF NotDropped
  <2>3. CASE JobOf(i, "restore", c) /\ ~JobOf(j, "drop", c)
    <3>1. Made(j)
      BY <1>3, <1>t, <2>3, MadeJobs
    <3>2. job[i].status # "none" /\ job[j].status = "none"
      BY <1>t, <2>3, <3>1, MadeJobs DEF Made
    <3>3. ~(j < i)
      BY <3>2 DEF Around, EngineOrder, JobsInOrder
    <3> QED BY <1>t, <2>1, <3>3
  <2>4. CASE JobOf(i, "restore", c) /\ JobOf(j, "drop", c)
    BY <2>4 DEF OrderInv, RestoredFirst
  <2> QED BY <2>2, <2>3, <2>4
<1> QED BY <1>2, <1>3 DEF OneRestore, RestoredFirst

LEMMA NextLoaded == Around /\ OrderInv /\ CopyMoves => LoadedRestores'
<1> SUFFICES ASSUME Around, OrderInv, CopyMoves, NEW x \in loaded'
             PROVE  hand'[x].step = "executing" /\ job'[hand'[x].job].kind = "restore"
  BY DEF LoadedRestores
<1>1. CASE CreateScratch(x)
  BY <1>1 DEF CreateScratch, Doing, opsVars
<1>2. CASE x \in loaded
  <2>1. hand[x].step = "executing" /\ job[hand[x].job].kind = "restore" /\ x \in Executors
    BY <1>2 DEF OrderInv, LoadedRestores, Around, CopyTypes
  <2>2. hand'[x] = hand[x] \/ CreateScratch(x)
    BY <2>1 DEF CopyMoves, LoadedMoves, DropScratch, Doing
  <2>3. hand[x].job \in Jobs
    BY <2>1 DEF Around, CopiesInv, EngineInv, OpsInv, HeldIsClaimed
  <2>4. job'[hand[x].job].kind = "restore"
    BY <2>1, <2>3, CopyKindsAre DEF CopyMoves, JobsBefore
  <2> QED BY <1>1, <2>1, <2>2, <2>4
<1> QED BY <1>1, <1>2 DEF CopyMoves, LoadedMoves

LEMMA NextOrder == Around /\ OrderInv /\ [CopyNext]_copyVars => Around' /\ OrderInv'
BY NextCopyMoves, NextLoaded, NextRequests, NextDroppedLater, NextHalf, NextOpening, NextRefused, NextRestores DEF OrderInv

---------------------------------------------------------------------------
(* A dropped copy has left no database *)

Hosted == \A j \in Jobs : job[j].status # "none" => job[j].server = hostedOn

Serves(x) == IF x \in Agents THEN hostedOn = x ELSE hostedOn = Nothing

HeldIsServed == \A x \in Executors : hand[x].step # "idle" => Serves(x)

\* The jobs of the instance are claimed in the order they were created in.
ClaimedInOrder == \A i, j \in Jobs : i < j /\ Claimed(j) => job[i].status # "pending"

HeldIsLast ==
  OneServes => \A x \in Executors : hand[x].step # "idle" => \A i \in Jobs : i > hand[x].job => ~Claimed(i)

\* A drop is executed after the restore, and nothing restores after it.
DropsRemove ==
  OneServes => \A c \in Subjects : \A j \in Jobs :
    JobOf(j, "drop", c) /\ (job[j].status = "succeeded" \/ ReportedGood(j)) => scratch[c] = "absent"

ThereIsRestored == \A c \in Subjects : scratch[c] = "present" => \E j \in Jobs : JobOf(j, "restore", c)

DroppedIsDone ==
  \A c \in Subjects : copy[c].status = "dropped" =>
    NotRestored(c) \/ \E j \in Jobs : JobOf(j, "drop", c) /\ job[j].status = "succeeded"

GoneInv ==
  /\ Hosted /\ HeldIsServed /\ ClaimedInOrder /\ HeldIsLast
  /\ DropsRemove /\ ThereIsRestored /\ DroppedIsDone

LEMMA NextHosted ==
  Around /\ GoneInv /\ CopyMoves /\ ClaimsMove /\ UNCHANGED hostedOn => Hosted' /\ HeldIsServed'
<1> SUFFICES ASSUME Around, GoneInv, CopyMoves, ClaimsMove, UNCHANGED hostedOn PROVE Hosted' /\ HeldIsServed'
  OBVIOUS
<1>1. Hosted'
  BY DEF CopyMoves, JobsBefore, Made, GoneInv, Hosted
<1>2. ASSUME NEW x \in Executors, hand'[x].step # "idle" PROVE Serves(x)'
  <2>1. CASE hand[x].step # "idle"
    BY <2>1 DEF GoneInv, HeldIsServed, Serves
  <2>2. CASE hand[x].step = "idle"
    <3>1. PICK j \in Jobs : ClaimNext(x, j)
      BY <1>2, <2>2 DEF ClaimsMove
    <3>2. job[j].status = "pending" /\ job[j].server = IF x \in Agents THEN x ELSE Nothing
      BY <3>1 DEF ClaimNext, Queue
    <3> QED BY <3>2 DEF GoneInv, Hosted, Serves
  <2> QED BY <2>1, <2>2
<1> QED BY <1>1, <1>2 DEF HeldIsServed

\* A job that is claimed is the first one of the queue, that of the instance.
LEMMA ClaimedNow ==
  ASSUME Around, GoneInv, NEW x \in Executors, NEW j \in Jobs, ClaimNext(x, j)
  PROVE  /\ Serves(x) /\ ~Claimed(j)
         /\ \A i \in Jobs : job[i].status = "pending" => j <= i
         /\ \A i \in Jobs \ {j} : job'[i] = job[i]
<1>1. job[j].status = "pending" /\ job[j].server = IF x \in Agents THEN x ELSE Nothing
  BY DEF ClaimNext, Queue
<1>2. Serves(x)
  BY <1>1 DEF GoneInv, Hosted, Serves
<1>3. \A i \in Jobs : job[i].status = "pending" => i \in Queue(x)
  BY <1>1 DEF GoneInv, Hosted, Queue
<1>4. \A i \in Jobs \ {j} : job'[i] = job[i]
  BY DEF ClaimNext, Around, CopiesInv, EngineInv, OpsInv, OpsTypeOK
<1> QED BY <1>1, <1>2, <1>3, <1>4 DEF ClaimNext, Claimed

LEMMA NextClaimed ==
  Around /\ GoneInv /\ CopyMoves /\ ClaimsMove /\ JobsMove /\ UNCHANGED hostedOn => ClaimedInOrder' /\ HeldIsLast'
<1> SUFFICES ASSUME Around, GoneInv, CopyMoves, ClaimsMove, JobsMove, UNCHANGED hostedOn
             PROVE  ClaimedInOrder' /\ HeldIsLast'
  OBVIOUS
<1>t. Jobs \subseteq Nat /\ Replicas \cap Agents = {} /\ Nothing \notin Executors /\ JobsInOrder /\ HeldIsClaimed
      /\ hostedOn \in Agents \cup {Nothing}
  BY OperationAssumption
     DEF OperationAssumption, Around, EngineOrder, CopiesInv, EngineInv, OpsInv
<1>1. ASSUME NEW i \in Jobs, NEW j \in Jobs, i < j, Claimed(j)', job'[i].status = "pending" PROVE FALSE
  <2>1. ~Claimed(i)
    BY <1>1 DEF JobsMove, Claimed
  <2>2. CASE Claimed(j)
    <3>1. job[i].status # "pending" /\ job[i].status # "none"
      BY <1>1, <1>t, <2>2 DEF GoneInv, ClaimedInOrder, JobsInOrder, Claimed
    <3> QED BY <2>1, <3>1 DEF Claimed
  <2>3. CASE \E x \in Executors : ClaimNext(x, j)
    <3>1. job[i].status = "pending" /\ job[j].status # "none"
      <4>1. i # j
        BY <1>1, <1>t
      <4> QED BY <1>1, <2>3, <4>1, ClaimedNow DEF ClaimNext, Queue
    <3>2. j <= i
      BY <2>3, <3>1, ClaimedNow
    <3> QED BY <1>1, <1>t, <3>2
  <2> QED BY <1>1, <2>2, <2>3 DEF ClaimsMove
<1>2. ASSUME OneServes, NEW x \in Executors, hand'[x].step # "idle", NEW i \in Jobs, i > hand'[x].job, Claimed(i)'
      PROVE  FALSE
  <2>1. CASE hand[x].step # "idle" /\ hand'[x].job = hand[x].job
    <3>1. ~Claimed(i)
      BY <1>2, <2>1 DEF GoneInv, HeldIsLast
    <3>2. PICK y \in Executors : ClaimNext(y, i)
      BY <1>2, <3>1 DEF ClaimsMove
    <3>3. Serves(x) /\ Serves(y) /\ hand[y].step = "idle"
      BY <2>1, <3>2, ClaimedNow DEF GoneInv, HeldIsServed, ClaimNext
    <3>4. x = y
      BY <1>2, <1>t, <3>3 DEF Serves, OneServes, Executors
    <3> QED BY <2>1, <3>3, <3>4
  <2>2. CASE hand[x].step = "idle"
    <3>1. PICK j \in Jobs : ClaimNext(x, j) /\ hand'[x].job = j
      BY <1>2, <2>2 DEF ClaimsMove
    <3>2. Claimed(i)
      <4>1. i # j
        BY <1>2, <1>t, <3>1
      <4>2. job'[i] = job[i]
        BY <3>1, <4>1, ClaimedNow
      <4> QED BY <1>2, <4>2 DEF Claimed
    <3>3. job[j].status = "pending"
      BY <3>1 DEF ClaimNext, Queue
    <3> QED BY <1>2, <1>t, <3>1, <3>2, <3>3 DEF GoneInv, ClaimedInOrder
  <2> QED BY <1>2, <2>1, <2>2 DEF ClaimsMove
<1>3. HeldIsLast'
  <2> SUFFICES ASSUME OneServes', NEW x \in Executors, hand'[x].step # "idle", NEW i \in Jobs, i > hand'[x].job
               PROVE  ~Claimed(i)'
    BY DEF HeldIsLast
  <2>1. OneServes
    BY DEF OneServes
  <2> QED BY <1>2, <2>1
<1> QED BY <1>1, <1>3 DEF ClaimedInOrder

\* Whose good outcome is at hand: of a job that was claimed before.
LEMMA GoodIsClaimed ==
  ASSUME HeldIsClaimed, NEW j, ReportedGood(j)
  PROVE  j \in Jobs /\ Claimed(j)
BY DEF HeldIsClaimed, ReportedGood, Claimed

LEMMA NextRemoved ==
  Around /\ Around' /\ OrderInv /\ GoneInv /\ CopyMoves /\ EngineMoves /\ UNCHANGED hostedOn => DropsRemove' /\ ThereIsRestored'
<1> SUFFICES ASSUME Around, Around', OrderInv, GoneInv, CopyMoves, EngineMoves, UNCHANGED hostedOn
             PROVE  DropsRemove' /\ ThereIsRestored'
  OBVIOUS
<1>t. HeldIsClaimed /\ HeldIsClaimed' /\ JobsBefore /\ ScratchMoves /\ Jobs \subseteq Nat
  BY OperationAssumption DEF OperationAssumption, Around, CopiesInv, EngineInv, OpsInv, CopyMoves
<1>c. ASSUME NEW x \in Executors, CreateScratch(x) PROVE hand[x].step # "idle" /\ hand[x].job \in Jobs /\ JobOf(hand[x].job, "restore", Of(x))
  BY <1>t, <1>c DEF CreateScratch, Doing, Of, JobOf, HeldIsClaimed
<1>1. ASSUME OneServes, NEW c \in Subjects, NEW j \in Jobs, JobOf(j, "drop", c)',
             job'[j].status = "succeeded" \/ ReportedGood(j)'
      PROVE  scratch'[c] = "absent"
  <2>1. Claimed(j)'
    BY <1>1, <1>t, GoodIsClaimed DEF Claimed, HeldIsClaimed, ReportedGood
  <2>2. JobOf(j, "drop", c)
    <3>1. ~Made(j)
      BY <2>1 DEF Made, Claimed
    <3> QED BY <1>1, <1>t, <3>1, MadeJobs
  <2>3. CASE job[j].status = "succeeded" \/ ReportedGood(j)
    <3>1. scratch[c] = "absent"
      BY <1>1, <2>2, <2>3 DEF GoneInv, DropsRemove
    <3>2. ASSUME NEW x \in Executors, CreateScratch(x), Of(x) = c PROVE FALSE
      <4>1. hand[x].step # "idle" /\ hand[x].job \in Jobs /\ JobOf(hand[x].job, "restore", c)
        BY <1>c, <3>2
      <4>2. hand[x].job < j
        BY <2>2, <4>1 DEF OrderInv, RestoredFirst
      <4>3. ~Claimed(j)
        BY <1>1, <1>t, <4>1, <4>2 DEF GoneInv, HeldIsLast
      <4> QED BY <1>t, <2>3, <4>3, GoodIsClaimed DEF Claimed
    <3> QED BY <1>t, <3>1, <3>2 DEF ScratchMoves
  <2>4. CASE ~(job[j].status = "succeeded" \/ ReportedGood(j))
    <3>1. ReportedGood(j)'
      BY <1>1, <2>4 DEF EngineMoves, GoodWasReported
    <3>2. PICK x \in Executors : hand'[x].step = "reporting" /\ hand'[x].job = j /\ hand'[x].ok
      BY <3>1 DEF ReportedGood
    <3>3. hand'[x] # hand[x]
      BY <2>4, <3>2 DEF ReportedGood
    <3>4. Execute(x, TRUE)
      BY <3>2, <3>3 DEF EngineMoves, GoodHandsLast
    <3>5. hand[x].job = j
      <4>1. hand[x] \in Hand /\ hand' = [hand EXCEPT ![x] = [[hand[x] EXCEPT !.step = "reporting"] EXCEPT !.ok = TRUE]]
        BY <3>4 DEF Execute, Around, CopiesInv, EngineInv, OpsInv, OpsTypeOK, Hand
      <4>2. hand'[x].job = hand[x].job
        BY <4>1 DEF Around, CopiesInv, EngineInv, OpsInv, OpsTypeOK, Hand
      <4> QED BY <3>2, <4>2
    <3>6. CASE FillScratch(x)
      <4>1. job[j].kind = "restore"
        BY <3>5, <3>6 DEF FillScratch, OrderInv, LoadedRestores
      <4> QED BY <2>2, <4>1 DEF JobOf
    <3>7. CASE DropScratch(x)
      <4>1. Of(x) = c /\ scratch' = [scratch EXCEPT ![Of(x)] = "absent"]
        BY <2>2, <3>5, <3>7 DEF DropScratch, Of, JobOf
      <4> QED BY <4>1 DEF Around, CopyTypes
    <3> QED BY <3>2, <3>3, <3>6, <3>7 DEF CopyMoves, GoodHandsMove
  <2> QED BY <2>3, <2>4
<1>2. ASSUME NEW c \in Subjects, scratch'[c] = "present" PROVE \E j \in Jobs : JobOf(j, "restore", c)'
  <2>1. CASE scratch[c] = "present"
    BY <1>t, <2>1, MadeJobs DEF GoneInv, ThereIsRestored
  <2>2. CASE \E x \in Executors : CreateScratch(x) /\ Of(x) = c
    <3>1. PICK x \in Executors : CreateScratch(x) /\ Of(x) = c
      BY <2>2
    <3>2. hand[x].job \in Jobs /\ JobOf(hand[x].job, "restore", c)
      BY <1>c, <3>1
    <3> QED BY <1>t, <3>2, MadeJobs
  <2> QED BY <1>2, <1>t, <2>1, <2>2 DEF ScratchMoves
<1>3. DropsRemove'
  <2>1. OneServes' => OneServes
    BY DEF OneServes
  <2> QED BY <1>1, <2>1 DEF DropsRemove
<1> QED BY <1>2, <1>3 DEF ThereIsRestored

LEMMA NextDone == Around /\ OrderInv /\ GoneInv /\ CopyMoves /\ JobsMove => DroppedIsDone'
<1> SUFFICES ASSUME Around, OrderInv, GoneInv, CopyMoves, JobsMove, NEW c \in Subjects, copy'[c].status = "dropped"
             PROVE  NotRestored(c)' \/ \E j \in Jobs : JobOf(j, "drop", c)' /\ job'[j].status = "succeeded"
  BY DEF DroppedIsDone
<1>t. CopiesInv /\ CopyTypes /\ JobsBefore /\ EffectsAgree /\ effects \subseteq Effect /\ RowTurns(c)
  BY DEF Around, CopiesInv, EngineInv, OpsInv, OpsTypeOK, CopyMoves
<1>r. ASSUME NotRestored(c), Opened(c) PROVE NotRestored(c)'
  BY <1>r, NotRestoredStays
<1>d. ASSUME NEW j \in Jobs, JobOf(j, "drop", c), job[j].status = "succeeded"
      PROVE  JobOf(j, "drop", c)' /\ job'[j].status = "succeeded"
  BY <1>d, <1>t, MadeJobs DEF JobsMove, Final
<1>1. CASE copy[c].status = "dropped"
  <2>1. Opened(c)
    BY <1>1 DEF Opened
  <2> QED BY <1>1, <1>d, <1>r, <2>1 DEF GoneInv, DroppedIsDone
<1>2. CASE \E a \in asked : a.of = c /\ Refused(a)
  <2>1. NotRestored(c) /\ Opened(c)
    BY <1>2, <1>t DEF Refused, OrderInv, RefusedIsNotRestored, CopiesInv, AllOpened
  <2> QED BY <1>r, <2>1
<1>3. CASE \E e \in effects : job[e.job].of = c /\ CopyDropped(e) /\ e.ok
  <2>1. PICK e \in effects : job[e.job].of = c /\ CopyDropped(e) /\ e.ok
    BY <1>3
  <2>2. e.job \in Jobs /\ JobOf(e.job, "drop", c) /\ job[e.job].status = "succeeded"
    BY <1>t, <2>1 DEF CopyDropped, JobOf, Effect, EffectsAgree
  <2> QED BY <1>d, <2>2
<1> QED BY <1>1, <1>2, <1>3, <1>t DEF RowTurns, Becomes

LEMMA NextGone == Around /\ OrderInv /\ GoneInv /\ [CopyNext]_copyVars => GoneInv'
BY NextCopyMoves, NextHosted, NextClaimed, NextRemoved, NextDone DEF GoneInv

LEMMA GoneHolds == Around /\ GoneInv => DroppedLeavesNothing
<1> SUFFICES ASSUME Around, GoneInv, OneServes, NEW c \in Subjects, copy[c].status = "dropped", scratch[c] = "present"
             PROVE  FALSE
  BY DEF DroppedLeavesNothing, Around, CopyTypes
<1>1. ~NotRestored(c)
  BY DEF GoneInv, ThereIsRestored, NotRestored
<1>2. PICK j \in Jobs : JobOf(j, "drop", c) /\ job[j].status = "succeeded"
  BY <1>1 DEF GoneInv, DroppedIsDone
<1> QED BY <1>2 DEF GoneInv, DropsRemove

---------------------------------------------------------------------------
(* A copy that is ready has its database *)

RestoredIsThere ==
  \A c \in Subjects : \A j \in Jobs :
    JobOf(j, "restore", c) /\ Good(j) /\ copy[c].status = "restoring" => scratch[c] = "present"

HasDrop(c)  == \E j \in Jobs : JobOf(j, "drop", c)
GoodDrop(c) == \E j \in Jobs : JobOf(j, "drop", c) /\ Good(j)
Dropping(c) == \E a \in asked : a.do = "droppingJob" /\ a.of = c

CleanAtFirst == ~Slow /\ faults = 0 => Clean

\* What drops a copy that is ready has still to mark its row, unless the mark
\* was lost; then nothing was given up before, nor is after.
ReadyIsDropped ==
  \A c \in Subjects : copy[c].status = "ready" =>
    /\ scratch[c] = "present" \/ HasDrop(c)
    /\ faults = 0 /\ HasDrop(c) => Dropping(c)
    /\ faults = 1 /\ ~Slow /\ HasDrop(c) => Dropping(c) \/ Clean
    /\ faults = 0 /\ ~Slow /\ scratch[c] = "absent" => GoodDrop(c)
    /\ faults = 1 /\ ~Slow /\ scratch[c] = "absent" => Dropping(c) \/ GoodDrop(c)

\* Who expires copies does nothing else, and is alone.
Expires ==
  \A r \in Replicas : expire[r] # {} =>
    hand[r].step = "idle" /\ stuck[r] = {} /\ \A e \in effects : e.by # r

ExpiresAlone == \A q, r \in Replicas : expire[q] # {} /\ expire[r] # {} => q = r

\* The statement is that of a pass which has the copy on its list.
Kept(a) == a.by \in Replicas /\ a.of \in expire[a.by]

ReadyIsExpired ==
  \A a \in asked : a.do = "droppingJob" /\ copy[a.of].status = "ready" => a.by = Nothing \/ Kept(a)

ReadyInv == RestoredIsThere /\ CleanAtFirst /\ ReadyIsDropped /\ Expires /\ ExpiresAlone /\ ReadyIsExpired

\* A good outcome comes of an execution that ends now, of a job there is.
LEMMA GoodComes ==
  ASSUME Around, Around', CopyMoves, EngineMoves, NEW j \in Jobs, Good(j)', ~Good(j)
  PROVE  \E x \in Executors :
           /\ hand[x].job = j /\ hand'[x].job = j /\ hand'[x].step = "reporting" /\ hand'[x].ok
           /\ DropScratch(x) \/ (FillScratch(x) /\ scratch[Of(x)] = "present")
<1>t. /\ hand \in [Executors -> Hand] /\ effects \subseteq Effect /\ effects' \subseteq Effect
  BY DEF Around, CopiesInv, EngineInv, OpsInv, OpsTypeOK
<1>1. ReportedGood(j)'
  BY DEF Good, EngineMoves, GoodWasReported
<1>2. PICK x \in Executors : hand'[x].step = "reporting" /\ hand'[x].job = j /\ hand'[x].ok
  BY <1>1 DEF ReportedGood
<1>3. hand'[x] # hand[x]
  BY <1>2 DEF Good, ReportedGood
<1>4. Execute(x, TRUE)
  BY <1>2, <1>3 DEF EngineMoves, GoodHandsLast
<1>5. hand[x].job = j
  <2>1. hand' = [hand EXCEPT ![x] = [[hand[x] EXCEPT !.step = "reporting"] EXCEPT !.ok = TRUE]]
    BY <1>t, <1>4 DEF Execute, Hand
  <2>2. hand'[x].job = hand[x].job
    BY <1>t, <2>1 DEF Hand
  <2> QED BY <1>2, <2>2
<1> QED BY <1>2, <1>3, <1>5 DEF CopyMoves, GoodHandsMove

LEMMA NextThere ==
  Around /\ Around' /\ OrderInv /\ ReadyInv /\ CopyMoves /\ EngineMoves => RestoredIsThere'
<1> SUFFICES ASSUME Around, Around', OrderInv, ReadyInv, CopyMoves, EngineMoves,
                    NEW c \in Subjects, NEW j \in Jobs, JobOf(j, "restore", c)', Good(j)', copy'[c].status = "restoring"
             PROVE  scratch'[c] = "present"
  BY DEF RestoredIsThere
<1>t. CopiesInv /\ JobsBefore /\ ScratchMoves /\ HeldIsClaimed /\ HeldIsClaimed' /\ EffectsAgree' /\ RowTurns(c)
      /\ RequestsAreUsers /\ CopyTypes
  BY DEF Around, CopiesInv, EngineInv, OpsInv, CopyMoves, OrderInv
<1>1. Claimed(j)'
  BY <1>t DEF Good, ReportedGood, HeldIsClaimed, EffectsAgree, Claimed
<1>2. JobOf(j, "restore", c)
  <2>1. ~Made(j)
    BY <1>1 DEF Made, Claimed
  <2> QED BY <1>t, <2>1, MadeJobs
<1>3. copy[c].status = "restoring"
  <2>1. copy[c].status # "none"
    BY <1>2, <1>t, CopyKindsAre DEF CopiesInv, AllOpened, Opened, JobOf
  <2> QED BY <1>t, <2>1 DEF RowTurns, Becomes
<1>4. \A x \in Executors : DropScratch(x) => Of(x) # c
  <2>1. NotDropped(c)
    BY <1>3 DEF OrderInv, DroppedLater
  <2>2. \A x \in Executors : DropScratch(x) => hand[x].job \in Jobs /\ JobOf(hand[x].job, "drop", Of(x))
    BY <1>t DEF DropScratch, Execute, HeldIsClaimed, Doing, Of, JobOf
  <2> QED BY <2>1, <2>2 DEF NotDropped
<1>5. scratch[c] = "present"
  <2>1. CASE Good(j)
    BY <1>2, <1>3, <2>1 DEF ReadyInv, RestoredIsThere
  <2>2. CASE ~Good(j)
    <3>1. PICK x \in Executors :
             /\ hand[x].job = j
             /\ DropScratch(x) \/ (FillScratch(x) /\ scratch[Of(x)] = "present")
      BY <2>2, GoodComes
    <3>2. Of(x) = c
      BY <1>2, <3>1 DEF Of, JobOf
    <3> QED BY <1>4, <3>1, <3>2
  <2> QED BY <2>1, <2>2
<1> QED BY <1>4, <1>5, <1>t DEF ScratchMoves

LEMMA NextExpires ==
  Around /\ OrderInv /\ ReadyInv /\ CopyMoves => Expires' /\ ExpiresAlone'
<1> SUFFICES ASSUME Around, OrderInv, ReadyInv, CopyMoves PROVE Expires' /\ ExpiresAlone'
  OBVIOUS
<1>1. ASSUME NEW r \in Replicas, expire'[r] # {}
      PROVE  /\ hand'[r].step = "idle" /\ stuck'[r] = {} /\ \A e \in effects' : e.by # r
             /\ expire[r] # {} \/ ListDue(r)
  <2>1. CASE ListDue(r)
    BY <2>1 DEF ListDue, FreeForHousekeeping, Completing, opsVars
  <2>2. CASE ~ListDue(r)
    <3>1. expire[r] # {}
      BY <1>1, <2>2 DEF CopyMoves, ExpireMoves
    <3>2. hand[r].step = "idle" /\ stuck[r] = {} /\ \A e \in effects : e.by # r
      BY <3>1 DEF ReadyInv, Expires
    <3>3. hand'[r].step = "idle" /\ stuck'[r] = {}
      BY <3>1, <3>2 DEF CopyMoves, ExpiringWaits
    <3>4. \A e \in effects' : e.by # r
      BY <3>2 DEF CopyMoves, EffectsComeOnce
    <3> QED BY <3>1, <3>3, <3>4
  <2> QED BY <2>1, <2>2
<1>2. ASSUME NEW q \in Replicas, NEW r \in Replicas, expire'[q] # {}, expire'[r] # {}
      PROVE  q = r
  <2>1. CASE ListDue(q)
    <3>1. \A p \in Replicas : p # q => expire'[p] = {}
      <4>1. expire \in [Replicas -> SUBSET Subjects]
        BY DEF Around, CopiesInv
      <4>2. expire' = [expire EXCEPT ![q] = {c \in Subjects : Due(c)}]
        BY <2>1 DEF ListDue
      <4> QED BY <2>1, <4>1, <4>2 DEF ListDue, NoOneExpires
    <3> QED BY <1>2, <3>1
  <2>2. CASE ListDue(r)
    <3>1. \A p \in Replicas : p # r => expire'[p] = {}
      <4>1. expire \in [Replicas -> SUBSET Subjects]
        BY DEF Around, CopiesInv
      <4>2. expire' = [expire EXCEPT ![r] = {c \in Subjects : Due(c)}]
        BY <2>2 DEF ListDue
      <4> QED BY <2>2, <4>1, <4>2 DEF ListDue, NoOneExpires
    <3> QED BY <1>2, <3>1
  <2>3. CASE ~ListDue(q) /\ ~ListDue(r)
    BY <1>1, <1>2, <2>3 DEF ReadyInv, ExpiresAlone
  <2> QED BY <2>1, <2>2, <2>3
<1> QED BY <1>1, <1>2 DEF Expires, ExpiresAlone

\* A statement that is still to come keeps its copy on the list.
LEMMA KeptStays ==
  ASSUME Around, CopyMoves, NEW a \in asked, a \in asked', a.do = "droppingJob", Kept(a)
  PROVE  Kept(a)'
<1> DEFINE c == a.of
           r == a.by
<1>1. r \in Replicas /\ c \in expire[r] /\ CopyTypes
  BY DEF Kept, Around
<1>2. ~ListDue(r) /\ ~Dies(r)
  BY <1>1 DEF ListDue, NoOneExpires, Dies
<1>3. ASSUME NEW b \in asked, b.by = r, DropMarked(b), b.of = c PROVE FALSE
  <2>1. b = a
    BY <1>1, <1>3, Statements DEF DropMarked
  <2> QED BY <1>3, <2>1 DEF DropMarked
<1>4. c \in expire'[r]
  BY <1>1, <1>2, <1>3 DEF CopyMoves, ExpireMoves
<1> QED BY <1>1, <1>4 DEF Kept

LEMMA NextExpired ==
  Around /\ OrderInv /\ ReadyInv /\ CopyMoves => ReadyIsExpired'
<1> SUFFICES ASSUME Around, OrderInv, ReadyInv, CopyMoves,
                    NEW a \in asked', a.do = "droppingJob", copy'[a.of].status = "ready", a.by # Nothing
             PROVE  Kept(a)'
  BY DEF ReadyIsExpired
<1>t. CopiesInv /\ CopyTypes /\ expire \in [Replicas -> SUBSET Subjects]
  BY DEF Around, CopiesInv
<1>1. CASE a \notin asked
  <2>1. \E j \in Jobs : Drops(a.of, j, a.by)
    <3>1. /\ \A d, x : Step("open", d, x).do # "droppingJob"
          /\ \A d, x : Step("refuse", d, x).do # "droppingJob"
          /\ \A d, x : Step("discard", d, x).do # "droppingJob"
      BY DEF Step
    <3> QED BY <1>1, <3>1 DEF CopyMoves, AskedMoves
  <2>2. CASE a.by \in Replicas /\ \E j \in Jobs : ExpireCopy(a.by, a.of, j)
    BY <2>2 DEF ExpireCopy, Kept
  <2>3. CASE \E j \in Jobs, e \in effects : job[e.job].of = a.of /\ DropRestored(e, j)
    <3>1. PICK e \in effects, j \in Jobs : job[e.job].of = a.of /\ DropRestored(e, j)
      BY <2>3
    <3>2. copy[a.of].status \in Past /\ copy' = copy
      BY <3>1 DEF DropRestored, OrderInv, FailedIsPast, Past
    <3> QED BY <3>2 DEF Past
  <2> QED BY <2>1, <2>2, <2>3 DEF Drops
<1>2. CASE a \in asked
  <2> DEFINE c == a.of
  <2>1. c \in Subjects /\ RowTurns(c)
    BY <1>2, <1>t, Statements DEF CopyMoves
  <2>2. copy[c].status = "ready"
    <3>1. copy[c].status # "restoring"
      BY <1>2, <2>1 DEF OrderInv, DroppedLater, NotDropped
    <3> QED BY <2>1, <3>1 DEF RowTurns, Becomes
  <2>3. Kept(a)
    BY <1>2, <2>2 DEF ReadyInv, ReadyIsExpired
  <2> QED BY <1>2, <2>3, KeptStays
<1> QED BY <1>1, <1>2

\* Faults are those of processes.
LEMMA NextFaults ==
  ASSUME CopiesInv, [CopyNext]_copyVars
  PROVE  \/ faults' = faults
         \/ faults' = faults + 1 /\ ((\E x \in Executors : Dies(x)) \/ \E a \in asked : RequestDies(a))
<1>1. CASE \E c \in Subjects :
             \/ OpenCopy(c) \/ Extend(c) \/ DiscardRestoring(c) \/ GrowsOld(c) \/ Stalls(c)
             \/ \E j \in Jobs : DiscardNow(c, j)
  BY <1>1 DEF OpenCopy, Extend, DiscardRestoring, GrowsOld, Stalls, DiscardNow, opsVars
<1>2. CASE \E a \in asked : Continue(a) \/ RequestDies(a)
  BY <1>2 DEF Continue, RequestDies, OpenJob, OpenRefused, Refused, Discarded, DropMarked, opsVars, OtherFault
<1>3. CASE \E x \in Executors : Working(x)
  BY <1>3 DEF Working, ClaimJob, PrepareJob, RefuseJob, ReportJob, CreateScratch, FillScratch,
              ExecuteFails, DropScratch, ClaimNext, Prepare, Refuse, Execute, Report, opsVars
<1>4. CASE \E x \in Executors : Dies(x)
  BY <1>4 DEF Dies, Crash, OtherFault
<1>5. CASE \E e \in effects : ApplyEffect(e)
  BY <1>5 DEF ApplyEffect, DropRestored, CopyRestored, CopyReady, CopyFailed, CopyDropped, opsVars
<1>6. CASE \E r \in Replicas : FailStuckJobs(r) \/ Expiring(r)
  BY <1>6 DEF FailStuckJobs, Expiring, ListDue, ExpireCopy, opsVars, Housekeep, ListStuck, FailStuck
<1>7. CASE (\E j \in Jobs : Ages(j)) \/ UNCHANGED copyVars
  BY <1>7 DEF Ages, copyVars, opsVars, ComeOfAge
<1> QED BY <1>1, <1>2, <1>3, <1>4, <1>5, <1>6, <1>7 DEF CopyNext

\* A drop that is marked is no more of a copy that is ready.
LEMMA MarkedIsDropping ==
  ASSUME Around, NEW a \in asked, DropMarked(a), copy[a.of].status # "dropped"
  PROVE  copy'[a.of].status = "dropping"
<1> DEFINE c == a.of
<1>t. copy \in [Subjects -> CopyRow] /\ c \in Subjects /\ copy[c] \in CopyRow
  BY Statements DEF Around, CopiesInv
<1> DEFINE drop == copy[c].drop \/ TRUE
           attempts == copy[c].attempts + 1
           row == [[copy[c] EXCEPT !.status = "dropping"] EXCEPT !.drop = drop, !.attempts = attempts]
<1>1. attempts \in Nat /\ drop \in BOOLEAN
  <2> HIDE DEF c
  <2> QED BY <1>t DEF CopyRow
<1>2. Touched(c, row)
  <2>1. copy' = [copy EXCEPT ![c] = [[copy[c] EXCEPT !.status = "dropping", !.drop = @ \/ TRUE,
                                          !.attempts = IF TRUE THEN @ + 1 ELSE @] EXCEPT !.stale = FALSE]]
    BY DEF DropMarked, MarkDropping, Touched
  <2> HIDE DEF c
  <2>2. [copy[c] EXCEPT !.status = "dropping", !.drop = @ \/ TRUE, !.attempts = IF TRUE THEN @ + 1 ELSE @] = row
    BY <1>t DEF CopyRow
  <2> HIDE DEF row
  <2> QED BY <2>1, <2>2 DEF Touched
<1>3. row \in CopyRow /\ row.status = "dropping"
  <2> HIDE DEF c, drop, attempts
  <2> QED BY <1>t, <1>1 DEF CopyRow
<1> HIDE DEF row
<1> QED BY <1>t, <1>2, <1>3, Written

\* The statement that marks a copy that stays ready is lost with who was to
\* execute it, and with nothing else.
LEMMA DroppingStays ==
  ASSUME Around, CopyMoves, NEW c \in Subjects, copy[c].status = "ready", copy'[c].status = "ready",
         Dropping(c), ~Dropping(c)'
  PROVE  \E a \in asked : /\ a.do = "droppingJob" /\ a.of = c /\ a \notin asked'
                          /\ RequestDies(a) \/ (a.by \in Executors /\ Dies(a.by))
<1>1. PICK a \in asked : a.do = "droppingJob" /\ a.of = c
  BY DEF Dropping
<1>2. a \notin asked'
  BY <1>1 DEF Dropping
<1>3. ~Continue(a)
  <2>1. ~DropMarked(a)
    BY <1>1, MarkedIsDropping
  <2> QED BY <1>1, <2>1 DEF Continue, OpenJob, OpenRefused, Refused, Discarded
<1> QED BY <1>1, <1>2, <1>3 DEF CopyMoves, AskedLeaves

LEMMA LostWithIt ==
  ASSUME Around, ReadyInv, Clean, NEW a \in asked, a.do = "droppingJob", copy[a.of].status = "ready",
         RequestDies(a) \/ (a.by \in Executors /\ Dies(a.by))
  PROVE  Clean' /\ \A j \in Jobs : Good(j) => Good(j)'
<1>t. hand \in [Executors -> Hand]
  BY DEF Around, CopiesInv, EngineInv, OpsInv, OpsTypeOK
<1>1. CASE UNCHANGED <<job, hand, effects>>
  BY <1>1 DEF Clean, Holding, Good, ReportedGood
<1>2. CASE a.by \in Executors /\ Crash(a.by)
  <2> DEFINE x == a.by
  <2>1. x \in Replicas /\ expire[x] # {}
    BY <1>2, OperationAssumption DEF OperationAssumption, ReadyInv, ReadyIsExpired, Kept
  <2>2. hand[x].step = "idle" /\ \A e \in effects : e.by # x
    BY <2>1 DEF ReadyInv, Expires
  <2>3. /\ job' = job /\ effects' = effects
        /\ \A y \in Executors : hand[y].step # "idle" => hand'[y] = hand[y]
    BY <1>2, <1>t, <2>2 DEF Crash
  <2>4. Clean'
    BY <2>3 DEF Clean, Holding
  <2> QED BY <2>3, <2>4 DEF Good, ReportedGood
<1> QED BY <1>1, <1>2 DEF RequestDies, Dies, OtherFault

\* A database that goes was dropped, and well.
LEMMA GoneIsGood ==
  ASSUME Around, CopyMoves, NEW c \in Subjects, scratch[c] = "present", scratch'[c] = "absent"
  PROVE  HasDrop(c) /\ GoodDrop(c)'
<1>t. hand \in [Executors -> Hand] /\ HeldIsClaimed
  BY DEF Around, CopiesInv, EngineInv, OpsInv, OpsTypeOK
<1>1. PICK x \in Executors : DropScratch(x) /\ Of(x) = c
  BY DEF CopyMoves, ScratchMoves
<1>2. PICK j \in Jobs : j = hand[x].job /\ JobOf(j, "drop", c)
  BY <1>t, <1>1 DEF DropScratch, Execute, HeldIsClaimed, Doing, Of, JobOf
<1>3. hand'[x].step = "reporting" /\ hand'[x].ok /\ hand'[x].job = j
  <2>1. hand' = [hand EXCEPT ![x] = [[hand[x] EXCEPT !.step = "reporting"] EXCEPT !.ok = TRUE]]
    BY <1>t, <1>1 DEF DropScratch, Execute, Hand
  <2> QED BY <1>t, <1>2, <2>1 DEF Hand
<1>4. JobOf(j, "drop", c)'
  BY <1>2, MadeJobs DEF CopyMoves
<1> QED BY <1>2, <1>3, <1>4 DEF HasDrop, GoodDrop, Good, ReportedGood

\* A good drop of a copy that stays ready is recorded, and still to be told.
LEMMA GoodDropStays ==
  ASSUME Around, OrderInv, CopyMoves, GoodLast, faults' = faults,
         NEW c \in Subjects, copy'[c].status = "ready", GoodDrop(c)
  PROVE  GoodDrop(c)'
<1>t. effects \subseteq Effect /\ faults \in Nat /\ copy \in [Subjects -> CopyRow] /\ copy[c] \in CopyRow
  BY OperationAssumption DEF OperationAssumption, Around, CopiesInv, EngineInv, OpsInv, OpsTypeOK
<1>1. PICK j \in Jobs : JobOf(j, "drop", c) /\ Good(j)
  BY DEF GoodDrop
<1>2. JobOf(j, "drop", c)'
  BY <1>1, MadeJobs DEF CopyMoves
<1>3. ASSUME NEW e \in effects, e \notin effects', e.job = j, e.ok PROVE FALSE
  <2>1. ~Dies(e.by)
    BY <1>t DEF Dies, Crash, OtherFault
  <2>2. ApplyEffect(e)
    BY <1>3, <2>1 DEF CopyMoves, EffectsLeave
  <2>3. CopyDropped(e)
    BY <1>1, <1>3, <2>2 DEF ApplyEffect, CopyRestored, CopyReady, CopyFailed, DropRestored, JobOf, OrderInv, HalfDone
  <2>4. MarkDropped(c)
    BY <1>1, <1>3, <2>3 DEF CopyDropped, JobOf
  <2>5. copy'[c].status = "dropped"
    <3>1. [copy[c] EXCEPT !.status = "dropped"] \in CopyRow /\ [copy[c] EXCEPT !.status = "dropped"].status = "dropped"
      BY <1>t DEF CopyRow
    <3> QED BY <1>t, <2>4, <3>1, Written DEF MarkDropped
  <2> QED BY <2>5
<1>4. Good(j)'
  BY <1>1, <1>3 DEF GoodLast
<1> QED BY <1>2, <1>4 DEF GoodDrop

LEMMA HasDropStays ==
  ASSUME Around, OrderInv, CopyMoves, NEW c \in Subjects
  PROVE  /\ HasDrop(c) => HasDrop(c)'
         /\ HasDrop(c)' => HasDrop(c) \/ Dropping(c)'
<1>1. HasDrop(c) => HasDrop(c)'
  BY MadeJobs DEF HasDrop, CopyMoves
<1>2. ASSUME NEW j \in Jobs, JobOf(j, "drop", c)', ~JobOf(j, "drop", c) PROVE Dropping(c)'
  <2>1. PICK x \in Executors \cup {Nothing} : Drops(c, j, x)
    BY <1>2, MadeJobs DEF CopyMoves
  <2>2. Step("droppingJob", c, x) \in asked'
    BY <2>1, DropsOf
  <2> QED BY <2>2, StepFields DEF Dropping
<1> QED BY <1>1, <1>2 DEF HasDrop

\* A copy gets ready with the database it was restored into.
LEMMA ReadyAtFirst ==
  ASSUME Around, OrderInv, ReadyInv, CopyMoves, NEW c \in Subjects,
         copy[c].status # "ready", copy'[c].status = "ready"
  PROVE  scratch'[c] = "present" /\ ~HasDrop(c)'
<1>1. PICK e \in effects : job[e.job].of = c /\ CopyReady(e) /\ copy[c].status = "restoring"
  <2>1. RowTurns(c)
    BY DEF CopyMoves
  <2> QED BY <2>1 DEF RowTurns, Becomes
<1>2. e.job \in Jobs /\ JobOf(e.job, "restore", c) /\ Good(e.job)
  <2>1. effects \subseteq Effect
    BY DEF Around, CopiesInv, EngineInv, OpsInv, OpsTypeOK
  <2> QED BY <1>1, <2>1 DEF CopyReady, OrderInv, HalfDone, JobOf, Good, Effect
<1>3. scratch[c] = "present" /\ ~HasDrop(c)
  BY <1>1, <1>2 DEF ReadyInv, RestoredIsThere, OrderInv, DroppedLater, NotDropped, HasDrop
<1>4. scratch' = scratch /\ job' = job
  BY <1>1 DEF CopyReady
<1> QED BY <1>3, <1>4 DEF HasDrop, JobOf

LEMMA NextReady ==
  ASSUME Around, Around', OrderInv, ReadyInv, CopyMoves, [OpsNext]_opsVars, [CopyNext]_copyVars
  PROVE  CleanAtFirst' /\ ReadyIsDropped'
<1>t. /\ faults \in Nat /\ faults' \in Nat /\ EngineInv /\ EngineOrder
      /\ scratch \in [Subjects -> {"absent", "present"}] /\ scratch' \in [Subjects -> {"absent", "present"}]
  BY OperationAssumption DEF OperationAssumption, Around, CopiesInv, CopyTypes, EngineInv, OpsInv, OpsTypeOK
<1>f. faults' = faults \/ faults' = faults + 1
  BY NextFaults DEF Around
<1>c. ASSUME ~Slow, Clean, faults' = faults PROVE Clean' /\ GoodLast
  BY <1>c, <1>t, StaysClean
<1>0. ~Slow /\ faults = 0 => Clean
  BY DEF ReadyInv, CleanAtFirst
<1>1. CleanAtFirst'
  BY <1>0, <1>c, <1>f, <1>t DEF CleanAtFirst
<1>2. ASSUME NEW c \in Subjects, copy'[c].status = "ready", copy[c].status # "ready"
      PROVE  scratch'[c] = "present" /\ ~HasDrop(c)'
  BY <1>2, ReadyAtFirst
<1>3. ASSUME NEW c \in Subjects, copy'[c].status = "ready", copy[c].status = "ready"
      PROVE  /\ scratch'[c] = "present" \/ HasDrop(c)'
             /\ faults' = 0 /\ HasDrop(c)' => Dropping(c)'
             /\ faults' = 1 /\ ~Slow /\ HasDrop(c)' => Dropping(c)' \/ Clean'
             /\ faults' = 0 /\ ~Slow /\ scratch'[c] = "absent" => GoodDrop(c)'
             /\ faults' = 1 /\ ~Slow /\ scratch'[c] = "absent" => Dropping(c)' \/ GoodDrop(c)'
  <2>1. /\ scratch[c] = "present" \/ HasDrop(c)
        /\ faults = 0 /\ HasDrop(c) => Dropping(c)
        /\ faults = 1 /\ ~Slow /\ HasDrop(c) => Dropping(c) \/ Clean
        /\ faults = 0 /\ ~Slow /\ scratch[c] = "absent" => GoodDrop(c)
        /\ faults = 1 /\ ~Slow /\ scratch[c] = "absent" => Dropping(c) \/ GoodDrop(c)
    BY <1>3 DEF ReadyInv, ReadyIsDropped
  <2>d. (HasDrop(c) => HasDrop(c)') /\ (HasDrop(c)' => HasDrop(c) \/ Dropping(c)')
    BY HasDropStays
  <2>g. ASSUME scratch'[c] = "absent", scratch[c] # "absent" PROVE HasDrop(c) /\ GoodDrop(c)'
    BY <1>t, <2>g, GoneIsGood
  <2>s. ASSUME faults' = faults, Dropping(c) PROVE Dropping(c)'
    <3> SUFFICES ASSUME ~Dropping(c)' PROVE FALSE
      OBVIOUS
    <3>1. PICK a \in asked : RequestDies(a) \/ Dies(a.by)
      BY <1>3, <2>s, DroppingStays
    <3> QED BY <1>t, <2>s, <3>1 DEF RequestDies, Dies, Crash, OtherFault
  <2>k. ASSUME faults' = faults, ~Slow, Clean, GoodDrop(c) PROVE GoodDrop(c)'
    BY <1>3, <1>c, <2>k, GoodDropStays
  <2>l. ASSUME Clean, Dropping(c), ~Dropping(c)' PROVE Clean' /\ \A j \in Jobs : Good(j) => Good(j)'
    <3>1. PICK a \in asked : /\ a.do = "droppingJob" /\ a.of = c
                             /\ RequestDies(a) \/ (a.by \in Executors /\ Dies(a.by))
      BY <1>3, <2>l, DroppingStays
    <3> QED BY <1>3, <2>l, <3>1, LostWithIt
  <2>h. GoodDrop(c) /\ (\A j \in Jobs : Good(j) => Good(j)') => GoodDrop(c)'
    BY MadeJobs DEF GoodDrop, CopyMoves
  <2>i. GoodDrop(c) => HasDrop(c)
    BY DEF GoodDrop, HasDrop
  <2>2. scratch'[c] = "present" \/ HasDrop(c)'
    BY <1>t, <2>1, <2>d, <2>g
  <2>3. ASSUME faults' = 0, HasDrop(c)' PROVE Dropping(c)'
    BY <1>f, <1>t, <2>1, <2>3, <2>d, <2>s
  <2>4. ASSUME faults' = 1, ~Slow, HasDrop(c)', ~Dropping(c)' PROVE Clean'
    <3>1. HasDrop(c)
      BY <2>4, <2>d
    <3>2. CASE faults = 1
      BY <1>c, <2>1, <2>4, <2>s, <3>1, <3>2
    <3>3. CASE faults = 0
      BY <1>0, <2>1, <2>4, <2>l, <3>1, <3>3
    <3> QED BY <1>f, <1>t, <2>4, <3>2, <3>3
  <2>5. ASSUME faults' = 0, ~Slow, scratch'[c] = "absent" PROVE GoodDrop(c)'
    <3>1. faults = 0
      BY <1>f, <1>t, <2>5
    <3> QED BY <1>0, <2>1, <2>5, <2>g, <2>k, <3>1
  <2>6. ASSUME faults' = 1, ~Slow, scratch'[c] = "absent", ~Dropping(c)' PROVE GoodDrop(c)'
    <3>1. CASE scratch[c] # "absent"
      BY <2>6, <2>g, <3>1
    <3>2. CASE scratch[c] = "absent" /\ faults = 1
      <4>1. ~Dropping(c) /\ GoodDrop(c)
        BY <2>1, <2>6, <2>s, <3>2
      <4>2. Clean
        BY <2>1, <2>6, <2>i, <3>2, <4>1
      <4> QED BY <2>6, <2>k, <3>2, <4>1, <4>2
    <3>3. CASE scratch[c] = "absent" /\ faults = 0
      <4>1. GoodDrop(c) /\ Clean /\ Dropping(c)
        BY <1>0, <2>1, <2>6, <2>i, <3>3
      <4> QED BY <2>6, <2>h, <2>l, <4>1
    <3> QED BY <1>f, <1>t, <2>6, <3>1, <3>2, <3>3
  <2> QED BY <2>2, <2>3, <2>4, <2>5, <2>6
<1>4. ASSUME NEW c \in Subjects, copy'[c].status = "ready"
      PROVE  /\ scratch'[c] = "present" \/ HasDrop(c)'
             /\ faults' = 0 /\ HasDrop(c)' => Dropping(c)'
             /\ faults' = 1 /\ ~Slow /\ HasDrop(c)' => Dropping(c)' \/ Clean'
             /\ faults' = 0 /\ ~Slow /\ scratch'[c] = "absent" => GoodDrop(c)'
             /\ faults' = 1 /\ ~Slow /\ scratch'[c] = "absent" => Dropping(c)' \/ GoodDrop(c)'
  <2>1. CASE copy[c].status # "ready"
    BY <1>2, <1>4, <2>1
  <2>2. CASE copy[c].status = "ready"
    BY <1>3, <1>4, <2>2
  <2> QED BY <2>1, <2>2
<1> QED BY <1>1, <1>4 DEF ReadyIsDropped

LEMMA NextReadyInv == Around /\ OrderInv /\ ReadyInv /\ [CopyNext]_copyVars => ReadyInv'
BY NextCopyMoves, NextThere, NextReady, NextExpires, NextExpired DEF ReadyInv

LEMMA ReadyHolds == Around /\ OrderInv /\ ReadyInv => ReadyHasDatabase
<1> SUFFICES ASSUME Around, OrderInv, ReadyInv, OneMishap, NEW c \in Subjects, copy[c].status = "ready",
                    scratch[c] # "present", ~Dropping(c)
             PROVE  InProgress("drop", c)
  BY DEF ReadyHasDatabase, Dropping
<1>t. scratch[c] = "absent" /\ HeldIsClaimed
  BY DEF Around, CopyTypes, CopiesInv, EngineInv, OpsInv
<1>1. /\ scratch[c] = "present" \/ HasDrop(c)
      /\ faults = 0 /\ HasDrop(c) => Dropping(c)
      /\ faults = 1 /\ ~Slow /\ HasDrop(c) => Dropping(c) \/ Clean
      /\ faults = 1 /\ ~Slow /\ scratch[c] = "absent" => Dropping(c) \/ GoodDrop(c)
  BY DEF ReadyInv, ReadyIsDropped
<1>2. GoodDrop(c) /\ Clean
  BY <1>1, <1>t DEF OneMishap
<1>3. PICK j \in Jobs : JobOf(j, "drop", c) /\ Good(j)
  BY <1>2 DEF GoodDrop
<1>4. CASE \E e \in effects : e.job = j
  BY <1>3, <1>4 DEF InProgress, JobOf
<1>5. CASE ReportedGood(j)
  <2>1. PICK x \in Executors : hand[x].step = "reporting" /\ hand[x].job = j
    BY <1>5 DEF ReportedGood
  <2>2. job[j].status = "running"
    BY <1>2, <2>1 DEF Around, EngineOrder, GivenUpIsOld, Clean
  <2> QED BY <1>3, <2>2 DEF InProgress, JobOf, Open
<1> QED BY <1>3, <1>4, <1>5 DEF Good

---------------------------------------------------------------------------
(* No copy is dropped without end *)

One(b) == IF b THEN 1 ELSE 0

Fresh(c) == copy[c].status \in {"none", "restoring", "ready", "failed"}

\* Who may still count a drop: a user once, the completion of the restore
\* once, and housekeeping, as long as the limit is not reached.
UserMayDrop(c) == Fresh(c) \/ Step("droppingJob", c, Nothing) \in asked

Completes(c) ==
  \E a \in asked : a.do = "droppingJob" /\ a.of = c /\ a.by # Nothing /\ ~Kept(a)

Restores(c) ==
  copy[c].status = "none" \/ Opening(c) \/ \E j \in Jobs : JobOf(j, "restore", c) /\ Alive(j)

CompletionMayDrop(c) == Restores(c) \/ Completes(c)

ExpiryMayDrop(c) == Fresh(c) \/ \E r \in Replicas : c \in expire[r]

FreshIsUntried == \A c \in Subjects : Fresh(c) => copy[c].attempts = 0

StaleIsLast ==
  \A c \in Subjects : copy[c].stale =>
    copy[c].status = "dropping" /\ Step("droppingJob", c, Nothing) \notin asked

CompletesOnce ==
  \A a \in asked : a.do = "droppingJob" /\ a.by # Nothing /\ ~Kept(a) =>
    /\ ~Restores(a.of)
    /\ \A b \in asked : b.do = "droppingJob" /\ b.of = a.of /\ b.by # Nothing /\ ~Kept(b) => b = a

Tried(c) ==
  LET u == One(UserMayDrop(c))
      k == One(CompletionMayDrop(c))
      h == One(ExpiryMayDrop(c))
  IN  \/ copy[c].attempts + u + k + h <= 3
      \/ u = 0 /\ copy[c].attempts + k + h <= MaxDropAttempts + 1

LimitInv == FreshIsUntried /\ StaleIsLast /\ CompletesOnce /\ \A c \in Subjects : Tried(c)

LEMMA AliveBefore ==
  ASSUME Around, CopyMoves, JobsMove, NEW j \in Jobs, job[j].status # "none", Alive(j)'
  PROVE  Alive(j)
<1>t. job[j].status \in Open \cup Final
  BY DEF Around, CopiesInv, EngineInv, OpsInv, OpsTypeOK, Job
<1>1. CASE job'[j].status \in Open
  BY <1>1, <1>t DEF JobsMove, Alive, Open, Final
<1>2. CASE \E e \in effects' : e.job = j
  BY <1>2 DEF CopyMoves, EffectsComeOnce, Alive
<1> QED BY <1>1, <1>2 DEF Alive

LEMMA RestoresBefore ==
  ASSUME Around, OrderInv, CopyMoves, JobsMove, NEW c \in Subjects, Restores(c)'
  PROVE  Restores(c)
<1>t. CopiesInv /\ CopyTypes /\ RequestsAreUsers /\ JobsBefore /\ RowTurns(c)
  BY DEF Around, OrderInv, CopyMoves
<1>1. CASE copy'[c].status = "none"
  BY <1>1, <1>t DEF RowTurns, Becomes, Restores
<1>2. CASE Opening(c)'
  BY <1>2, <1>t, NewOpening, Inserted DEF Restores
<1>3. CASE \E j \in Jobs : JobOf(j, "restore", c)' /\ Alive(j)'
  <2>1. PICK j \in Jobs : JobOf(j, "restore", c)' /\ Alive(j)'
    BY <1>3
  <2>2. CASE JobOf(j, "restore", c)
    BY <1>t, <2>1, <2>2, MadeJobs, AliveBefore DEF Restores
  <2>3. CASE \E a \in asked : a.of = c /\ OpenJob(a, j)
    BY <1>t, <2>3, NotOpeningLater DEF Restores
  <2> QED BY <1>t, <2>1, <2>2, <2>3, MadeJobs
<1> QED BY <1>1, <1>2, <1>3 DEF Restores

\* The statements that count a drop, and where a new one is from.
LEMMA NewMark ==
  ASSUME Around, OrderInv, CopyMoves, NEW a \in asked', a \notin asked, a.do = "droppingJob"
  PROVE  /\ a.of \in Subjects /\ a = Step("droppingJob", a.of, a.by)
         /\ \/ a.by = Nothing /\ \E j \in Jobs : DiscardNow(a.of, j)
            \/ Kept(a)'
            \/ \E e \in effects, j \in Jobs : e.by = a.by /\ job[e.job].of = a.of /\ DropRestored(e, j)
<1>1. a = Step("droppingJob", a.of, a.by) /\ \E j \in Jobs : Drops(a.of, j, a.by)
  <2>1. /\ \A d, x : Step("open", d, x).do # "droppingJob"
        /\ \A d, x : Step("refuse", d, x).do # "droppingJob"
        /\ \A d, x : Step("discard", d, x).do # "droppingJob"
    BY DEF Step
  <2> QED BY <2>1 DEF CopyMoves, AskedMoves
<1>2. a.by \in Replicas /\ (\E j \in Jobs : ExpireCopy(a.by, a.of, j)) => Kept(a)'
  BY DEF ExpireCopy, Kept
<1>t. /\ expire \in [Replicas -> SUBSET Subjects] /\ effects \subseteq Effect
      /\ \A j \in Jobs : job[j].kind # Nothing => job[j].of \in Subjects
  BY DEF Around, CopiesInv, AllOpened, EngineInv, OpsInv, OpsTypeOK
<1>3. a.of \in Subjects
  <2>1. CASE \E j \in Jobs : DiscardNow(a.of, j)
    <3>1. PICK j \in Jobs : DiscardNow(a.of, j)
      BY <2>1
    <3> QED
      <4>1. JobOf(j, "drop", a.of)'
        <5>1. job \in [Jobs -> Job]
          BY DEF Around, CopiesInv, EngineInv, OpsInv, OpsTypeOK
        <5> QED BY <3>1, <5>1 DEF DiscardNow, DropJob, NewJob, JobOf
      <4>2. JobOf(j, "drop", a.of) \/ \E c \in Subjects : job'[j].of = c
        BY <4>1, MadeJobs DEF CopyMoves, JobOf, JobsBefore, Made
      <4> QED BY <1>t, <4>1, <4>2, CopyKindsAre DEF JobOf
  <2>2. CASE a.by \in Replicas /\ \E j \in Jobs : ExpireCopy(a.by, a.of, j)
    BY <1>t, <2>2 DEF ExpireCopy
  <2>3. CASE \E e \in effects, j \in Jobs : job[e.job].of = a.of /\ DropRestored(e, j)
    <3>1. PICK e \in effects : job[e.job].of = a.of /\ job[e.job].kind = "restore"
      BY <2>3 DEF DropRestored
    <3> QED BY <1>t, <3>1, CopyKindsAre DEF Effect
  <2> QED BY <1>1, <2>1, <2>2, <2>3 DEF Drops
<1> QED BY <1>1, <1>2, <1>3 DEF Drops

\* No one gets to count a drop who could not before, but a pass of housekeeping.
LEMMA FreshBefore ==
  ASSUME CopyMoves, NEW c \in Subjects, Fresh(c)'
  PROVE  Fresh(c) /\ copy'[c].attempts = IF copy[c].status = "none" /\ copy'[c].status # "none" THEN 0 ELSE copy[c].attempts
<1>1. RowTurns(c)
  BY DEF CopyMoves
<1> QED BY <1>1 DEF RowTurns, Becomes, Fresh, Live

LEMMA UserBack ==
  ASSUME Around, OrderInv, CopyMoves, NEW c \in Subjects, UserMayDrop(c)'
  PROVE  UserMayDrop(c)
<1> DEFINE a == Step("droppingJob", c, Nothing)
<1>1. CASE Fresh(c)'
  BY <1>1, FreshBefore DEF UserMayDrop
<1>2. CASE a \in asked' /\ a \notin asked
  <2>1. a.do = "droppingJob" /\ a.of = c /\ a.by = Nothing
    BY DEF Step
  <2>2. Nothing \notin Replicas /\ \A e \in effects : e.by # Nothing
    BY OperationAssumption DEF OperationAssumption, Executors, Around, CopiesInv, EngineInv, OpsInv, OpsTypeOK, Effect
  <2> HIDE DEF a
  <2>3. \E j \in Jobs : DiscardNow(a.of, j)
    BY <1>2, <2>1, <2>2, NewMark DEF Kept
  <2> QED BY <2>1, <2>3 DEF DiscardNow, UserMayDrop, Fresh
<1> QED BY <1>1, <1>2 DEF UserMayDrop

LEMMA CompletesBack ==
  ASSUME Around, OrderInv, CopyMoves, NEW c \in Subjects, Completes(c)'
  PROVE  Completes(c) \/ Restores(c)
<1>1. PICK a \in asked' : a.do = "droppingJob" /\ a.of = c /\ a.by # Nothing /\ ~Kept(a)'
  BY DEF Completes
<1>2. CASE a \in asked
  BY <1>1, <1>2, KeptStays DEF Completes
<1>3. CASE a \notin asked
  <2>1. PICK e \in effects, j \in Jobs : job[e.job].of = c /\ DropRestored(e, j)
    BY <1>1, <1>3, NewMark
  <2>2. e.job \in Jobs
    BY DEF Around, CopiesInv, EngineInv, OpsInv, OpsTypeOK, Effect
  <2> QED BY <2>1, <2>2 DEF DropRestored, Restores, JobOf, Alive
<1> QED BY <1>2, <1>3

LEMMA CompletionBack ==
  ASSUME Around, OrderInv, CopyMoves, JobsMove, NEW c \in Subjects, CompletionMayDrop(c)'
  PROVE  CompletionMayDrop(c)
BY CompletesBack, RestoresBefore DEF CompletionMayDrop

\* Housekeeping lists a copy that is not fresh when its drop stalled.
ListedAgain(c) ==
  /\ UNCHANGED <<copy, asked>> /\ ~Fresh(c)
  /\ copy[c].stale /\ copy[c].attempts < MaxDropAttempts

LEMMA ExpiryBack ==
  ASSUME CopyMoves, NEW c \in Subjects, ExpiryMayDrop(c)'
  PROVE  ExpiryMayDrop(c) \/ ListedAgain(c)
<1>1. CASE Fresh(c)'
  BY <1>1, FreshBefore DEF ExpiryMayDrop
<1>2. CASE \E r \in Replicas : c \in expire'[r]
  <2>1. PICK r \in Replicas : c \in expire'[r]
    BY <1>2
  <2>2. CASE expire'[r] \subseteq expire[r]
    BY <2>1, <2>2 DEF ExpiryMayDrop
  <2>3. CASE ListDue(r) /\ Due(c)
    BY <2>3 DEF ListDue, Due, Fresh, ListedAgain, ExpiryMayDrop
  <2> QED BY <2>1, <2>2, <2>3 DEF CopyMoves, ExpireMoves
<1> QED BY <1>1, <1>2 DEF ExpiryMayDrop

LEMMA NextUntried ==
  Around /\ LimitInv /\ CopyMoves => FreshIsUntried'
<1> SUFFICES ASSUME Around, LimitInv, CopyMoves, NEW c \in Subjects, Fresh(c)'
             PROVE  copy'[c].attempts = 0
  BY DEF FreshIsUntried
<1> QED BY FreshBefore DEF LimitInv, FreshIsUntried

LEMMA NextStale ==
  Around /\ OrderInv /\ LimitInv /\ CopyMoves => StaleIsLast'
<1> SUFFICES ASSUME Around, OrderInv, LimitInv, CopyMoves, NEW c \in Subjects, copy'[c].stale
             PROVE  copy'[c].status = "dropping" /\ Step("droppingJob", c, Nothing) \notin asked'
  BY DEF StaleIsLast
<1> DEFINE a == Step("droppingJob", c, Nothing)
<1>f. a.do = "droppingJob" /\ a.of = c /\ a.by = Nothing
  BY DEF Step
<1> HIDE DEF a
<1>1. /\ copy'[c].status = copy[c].status
      /\ copy[c].stale \/ Stalls(c)
  BY DEF CopyMoves, RowTurns, Becomes
<1>2. copy[c].status = "dropping" /\ a \notin asked
  BY <1>1, <1>f DEF LimitInv, StaleIsLast, Stalls, a
<1>3. ~Fresh(c)
  BY <1>2 DEF Fresh
<1>4. ~UserMayDrop(c)'
  BY <1>2, <1>3, UserBack DEF UserMayDrop, a
<1> QED BY <1>1, <1>2, <1>4 DEF UserMayDrop, a

LEMMA NextOnce ==
  Around /\ Around' /\ OrderInv /\ OrderInv' /\ LimitInv /\ CopyMoves /\ JobsMove => CompletesOnce'
<1> SUFFICES ASSUME Around, Around', OrderInv, OrderInv', LimitInv, CopyMoves, JobsMove
             PROVE  CompletesOnce'
  OBVIOUS
<1> DEFINE mark(a) == a.do = "droppingJob" /\ a.by # Nothing /\ ~Kept(a)
\* Of a statement that is new, the restore is over.
<1>1. ASSUME NEW a \in asked', mark(a)', a \notin asked
      PROVE  /\ a.of \in Subjects /\ Restores(a.of) /\ ~Restores(a.of)'
             /\ asked' = asked \cup {a}
  <2>1. PICK e \in effects, j \in Jobs : e.by = a.by /\ job[e.job].of = a.of /\ DropRestored(e, j)
    BY <1>1, NewMark
  <2>2. a.of \in Subjects /\ a = Step("droppingJob", a.of, a.by)
    BY <1>1, NewMark
  <2>t. e.job \in Jobs /\ CopiesInv /\ JobsBefore
    BY DEF Around, CopiesInv, EngineInv, OpsInv, OpsTypeOK, Effect, CopyMoves
  <2>3. JobOf(e.job, "restore", a.of) /\ JobOf(e.job, "restore", a.of)' /\ Restores(a.of)
    BY <2>1, <2>t, MadeJobs DEF DropRestored, JobOf, Restores, Alive
  <2>4. asked' = asked \cup {a} /\ effects' = effects \ {e} /\ copy' = copy
    BY <2>1, <2>2 DEF DropRestored, DropJob
  <2>5. job[e.job].status \in Final /\ \A f \in effects : f.job = e.job => f = e
    BY <2>t DEF CopiesInv, EngineInv, EffectsAgree, OpsInv, Final
  <2>6. ~Opening(a.of)'
    BY <2>2, <2>3, <2>t DEF OrderInv, OpeningIsFirst
  <2>7. copy'[a.of].status # "none"
    BY <2>2, <2>3, <2>t, <2>4, CopyKindsAre DEF CopiesInv, AllOpened, Opened, JobOf
  <2>8. ASSUME NEW i \in Jobs, JobOf(i, "restore", a.of)', Alive(i)'
        PROVE  FALSE
    <3>1. i = e.job
      BY <2>2, <2>3, <2>8, <2>t DEF OrderInv, OneRestore
    <3>2. job'[i].status \in Final
      BY <2>5, <2>t, <3>1 DEF JobsMove
    <3> QED BY <2>4, <2>5, <2>8, <3>1, <3>2 DEF Alive, Open, Final
  <2> QED BY <2>2, <2>3, <2>4, <2>6, <2>7, <2>8 DEF Restores
\* One that was there is of a restore that was over.
<1>2. ASSUME NEW a \in asked', mark(a)', a \in asked
      PROVE  mark(a) /\ a.of \in Subjects /\ ~Restores(a.of) /\ ~Restores(a.of)'
  <2>1. mark(a)
    BY <1>2, KeptStays
  <2>2. a.of \in Subjects
    BY <1>2, Statements DEF Around
  <2> QED BY <1>2, <2>1, <2>2, RestoresBefore DEF LimitInv, CompletesOnce
<1>3. ASSUME NEW a \in asked', mark(a)', NEW b \in asked', mark(b)', b.of = a.of
      PROVE  b = a
  <2>1. CASE a \in asked /\ b \in asked
    BY <1>2, <1>3, <2>1 DEF LimitInv, CompletesOnce
  <2>2. CASE a \notin asked /\ b \in asked
    BY <1>1, <1>2, <1>3, <2>2
  <2>3. CASE a \in asked /\ b \notin asked
    BY <1>1, <1>2, <1>3, <2>3
  <2>4. CASE a \notin asked /\ b \notin asked
    BY <1>1, <1>3, <2>4
  <2> QED BY <2>1, <2>2, <2>3, <2>4
<1>4. \A a \in asked' : mark(a)' => ~Restores(a.of)'
  BY <1>1, <1>2
<1> QED BY <1>3, <1>4 DEF CompletesOnce

\* What one who may count a drop amounts to, before and after.
LEMMA Counts ==
  ASSUME NEW c \in Subjects
  PROVE  /\ One(UserMayDrop(c)) \in {0, 1} /\ One(CompletionMayDrop(c)) \in {0, 1} /\ One(ExpiryMayDrop(c)) \in {0, 1}
         /\ UserMayDrop(c) => One(UserMayDrop(c)) = 1
         /\ ~UserMayDrop(c) => One(UserMayDrop(c)) = 0
         /\ CompletionMayDrop(c) => One(CompletionMayDrop(c)) = 1
         /\ ~CompletionMayDrop(c) => One(CompletionMayDrop(c)) = 0
         /\ ExpiryMayDrop(c) => One(ExpiryMayDrop(c)) = 1
         /\ ~ExpiryMayDrop(c) => One(ExpiryMayDrop(c)) = 0
BY DEF One

\* A drop is counted by who may, and who has counted one may no more.
LEMMA CountedOnce ==
  ASSUME Around, OrderInv, ReadyInv, LimitInv, CopyMoves, JobsMove, NEW c \in Subjects,
         NEW a \in asked, a.of = c, DropMarked(a), ~Fresh(c)'
  PROVE  \/ UserMayDrop(c) /\ ~UserMayDrop(c)'
         \/ CompletionMayDrop(c) /\ ~CompletionMayDrop(c)'
         \/ ExpiryMayDrop(c) /\ ~ExpiryMayDrop(c)'
<1>1. a.do = "droppingJob" /\ asked' = asked \ {a} /\ a = Step("droppingJob", c, a.by)
  BY Statements DEF Around, DropMarked
<1>2. CASE a.by = Nothing
  BY <1>1, <1>2 DEF UserMayDrop
<1>3. CASE Kept(a)
  <2>1. PICK r \in Replicas : r = a.by /\ c \in expire[r]
    BY <1>3 DEF Kept
  <2>2. \A q \in Replicas : q # r => expire[q] = {}
    BY <2>1 DEF ReadyInv, ExpiresAlone
  <2>3. \A q \in Replicas : c \notin expire'[q]
    BY <2>1, <2>2 DEF DropMarked
  <2> QED BY <2>1, <2>3 DEF ExpiryMayDrop
<1>4. CASE a.by # Nothing /\ ~Kept(a)
  <2>1. Completes(c)
    BY <1>1, <1>4 DEF Completes
  <2>2. ~Restores(c)'
    BY <1>1, <1>4, RestoresBefore DEF LimitInv, CompletesOnce
  <2>3. ~Completes(c)'
    <3> SUFFICES ASSUME NEW b \in asked', b.do = "droppingJob", b.of = c, b.by # Nothing, ~Kept(b)'
                 PROVE  FALSE
      BY DEF Completes
    <3>1. b \in asked /\ b # a
      BY <1>1
    <3>2. ~Kept(b)
      BY <3>1, KeptStays
    <3> QED BY <1>1, <1>4, <3>1, <3>2 DEF LimitInv, CompletesOnce
  <2> QED BY <2>1, <2>2, <2>3 DEF CompletionMayDrop
<1> QED BY <1>2, <1>3, <1>4

LEMMA NextTried ==
  ASSUME Around, OrderInv, ReadyInv, LimitInv, CopyMoves, JobsMove, NEW c \in Subjects
  PROVE  Tried(c)'
<1>v. PICK n, u, k, h, m, v, l, g :
        /\ n = copy[c].attempts /\ m = copy'[c].attempts
        /\ u = One(UserMayDrop(c)) /\ v = One(UserMayDrop(c))'
        /\ k = One(CompletionMayDrop(c)) /\ l = One(CompletionMayDrop(c))'
        /\ h = One(ExpiryMayDrop(c)) /\ g = One(ExpiryMayDrop(c))'
  OBVIOUS
<1>t. n \in Nat /\ MaxDropAttempts \in Nat \ {0, 1}
  <2>1. copy[c] \in CopyRow
    BY DEF Around, CopiesInv
  <2> QED BY <1>v, <2>1, CopyAssumption DEF CopyAssumption, CopyRow
<1>c. /\ u \in {0, 1} /\ k \in {0, 1} /\ h \in {0, 1}
      /\ v \in {0, 1} /\ l \in {0, 1} /\ g \in {0, 1}
  BY <1>v DEF One
<1>i. \/ n + u + k + h <= 3
      \/ u = 0 /\ n + k + h <= MaxDropAttempts + 1
  BY <1>v DEF LimitInv, Tried
<1>u. v = 1 => u = 1
  BY <1>v, UserBack DEF One
<1>k. l = 1 => k = 1
  BY <1>v, CompletionBack DEF One
<1>h. g = 1 => h = 1 \/ ListedAgain(c)
  BY <1>v, ExpiryBack DEF One
<1>r. \/ m = n
      \/ /\ \E a \in asked : a.of = c /\ DropMarked(a)
         /\ copy'[c].status = "dropping" /\ m = n + 1
  BY <1>v DEF CopyMoves, RowTurns, Becomes, LimitInv, FreshIsUntried, Fresh
<1>s. SUFFICES \/ m + v + l + g <= 3
               \/ v = 0 /\ m + l + g <= MaxDropAttempts + 1
  BY <1>v DEF Tried
\* Housekeeping has listed a drop that stalled, which is within the limit.
<1>1. CASE ListedAgain(c)
  <2>1. ~UserMayDrop(c)
    BY <1>1 DEF ListedAgain, UserMayDrop, LimitInv, StaleIsLast
  <2>2. u = 0 /\ m = n /\ n < MaxDropAttempts
    BY <1>v, <1>1, <2>1 DEF ListedAgain, One
  <2> QED BY <1>t, <1>c, <1>u, <2>2
<1>2. CASE m = n /\ ~ListedAgain(c)
  BY <1>2, <1>t, <1>c, <1>i, <1>u, <1>k, <1>h
\* A drop is counted.
<1>3. CASE /\ \E a \in asked : a.of = c /\ DropMarked(a)
           /\ copy'[c].status = "dropping" /\ m = n + 1
           /\ ~ListedAgain(c)
  <2>1. \/ UserMayDrop(c) /\ ~UserMayDrop(c)'
        \/ CompletionMayDrop(c) /\ ~CompletionMayDrop(c)'
        \/ ExpiryMayDrop(c) /\ ~ExpiryMayDrop(c)'
    BY <1>3, CountedOnce DEF Fresh
  <2>2. (u = 1 /\ v = 0) \/ (k = 1 /\ l = 0) \/ (h = 1 /\ g = 0)
    BY <1>v, <2>1 DEF One
  <2> QED BY <1>3, <2>2, <1>t, <1>c, <1>i, <1>u, <1>k, <1>h
<1> QED BY <1>r, <1>1, <1>2, <1>3

LEMMA NextLimit == Around /\ OrderInv /\ ReadyInv /\ LimitInv /\ [CopyNext]_copyVars => LimitInv'
BY NextCopyMoves, NextOrder, NextUntried, NextStale, NextOnce, NextTried DEF LimitInv

LEMMA LimitHolds == Around /\ LimitInv => DropsAreLimited
<1> SUFFICES ASSUME Around, LimitInv, NEW c \in Subjects
             PROVE  copy[c].attempts <= MaxDropAttempts + 1
  BY DEF DropsAreLimited
<1> DEFINE n == copy[c].attempts
           u == One(UserMayDrop(c))
           k == One(CompletionMayDrop(c))
           h == One(ExpiryMayDrop(c))
<1>1. n \in Nat /\ MaxDropAttempts \in Nat \ {0, 1}
  <2>1. copy[c] \in CopyRow
    BY DEF Around, CopiesInv
  <2> QED BY <2>1, CopyAssumption DEF CopyAssumption, CopyRow
<1>2. u \in {0, 1} /\ k \in {0, 1} /\ h \in {0, 1}
  BY Counts
<1>3. \/ n + u + k + h <= 3
      \/ u = 0 /\ n + k + h <= MaxDropAttempts + 1
  BY DEF LimitInv, Tried
<1> HIDE DEF n, u, k, h
<1>4. n <= MaxDropAttempts + 1
  BY <1>1, <1>2, <1>3
<1> QED BY <1>4 DEF n

---------------------------------------------------------------------------

LEMMA CopiesStart == CopyInit => Around /\ OrderInv /\ GoneInv /\ ReadyInv /\ LimitInv
<1> SUFFICES ASSUME CopyInit
             PROVE  Around /\ OrderInv /\ GoneInv /\ ReadyInv /\ LimitInv
  OBVIOUS
<1>1. /\ job = [j \in Jobs |-> NoJob] /\ \A j \in Jobs : job[j] = NoJob
      /\ \A x \in Executors : hand[x] = IdleHand
      /\ effects = {} /\ asked = {} /\ half = {} /\ loaded = {}
      /\ \A r \in Replicas : expire[r] = {} /\ stuck[r] = {}
      /\ faults = 0
      /\ \A c \in Subjects : copy[c] = NotOpened /\ scratch[c] = "absent"
  BY DEF CopyInit, OpsInit
<1>2. \A j \in Jobs : /\ job[j].status = "none" /\ job[j].kind = Nothing
                      /\ job[j].server = Nothing /\ ~job[j].old
  BY <1>1 DEF NoJob
<1>3. \A x \in Executors : hand[x].step = "idle" /\ hand[x].job = Nothing /\ ~hand[x].ok
  BY <1>1 DEF IdleHand
<1>4. \A c \in Subjects : copy[c].status = "none" /\ copy[c].attempts = 0 /\ ~copy[c].stale
  BY <1>1 DEF NotOpened
<1>5. \A j \in Jobs : \A c : ~JobOf(j, "restore", c) /\ ~JobOf(j, "drop", c)
  BY <1>2, CopyKindsAre DEF JobOf
<1>6. Around
  <2>1. CopiesInv
    BY InitCopies
  <2>2. EngineOrder
    BY <1>1, <1>2, <1>3 DEF EngineOrder, JobsInOrder, GivenUpIsOld
  <2> QED BY <1>1, <1>2, <2>1, <2>2 DEF Around, OldIsClaimed, CopyTypes, CopyInit
<1>7. OrderInv
  BY <1>1, <1>4, <1>5 DEF OrderInv, LoadedRestores, RequestsAreUsers, DroppedLater, NotDropped, HalfDone,
     FailedIsPast, OpeningIsFirst, Opening, RefusedIsNotRestored, OneRestore, RestoredFirst
<1>8. GoneInv
  BY <1>1, <1>2, <1>3, <1>4, <1>5 DEF GoneInv, Hosted, HeldIsServed, ClaimedInOrder, Claimed, HeldIsLast,
     DropsRemove, ThereIsRestored, DroppedIsDone
<1>9. ReadyInv
  <2>1. Clean
    BY <1>2 DEF Clean
  <2> QED BY <1>1, <1>4, <1>5, <2>1 DEF ReadyInv, RestoredIsThere, CleanAtFirst, ReadyIsDropped, Expires,
       ExpiresAlone, ReadyIsExpired
<1>10. LimitInv
  <2>1. \A c \in Subjects : Tried(c)
    BY <1>4, Counts DEF Tried
  <2> QED BY <1>1, <1>4, <2>1 DEF LimitInv, FreshIsUntried, StaleIsLast, CompletesOnce
<1> QED BY <1>6, <1>7, <1>8, <1>9, <1>10

CopiesAccounted == Around /\ OrderInv /\ GoneInv /\ ReadyInv /\ LimitInv

LEMMA NextAccounted == CopiesAccounted /\ [CopyNext]_copyVars => CopiesAccounted'
BY NextOrder, NextGone, NextReadyInv, NextLimit DEF CopiesAccounted

---------------------------------------------------------------------------
(* The theorems *)

\* Opening, discarding, expiring and dropping copies, with processes dying
\* anywhere, do to the jobs only what the engine allows.
THEOREM CopiesImplementOperations == CopySpec => OpsSpec
BY InitCopies, NextMaps, NextCopies, PTL DEF CopySpec, OpsSpec

\* So no restore and no drop of a copy is executed by two executors, and the
\* side effects that reach its row are those of the outcome on record.
THEOREM CopyJobsSound == CopySpec => [](SoleExecutor /\ EffectsAgree)
BY CopiesImplementOperations, OneExecutor, EffectsMatch, PTL

\* Create, MarkReady, MarkFailed, MarkDropping and MarkDropped, in whatever
\* order requests, completions and housekeeping run them: at most one copy of
\* the database is live, and one that is over is never live again.
THEOREM CopiesAreLeased == CopySpec => OneLiveCopy
<1>1. CopyInit => LiveCopy!LeaseInit
  <2> SUFFICES ASSUME CopyInit PROVE LiveCopy!LeaseInit
    OBVIOUS
  <2>1. \A c \in Subjects : copy[c].status = "none"
    BY DEF CopyInit, NotOpened
  <2>2. Holder = Nothing /\ Over = {}
    BY <2>1 DEF Holder, Over, Live, Past
  <2> QED BY <2>2 DEF LiveCopy!LeaseInit, Holder, Over, Past
<1>2. CopiesInv /\ [CopyNext]_copyVars => [LiveCopy!LeaseNext]_(LiveCopy!leaseVars)
  <2> SUFFICES ASSUME CopiesInv, [CopyNext]_copyVars
               PROVE  LiveCopy!LeaseNext \/ UNCHANGED LiveCopy!leaseVars
    OBVIOUS
  <2>1. CopiesMove
    BY NextMoves
  <2>2. CASE \E c \in Subjects : Holder = Nothing /\ c \notin Over /\ Holder' = c /\ Over' = Over
    BY <2>2 DEF LiveCopy!LeaseNext, LiveCopy!Take, Holder, Over, Past
  <2>3. CASE \E c \in Subjects : Holder = c /\ Holder' = Nothing /\ Over' = Over \cup {c}
    BY <2>3 DEF LiveCopy!LeaseNext, LiveCopy!GiveBack, Holder, Over, Past
  <2>4. CASE Holder' = Holder /\ Over' = Over
    BY <2>4 DEF LiveCopy!leaseVars, Holder, Over, Past
  <2> QED BY <2>1, <2>2, <2>3, <2>4, MovesLease
<1> QED BY <1>1, <1>2, InitCopies, NextCopies, PTL DEF CopySpec, OneLiveCopy, LiveCopy!LeaseSpec

\* What a copy's row says of its database is true after every statement of
\* requests, workers, agents and housekeeping: one that is ready has it (unless
\* two processes died, or one while executions outlive their limit), one that
\* is dropped has left none (if one executor serves the instance), and no drop
\* is tried without end.
THEOREM RowsTell == CopySpec => []RowsTellOfCopies
<1>1. CopyInit => CopiesAccounted
  BY CopiesStart DEF CopiesAccounted
<1>2. CopiesAccounted => RowsTellOfCopies
  BY GoneHolds, ReadyHolds, LimitHolds DEF CopiesAccounted, RowsTellOfCopies
<1> QED BY <1>1, <1>2, NextAccounted, PTL DEF CopySpec
=============================================================================
