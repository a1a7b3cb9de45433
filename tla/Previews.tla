-------------------------------- MODULE Previews --------------------------------
(***************************************************************************)
(* Previews of console scripts: the statements of a script run in one      *)
(* transaction that is rolled back, and what an UPDATE or DELETE of one    *)
(* table touches is sampled before and read again by key after it, while   *)
(* others commit.                                                          *)
(*                                                                         *)
(* Abstracted: a table maps keys to one value (0: no such row), a WHERE    *)
(* compares it; statements that only read; the text of a statement, but    *)
(* for what decides whether it is refused and whether it is sampled.       *)
(***************************************************************************)
EXTENDS Integers, Sequences, FiniteSets, FiniteSetsExt

CONSTANTS
  PreviewKeys, Values,
  Scripts,      \* of statements, see Statement; an empty one is refused
  SampleRows,   \* rows a sample shows
  MaxCommits    \* bound: commits of others

Tables == [PreviewKeys -> Values \cup {0}]
Statement == [kind : {"dml", "ddl"}, op : {"update", "delete", "move"}, match : Values, set : Values, limited : BOOLEAN]

ASSUME PreviewsAssumption ==
  /\ PreviewKeys \subseteq Nat /\ IsFiniteSet(PreviewKeys) /\ Values \subseteq Nat \ {0}
  /\ Scripts \subseteq Seq(Statement) \ {<<>>}
  /\ SampleRows \in Nat \ {0} /\ MaxCommits \in Nat

VARIABLES
  dbms,
  storage,     \* whether the table's engine can roll back
  committed,   \* the table
  real,        \* what others have made of it (history)
  script, at,  \* the preview's script, and the statement it is at
  step,        \* of the preview
  mine,        \* what its transaction sees, where it has changed a row
  changed,     \* the rows it has changed, and holds locks of
  snapshot,    \* what the transaction reads, on MySQL
  before,      \* the sample of the current statement
  results,
  commits

previewVars == <<dbms, storage, committed, real, script, at, step, mine, changed, snapshot, before, results, commits>>

Empty == [k \in PreviewKeys |-> 0]
NoSample == [on |-> FALSE, rows |-> {}, table |-> Empty, truncated |-> FALSE]

PreviewInit ==
  /\ dbms \in {"postgres", "mysql"} /\ storage \in (IF dbms = "mysql" THEN {"innodb", "myisam"} ELSE {"heap"})
  /\ committed \in Tables /\ real = committed
  /\ script \in Scripts /\ at = 1 /\ step = "check"
  /\ mine = Empty /\ changed = {} /\ snapshot = <<>> /\ before = NoSample /\ results = <<>> /\ commits = 0

\* What a DML statement works on, and what a SELECT of the same transaction
\* reads: on MySQL, others' rows as of the first read.
Current(k) == IF k \in changed THEN mine[k] ELSE committed[k]
Seen(k) == IF k \in changed THEN mine[k] ELSE IF dbms = "mysql" /\ snapshot # <<>> THEN snapshot[1][k] ELSE committed[k]

Matching(table, s) == {k \in PreviewKeys : table[k] = s.match}
Touched(table, s) == IF s.limited /\ Matching(table, s) # {} THEN {Min(Matching(table, s))} ELSE Matching(table, s)
TargetKey == Max(PreviewKeys)
\* A move gives the row another key, which must be free.
Possible(table, s) == s.op = "move" => Cardinality(Touched(table, s)) <= 1 /\ table[TargetKey] = 0
After(table, s) ==
  [k \in PreviewKeys |->
     IF k \in Touched(table, s) THEN (IF s.op = "update" THEN s.set ELSE 0)
     ELSE IF s.op = "move" /\ k = TargetKey /\ Touched(table, s) # {} THEN s.match ELSE table[k]]

Quiet == UNCHANGED <<dbms, storage, script>>
NoCommit == UNCHANGED <<committed, real, commits>>

---------------------------------------------------------------------------
(* The checks before anything runs *)

\* Mutant: what commits is previewed too.
BlockedNever(s) == FALSE
Blocked(s) == s.kind = "ddl"
CannotRollBack == storage = "myisam"

Check ==
  /\ step = "check"
  /\ step' = IF CannotRollBack \/ (\E i \in DOMAIN script : Blocked(script[i])) THEN "refused" ELSE "before"
  /\ UNCHANGED <<at, mine, changed, snapshot, before, results>> /\ NoCommit /\ Quiet

---------------------------------------------------------------------------
(* A statement: sampled, run and read again *)

S == script[at]

\* UPDATE and DELETE of one table with a WHERE: parseSingleTableDML.
Recognised(s) == s.kind = "dml" /\ ~s.limited

View == [k \in PreviewKeys |-> Seen(k)]
Sampled(rows) == {x \in SUBSET rows : Cardinality(x) = (IF Cardinality(rows) > SampleRows THEN SampleRows ELSE Cardinality(rows))}
Sample ==
  /\ step = "before" /\ step' = "run"
  /\ IF Recognised(S)
     THEN /\ snapshot' = (IF snapshot = <<>> THEN <<committed>> ELSE snapshot)
          /\ \E rows \in Sampled(Matching(View, S)) :
               before' = [on |-> TRUE, rows |-> rows, table |-> View, truncated |-> Cardinality(Matching(View, S)) > SampleRows]
     ELSE before' = NoSample /\ UNCHANGED snapshot
  /\ UNCHANGED <<at, mine, changed, results>> /\ NoCommit /\ Quiet

\* A sample that fails is left out; on PostgreSQL a savepoint keeps the rest.
SampleFails ==
  /\ step = "before" /\ Recognised(S) /\ step' = "run" /\ before' = NoSample
  /\ UNCHANGED <<at, mine, changed, snapshot, results>> /\ NoCommit /\ Quiet

\* A deadlock, which on MySQL has rolled back everything and ends the preview.
Aborted == mine' = Empty /\ changed' = {} /\ snapshot' = <<>>

SampleDeadlocks ==
  /\ step = "before" /\ Recognised(S) /\ dbms = "mysql" /\ step' = "failed" /\ before' = NoSample /\ Aborted
  /\ UNCHANGED <<at, results>> /\ NoCommit /\ Quiet

Now == [k \in PreviewKeys |-> Current(k)]
Run ==
  /\ step = "run" /\ Possible(Now, S)
  /\ LET after == After(Now, S)
         rows == {k \in PreviewKeys : after[k] # Now[k]} \cup Touched(Now, S)
         direct == storage = "myisam"             \* written at once
         commit == S.kind = "ddl" /\ dbms = "mysql"  \* commits what was done before
     IN /\ results' = Append(results, [count |-> Cardinality(Touched(Now, S)), touched |-> Touched(Now, S), was |-> Now, is |-> after,
                                       sample |-> before, rows |-> {}])
        /\ committed' = IF direct \/ commit THEN after ELSE committed
        /\ IF direct \/ commit THEN mine' = Empty /\ changed' = {}
           ELSE mine' = [k \in PreviewKeys |-> IF k \in rows THEN after[k] ELSE mine[k]] /\ changed' = changed \cup rows
        /\ snapshot' = IF commit THEN <<>> ELSE snapshot
  /\ step' = (IF before.on THEN "after" ELSE IF at < Len(script) THEN "before" ELSE "rollback")
  /\ at' = (IF before.on \/ at = Len(script) THEN at ELSE at + 1)
  /\ UNCHANGED <<before, real, commits>> /\ Quiet

\* It is refused, waits too long for a lock or is the victim of a deadlock.
RunFails ==
  /\ step = "run" /\ step' = "failed"
  /\ UNCHANGED <<at, mine, changed, snapshot, before, results>> /\ NoCommit /\ Quiet

\* Each sampled row by its key, as the transaction now sees it.
PreviewAfter ==
  /\ step = "after"
  /\ results' = [results EXCEPT ![Len(results)].rows = {[key |-> k, was |-> before.table[k], is |-> Seen(k)] : k \in before.rows}]
  /\ step' = (IF at < Len(script) THEN "before" ELSE "rollback") /\ at' = (IF at < Len(script) THEN at + 1 ELSE at)
  /\ before' = NoSample
  /\ UNCHANGED <<mine, changed, snapshot>> /\ NoCommit /\ Quiet

\* ROLLBACK, deferred too; the server does it when the connection is lost.
Rollback ==
  /\ step \in {"rollback", "failed"} /\ step' = IF step = "failed" THEN "error" ELSE "done"
  /\ Aborted /\ before' = NoSample
  /\ UNCHANGED <<at, results>> /\ NoCommit /\ Quiet
Lost ==
  /\ step \in {"before", "run", "after", "rollback", "failed"} /\ step' = "error" /\ Aborted /\ before' = NoSample
  /\ UNCHANGED <<at, results>> /\ NoCommit /\ Quiet

---------------------------------------------------------------------------

\* Others commit a change of a row that is not locked.
Others ==
  /\ commits < MaxCommits /\ commits' = commits + 1
  /\ \E k \in PreviewKeys \ changed, v \in Values \cup {0} :
       committed' = [committed EXCEPT ![k] = v] /\ real' = [real EXCEPT ![k] = v]
  /\ UNCHANGED <<at, step, mine, changed, snapshot, before, results>> /\ Quiet

PreviewNext ==
  \/ Check \/ Sample \/ SampleFails \/ SampleDeadlocks \/ Run \/ RunFails \/ PreviewAfter \/ Rollback \/ Lost
  \/ Others

PreviewSpec == PreviewInit /\ [][PreviewNext]_previewVars

---------------------------------------------------------------------------
(* Properties *)

\* A preview saves nothing, however it ends.
NothingSaved == committed = real

\* Its results are those of the script run statement after statement, when
\* nobody else changes the table: each finds what the one before it left.
CountsAreReal ==
  commits = 0 =>
    \A i \in DOMAIN results :
      /\ results[i].was = IF i = 1 THEN committed ELSE After(results[i - 1].was, script[i - 1])
      /\ results[i].count = Cardinality(Touched(results[i].was, script[i]))

\* The rows of a sample are rows the statement touched, as they were before
\* and after it; without commits of others, and where keys stay.
SamplesAreReal ==
  commits = 0 =>
    \A i \in DOMAIN results : \A r \in results[i].rows :
      script[i].op # "move" =>
        r.key \in results[i].touched /\ r.was = results[i].was[r.key] /\ r.is = results[i].is[r.key]

\* A preview saves nothing, and shows what the statement would do.
PreviewsAreHonest == NothingSaved /\ CountsAreReal /\ SamplesAreReal

\* The same whatever others commit.
SamplesAlwaysReal ==
  \A i \in DOMAIN results : \A r \in results[i].rows :
    script[i].op # "move" => r.key \in results[i].touched /\ r.was = results[i].was[r.key]

\* A sampled row that is shown as deleted was deleted.
GoneMeansDeleted ==
  \A i \in DOMAIN results : \A r \in results[i].rows : r.is = 0 => script[i].op = "delete"
=============================================================================
