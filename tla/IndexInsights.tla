---------------------------- MODULE IndexInsights ----------------------------
(***************************************************************************)
(* The indexes of a table that the dashboard says are worth dropping, and  *)
(* the user who drops them.                                                *)
(*                                                                         *)
(* A report reads the indexes and how often each was used; its analysis    *)
(* finds the redundant and the unused ones.  They are dropped one after    *)
(* the other by the statements the report gives, while the server goes on  *)
(* answering lookups from whichever index can.                             *)
(*                                                                         *)
(* Abstracted: sizes; counts are "never" or not; one table.                *)
(***************************************************************************)
EXTENDS Integers, Sequences, FiniteSets, SequencesExt

CONSTANTS
  IndexSets,   \* sets of indexes the runs begin with
  DropsUnused, \* whether the user also drops the indexes reported as unused
  MaxReports   \* bound: reports

ASSUME IndexInsightsAssumption == DropsUnused \in BOOLEAN /\ MaxReports \in Nat

VARIABLES
  indexes,   \* the indexes there are
  before,    \* those there were
  used,      \* the names of indexes that were used since statistics began
  findings,  \* the report: names of redundant, unused and used indexes
  reports

indexVars == <<indexes, before, used, findings, reports>>

IndexesInit ==
  /\ indexes \in IndexSets /\ before = indexes /\ used = {}
  /\ findings = [redundant |-> {}, unused |-> {}, used |-> {}] /\ reports = 0

---------------------------------------------------------------------------
(* AnalyzeIndexes *)

\* Of indexes whose columns say what they cover.
Comparable(a, b) == a.name # b.name /\ ~b.partial /\ ~b.expression /\ a.method = b.method

\* Whether b makes a unnecessary: the same columns, or columns that a's are a
\* prefix of; of twins the primary key is kept, else the first by name.
Covers(a, b) ==
  \/ a.columns = b.columns /\ IF a.unique = b.unique THEN b.primary \/ (~a.primary /\ a.name > b.name) ELSE b.unique
  \/ Len(a.columns) < Len(b.columns) /\ IsPrefix(a.columns, b.columns) /\ ~a.unique

Redundant(ixs) == {a \in ixs : /\ ~a.primary /\ ~a.partial /\ ~a.expression /\ a.columns # <<>>
                               /\ \E b \in ixs : Comparable(a, b) /\ Covers(a, b)}

\* Never used, and not there for its uniqueness.
Unused(ixs) == {a \in ixs : ~a.unique /\ ~a.primary /\ a.name \notin used} \ Redundant(ixs)

\* IndexReport, and its analysis.
Report ==
  /\ reports < MaxReports /\ reports' = reports + 1
  /\ findings' = [redundant |-> {a.name : a \in Redundant(indexes)}, unused |-> {a.name : a \in Unused(indexes)},
                 used |-> used]
  /\ UNCHANGED <<indexes, before, used>>

\* The user runs the statement of a finding.
DropIndex(n) ==
  /\ n \in findings.redundant \/ (DropsUnused /\ n \in findings.unused)
  /\ indexes' = {a \in indexes : a.name # n}
  /\ findings' = [findings EXCEPT !.redundant = @ \ {n}, !.unused = @ \ {n}]
  /\ UNCHANGED <<before, used, reports>>

---------------------------------------------------------------------------
(* The server *)

\* An index that answers the lookups of another: by a leftmost prefix, but a
\* text or a hash index only when the columns are the same.
Answers(b, a) == IF a = b THEN TRUE
  ELSE /\ ~b.partial /\ ~b.expression /\ ~a.partial /\ ~a.expression /\ a.method = b.method
       /\ IF a.method = "btree" THEN IsPrefix(a.columns, b.columns) ELSE a.columns = b.columns

\* A lookup that an index was made for is answered from an index.
Lookup(a) ==
  /\ a \in before
  /\ \E b \in indexes : Answers(b, a) /\ used' = used \cup {b.name}
  /\ UNCHANGED <<indexes, before, findings, reports>>

IndexesNext ==
  \/ Report
  \/ \E a \in before : DropIndex(a.name) \/ Lookup(a)

IndexesSpec == IndexesInit /\ [][IndexesNext]_indexVars

---------------------------------------------------------------------------
(* Properties *)

\* "the longer index answers the same lookups" (insights.go:79): when all
\* redundant indexes of a report are dropped, whichever first, each index
\* there was still has one that answers its lookups.
LookupsAnswered == \A a \in before : \E b \in indexes : Answers(b, a)

\* Not so, when unused indexes are dropped too: an index that was in use when
\* the report was made has one that answers its lookups.
UsedAnswered == \A a \in before : a.name \in findings.used => \E b \in indexes : Answers(b, a)

\* "uniqueness and the predicate are behaviour, not just speed": what was
\* unique is, and the primary key and partial indexes are there.
UniquenessKept == \A a \in before :
  /\ a.unique => \E b \in indexes : b.unique /\ b.columns = a.columns /\ b.partial = a.partial
  /\ a.primary \/ (a.partial /\ ~DropsUnused) => a \in indexes
=============================================================================
