------------------------------ MODULE Schedules ------------------------------
(***************************************************************************)
(* Backup schedules: cron expressions, and the housekeeping pass that      *)
(* turns due schedules into backups.                                       *)
(*                                                                         *)
(* A pass lists the due schedules under the housekeeping lock and takes    *)
(* them one at a time: the next run is written first, computed from the    *)
(* row as listed, then the backup is triggered.  Users create, change and  *)
(* delete schedules meanwhile; a change reads the row, computes the next   *)
(* run and writes it.                                                      *)
(*                                                                         *)
(* Time is counted in minutes from 1, Never being the zero time.  A day    *)
(* has DayLength minutes, a month MonthLength days, a week WeekLength; the *)
(* minute field stands for minute, hour and month, which are matched       *)
(* alike.  Abstracted: the database, the destination, retention.           *)
(***************************************************************************)
EXTENDS Integers, FiniteSets

CONSTANTS
  Plans,        \* schedule ids
  Workers,      \* replicas that keep house
  Exprs,        \* the cron expressions users write
  DayLength, MonthLength, WeekLength,
  DomLimit,     \* the largest day of month parseField accepts
  SearchLimit,  \* how far Next looks
  Horizon,      \* bound: the last minute
  MaxLosses,    \* bound: processes that die in a pass, statements that fail
  MaxRuns       \* bound: backups triggered

Never == 0   \* the zero time
Null  == -1
Time  == 0 .. Horizon + SearchLimit

\* A part of a field: lo-hi/step or */step; a field is a set of parts, an
\* expression has three of them.
Part == [star : BOOLEAN, lo : Int, hi : Int, step : Nat]
Expr == [minute : SUBSET Part, dom : SUBSET Part, dow : SUBSET Part]

ASSUME ScheduleAssumption ==
  /\ DayLength \in Nat \ {0} /\ MonthLength \in Nat \ {0} /\ WeekLength \in Nat \ {0}
  /\ DomLimit \in Nat /\ MonthLength <= DomLimit /\ SearchLimit \in Nat \ {0}
  /\ Horizon \in Nat \ {0} /\ MaxLosses \in Nat /\ MaxRuns \in Nat
  /\ Exprs \subseteq Expr /\ "nobody" \notin Workers

VARIABLES
  clock,  \* the minute it is
  plan,   \* the backup_schedules table
  edit,   \* a user's change between its reading and its writing of a row
  keeper, \* the worker in a pass: it holds the housekeeping lock
  due,    \* the rows the pass has listed and not yet taken
  taken,  \* the row it has advanced and is about to trigger
  runs,   \* the backups triggered: the slot that was due, and when
  losses

scheduleVars == <<clock, plan, edit, keeper, due, taken, runs, losses>>

---------------------------------------------------------------------------
(* cron *)

\* parseField refuses a step of zero and what is out of bounds.
ValidPart(p, min, max) ==
  p.step > 0 /\ (p.star \/ (min <= p.lo /\ p.hi <= max /\ p.lo <= p.hi))

FieldValues(field, min, max) ==
  UNION {LET lo == IF p.star THEN min ELSE p.lo
             hi == IF p.star THEN max ELSE p.hi
         IN  {v \in lo .. hi : (v - lo) % p.step = 0} : p \in field}

Parses(e) ==
  /\ \A p \in e.minute : ValidPart(p, 0, DayLength - 1)
  /\ \A p \in e.dom : ValidPart(p, 1, DomLimit)
  /\ \A p \in e.dow : ValidPart(p, 0, WeekLength - 1)

\* A field that is exactly "*".
IsStar(field) == \E p \in field : field = {p} /\ p.star /\ p.step = 1

\* When both day fields are restricted a match on either is enough.
Matches(e, t) ==
  LET day == t \div DayLength
      dom == (day % MonthLength) + 1 \in FieldValues(e.dom, 1, DomLimit)
      dow == day % WeekLength \in FieldValues(e.dow, 0, WeekLength - 1)
  IN  /\ t % DayLength \in FieldValues(e.minute, 0, DayLength - 1)
      /\ \/ IsStar(e.dom) /\ (IsStar(e.dow) \/ dow)
         \/ ~IsStar(e.dom) /\ IsStar(e.dow) /\ dom
         \/ ~IsStar(e.dom) /\ ~IsStar(e.dow) /\ (dom \/ dow)

\* The earliest match strictly after t, or the zero time.
NextRun(e, t) ==
  LET found == {u \in t + 1 .. t + SearchLimit : Matches(e, u)}
  IN  IF found = {} THEN Never ELSE CHOOSE u \in found : \A v \in found : u <= v

---------------------------------------------------------------------------
Absent  == [there |-> FALSE]
NoRow   == [id |-> "none"]
PlanRow == [there : {TRUE}, expr : Exprs, enabled : BOOLEAN, next : Time \cup {Null}]

\* The row of a schedule that is written at the present minute.
Row(e, enabled) ==
  [there |-> TRUE, expr |-> e, enabled |-> enabled,
   next |-> IF enabled THEN NextRun(e, clock) ELSE Null]

ScheduleInit ==
  /\ clock = 1
  /\ plan = [p \in Plans |-> Absent]
  /\ edit = NoRow /\ taken = NoRow
  /\ keeper = "nobody" /\ due = {}
  /\ runs = {}
  /\ losses = 0

\* The statements of the repository; an update finds no row once it is deleted.
InsertPlan(p, row) == ~plan[p].there /\ plan' = [plan EXCEPT ![p] = row]

UpdatePlan(p, row) == plan' = IF plan[p].there THEN [plan EXCEPT ![p] = row] ELSE plan

RemovePlan(p) == plan[p].there /\ plan' = [plan EXCEPT ![p] = Absent]

\* The handlers: a request that does not mention the switch, a change too,
\* turns the schedule on.
Enabled(switch) == switch # "off"

CreateSchedule(p, e, switch) ==
  /\ Parses(e)
  /\ InsertPlan(p, Row(e, Enabled(switch)))
  /\ UNCHANGED <<clock, edit, keeper, due, taken, runs, losses>>

\* Update: the row is read and checked, the next run computed...
UpdateSchedule(p, e, switch) ==
  /\ edit = NoRow /\ plan[p].there /\ Parses(e)
  /\ edit' = [id |-> p, row |-> Row(e, Enabled(switch))]
  /\ UNCHANGED <<clock, plan, keeper, due, taken, runs, losses>>

\* ... and written, unless the schedule was deleted meanwhile.
SaveSchedule ==
  /\ edit # NoRow
  /\ UpdatePlan(edit.id, edit.row)
  /\ edit' = NoRow
  /\ UNCHANGED <<clock, keeper, due, taken, runs, losses>>

DeleteSchedule(p) ==
  /\ RemovePlan(p)
  /\ UNCHANGED <<clock, edit, keeper, due, taken, runs, losses>>

IsDue(p) ==
  plan[p].there /\ plan[p].enabled /\ plan[p].next # Null /\ plan[p].next <= clock

\* RunDue, under the lock.
ListDueSchedules(w) ==
  /\ keeper = "nobody" /\ \E p \in Plans : IsDue(p)
  /\ keeper' = w
  /\ due' = {[id |-> p, row |-> plan[p], at |-> clock] : p \in {q \in Plans : IsDue(q)}}
  /\ UNCHANGED <<clock, plan, edit, taken, runs, losses>>

\* Mutant: the run after the slot, so that what was missed is caught up with.
AdvanceFromSlot(d) == NextRun(d.row.expr, d.row.next)

AdvanceAfter(d) == NextRun(d.row.expr, d.at)

\* MarkRun writes the next run and nothing else, whatever the row is now.
MarkRun(d) ==
  plan' = IF plan[d.id].there THEN [plan EXCEPT ![d.id].next = AdvanceAfter(d)] ELSE plan

\* The next run is written before the backup is triggered.
AdvanceSchedule(d) ==
  /\ d \in due /\ taken = NoRow
  /\ due' = due \ {d}
  /\ taken' = d
  /\ MarkRun(d)
  /\ UNCHANGED <<clock, edit, keeper, runs, losses>>

\* The statement fails: the schedule stays due.
AdvanceFails(d) ==
  /\ d \in due /\ taken = NoRow /\ losses < MaxLosses
  /\ due' = due \ {d}
  /\ losses' = losses + 1
  /\ UNCHANGED <<clock, plan, edit, keeper, taken, runs>>

\* TriggerScheduled, which may fail: the slot is lost.
TriggerBackup(ok) ==
  /\ taken # NoRow
  /\ ok => Cardinality(runs) < MaxRuns
  /\ runs' = IF ok /\ plan[taken.id].there
               THEN runs \cup {[id |-> taken.id, slot |-> taken.row.next, at |-> taken.at,
                                n |-> Cardinality(runs)]}
               ELSE runs
  /\ taken' = NoRow
  /\ UNCHANGED <<clock, plan, edit, keeper, due, losses>>

EndPass ==
  /\ keeper # "nobody" /\ due = {} /\ taken = NoRow
  /\ keeper' = "nobody"
  /\ UNCHANGED <<clock, plan, edit, due, taken, runs, losses>>

\* The process dies in its pass; the lock goes with its connection.
KeeperDies ==
  /\ keeper # "nobody" /\ losses < MaxLosses
  /\ keeper' = "nobody" /\ due' = {} /\ taken' = NoRow
  /\ losses' = losses + 1
  /\ UNCHANGED <<clock, plan, edit, runs>>

\* A minute passes; a change takes less than that, a pass may take longer.
MinutePasses ==
  /\ clock < Horizon /\ edit = NoRow
  /\ clock' = clock + 1
  /\ UNCHANGED <<plan, edit, keeper, due, taken, runs, losses>>

PassSteps ==
  \/ \E w \in Workers : ListDueSchedules(w)
  \/ \E d \in due : AdvanceSchedule(d) \/ AdvanceFails(d)
  \/ \E ok \in BOOLEAN : TriggerBackup(ok)
  \/ EndPass

ScheduleNext ==
  \/ \E p \in Plans, e \in Exprs, switch \in {"on", "off", "unsaid"} :
       CreateSchedule(p, e, switch) \/ UpdateSchedule(p, e, switch)
  \/ SaveSchedule
  \/ \E p \in Plans : DeleteSchedule(p)
  \/ PassSteps \/ KeeperDies \/ MinutePasses

ScheduleSpec == ScheduleInit /\ [][ScheduleNext]_scheduleVars

\* Housekeeping runs once a minute on some replica, and requests end.
ScheduleFairness == WF_scheduleVars(PassSteps) /\ WF_scheduleVars(SaveSchedule)

---------------------------------------------------------------------------
(* Properties *)

\* A schedule never runs twice for one slot, and after a stop it runs once,
\* not for every slot it missed: each run's slot is later than the run before.
NoSlotTwice ==
  \A a, b \in runs : a.id = b.id /\ a # b => a.slot > b.at \/ b.slot > a.at

\* A due schedule is advanced past the present, is changed or removed; it can
\* neither stay due for ever nor hold up the others.
DueIsAdvanced == \A p \in Plans : IsDue(p) ~> ~IsDue(p)

\* Cron's meaning, by days: restricted day fields are joined, others meet.
Names(e, t) ==
  LET day  == t \div DayLength
      doms == FieldValues(e.dom, 1, DomLimit)
      dows == FieldValues(e.dow, 0, WeekLength - 1)
      dom  == (day % MonthLength) + 1 \in doms
      dow  == day % WeekLength \in dows
  IN  /\ t % DayLength \in FieldValues(e.minute, 0, DayLength - 1)
      /\ IF ~IsStar(e.dom) /\ ~IsStar(e.dow) THEN dom \/ dow ELSE dom /\ dow

\* The next run a change writes is a minute its expression names, and it
\* passes over none.
NextIsEarliest ==
  edit # NoRow /\ edit.row.enabled =>
    /\ \A u \in clock + 1 .. clock + SearchLimit :
         Names(edit.row.expr, u) => edit.row.next \in clock + 1 .. u
    /\ edit.row.next # Never => Names(edit.row.expr, edit.row.next)

\* An expression no minute matches never runs: Next "guards against impossible
\* expressions".
ImpossibleNeverRuns == \A r \in runs : r.slot # Never
==============================================================================
