------------------------------ MODULE MCUpkeep ------------------------------
(***************************************************************************)
(* What keeps itself going: the schedules of backups, the outbox of        *)
(* notifications, the alerts, the schema history and catalog, and the      *)
(* migrations of the metadata database.  They share nothing but the lock   *)
(* under which the passes of the first three run one after the other, so   *)
(* that each behaviour is of one of them.                                  *)
(***************************************************************************)
EXTENDS Schedules, Outbox, Alerts, SchemaHistory, Migrations

VARIABLE part

Star(n)  == [star |-> TRUE, lo |-> 0, hi |-> 0, step |-> n]
Only(n)  == [star |-> FALSE, lo |-> n, hi |-> n, step |-> 1]
When(m, dom, dow) == [minute |-> m, dom |-> dom, dow |-> dow]

\* Days of two minutes, months of three days, weeks of two.
Daily      == When({Only(1)}, {Star(1)}, {Star(1)})
EitherDay  == When({Only(0)}, {Only(1), Only(3)}, {Only(0)})
TooLong    == When({Only(2)}, {Star(1)}, {Star(1)})
NoSuchDay  == When({Only(0)}, {Only(4)}, {Star(1)})

Possible   == {Daily, EitherDay, TooLong}
Impossible == {NoSuchDay}

\* A share of 50 is within the first condition and beyond the second.
TwoConditions == {[metric |-> "share", cmp |-> "gte", than |-> 60],
                  [metric |-> "plain", cmp |-> "lt", than |-> 2]}
Measured(v, t) == [value |-> v, total |-> t]
ThreeSamples  == {Measured(1, 2), Measured(2, 2), Measured(2, 0)}

\* Version 2 has edited a released file and adds one that sorts before another.
SomeBuilds == <<1 :> "a" @@ 2 :> "b" @@ 4 :> "d", 1 :> "a" @@ 2 :> "e" @@ 3 :> "c" @@ 4 :> "d">>

\* The catalog alone, which changes more often.
Catalog == INSTANCE SchemaHistory WITH Kinds <- {"catalog"}, MaxChanges <- 2

vars == <<part, scheduleVars, outboxVars, alertVars, historyVars, migrationVars>>

Init ==
  /\ part \in {"schedules", "outbox", "alerts", "history", "catalog", "migrations"}
  /\ ScheduleInit /\ OutboxInit /\ AlertInit /\ HistoryInit /\ MigrationsInit
  /\ structure = CHOOSE s \in Structures : TRUE     \* either will do

SchedulesOnly  == part = "schedules" /\ UNCHANGED <<part, outboxVars, alertVars, historyVars, migrationVars>>
OutboxOnly     == part = "outbox" /\ UNCHANGED <<part, scheduleVars, alertVars, historyVars, migrationVars>>
AlertsOnly     == part = "alerts" /\ UNCHANGED <<part, scheduleVars, outboxVars, historyVars, migrationVars>>
HistoryOnly    == part = "history" /\ UNCHANGED <<part, scheduleVars, outboxVars, alertVars, migrationVars>>
CatalogOnly    == part = "catalog" /\ UNCHANGED <<part, scheduleVars, outboxVars, alertVars, migrationVars>>
MigrationsOnly == part = "migrations" /\ UNCHANGED <<part, scheduleVars, outboxVars, alertVars, historyVars>>

Next ==
  \/ SchedulesOnly /\ ScheduleNext
  \/ OutboxOnly /\ OutboxNext
  \/ AlertsOnly /\ AlertNext
  \/ HistoryOnly /\ HistoryNext
  \/ CatalogOnly /\ Catalog!HistoryNext
  \/ MigrationsOnly /\ MigrationsNext

\* The fairness of each module, in its behaviours: as a behaviour is of one
\* module, a condition of one and a condition of another are one condition.
Fairness ==
  /\ WF_vars(part = "schedules" /\ SaveSchedule /\ SchedulesOnly)
  /\ WF_vars(\/ part = "schedules" /\ PassSteps /\ SchedulesOnly
             \/ part = "outbox" /\ DispatchPending /\ OutboxOnly)
  /\ SF_vars(\/ part = "history" /\ (\E p \in Refreshers : RunDue(p)) /\ HistoryOnly
             \/ part = "catalog" /\ (\E p \in Refreshers : Catalog!RefreshDue(p)) /\ CatalogOnly)
  /\ \A r \in Replicas :
       /\ WF_vars(\/ part = "migrations" /\ MigrationStep(r) /\ MigrationsOnly
                  \/ part = "history" /\ r \in Refreshers /\ Step(r) /\ HistoryOnly
                  \/ part = "catalog" /\ r \in Refreshers /\ Catalog!Step(r) /\ CatalogOnly)
       /\ SF_vars(part = "migrations" /\ LockMigrations(r) /\ MigrationsOnly)

Spec == Init /\ [][Next]_vars /\ Fairness

---------------------------------------------------------------------------
(* Properties *)

\* The search comes to show the structure the database has.
CatalogCatchesUp == part = "catalog" => Catalog!SearchCatchesUp

\* What is announced, published and recorded did happen, and once.
UpkeepIsSound ==
  /\ NextIsEarliest /\ ChannelHasSecret /\ PublishedWasHeard /\ HeardIsBounded /\ AnnouncedOnce
  /\ ChangesAreReal /\ ChangesAreAnnounced /\ ServesComplete

\* What is due is done: slots, events, alerts, refreshes and upgrades.
UpkeepSettles ==
  DueIsAdvanced /\ OutboxDrains /\ FiresAfterHolding /\ HistoryCatchesUp /\ CatalogCatchesUp /\ UpgradeFinishes
===============================================================================
