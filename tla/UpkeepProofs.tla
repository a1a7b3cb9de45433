---------------------------- MODULE UpkeepProofs ----------------------------
(***************************************************************************)
(* Proofs about what keeps itself going: the migrations of the metadata    *)
(* database, the schedules of backups, the outbox of notifications, the    *)
(* alerts, and the schema history; and what is so of all of them together. *)
(***************************************************************************)
EXTENDS MCUpkeep, FiniteSetTheorems, WellFoundedInduction, TLAPS

LEMMA LowestOf ==
  ASSUME NEW S, S \subseteq Nat, S # {}
  PROVE  \E p \in S : \A q \in S : p <= q
<1> DEFINE Less == {ss \in Nat \X Nat : ss[1] < ss[2]}
<1>1. IsWellFoundedOn(Less, Nat)
  BY NatLessThanWellFounded DEF OpToRel
<1> HIDE DEF Less
<1>2. PICK p \in S : \A q \in S : <<q, p>> \notin Less
  BY <1>1, WFMin
<1>3. ASSUME NEW q \in S PROVE p <= q
  <2>1. p \in Nat /\ q \in Nat
    OBVIOUS
  <2>2. q < p => <<q, p>> \in Less
    BY <2>1 DEF Less
  <2> QED BY <1>2, <2>1, <2>2
<1> QED BY <1>3

---------------------------------------------------------------------------
(* Migrations.  A file takes effect in the transaction that records it, so *)
(* that the two tables tell the same story whoever holds the lock.         *)

Contents == UNION {{Builds[v][n] : n \in DOMAIN Builds[v]} : v \in DOMAIN Builds}
Marks == Contents \cup {Unknown, Unstamped}

Replica == [at : {"stopped", "checking", "locking", "loading", "applying", "serving"},
            applied : {<<>>} \cup [FileNames -> Marks], left : SUBSET FileNames]

MigrationsTypeOK ==
  /\ history \in [FileNames -> Marks]
  /\ effects \in [FileNames -> Seq(Contents)]
  /\ installed \in [Replicas -> DOMAIN Builds]
  /\ starting \in [Replicas -> Replica]

\* What a replica has still to apply is of its own build.
LeftIsBuilt == \A r \in Replicas : starting[r].left \subseteq DOMAIN Builds[installed[r]]

\* The history and the effects agree on a file.
Tracked(n) ==
  \/ history[n] = Unknown /\ effects[n] = <<>>
  \/ history[n] # Unknown /\ Len(effects[n]) = 1

MigrationsInv == MigrationsTypeOK /\ LeftIsBuilt /\ \A n \in FileNames : Tracked(n)

LEMMA LatestIsLast ==
  ASSUME MigrationsAssumption
  PROVE  Latest = Len(Builds) /\ 1 \in DOMAIN Builds
<1> DEFINE last == Len(Builds)
<1>1. last \in Nat \ {0} /\ DOMAIN Builds = 1 .. last
  BY DEF MigrationsAssumption
<1>2. Latest = CHOOSE x \in 1 .. last : \A y \in 1 .. last : x >= y
  BY <1>1 DEF Latest, Max
<1> HIDE DEF last
<1>3. last \in 1 .. last /\ \A y \in 1 .. last : last >= y
  BY <1>1
<1>4. Latest = last
  BY <1>1, <1>2, <1>3
<1> QED BY <1>1, <1>4 DEF last

LEMMA BuiltFiles ==
  ASSUME NEW v \in DOMAIN Builds
  PROVE  /\ DOMAIN Builds[v] \subseteq FileNames
         /\ \A n \in DOMAIN Builds[v] : Builds[v][n] \in Contents
BY DEF FileNames, Contents

LEMMA OneEffect ==
  ASSUME NEW c
  PROVE  Len(<<c>>) = 1 /\ <<c>> # <<>> /\ Len(<<>>) = 0
OBVIOUS

LEMMA InitMigrations ==
  ASSUME MigrationsAssumption, MigrationsInit
  PROVE  MigrationsInv
<1>1. 1 \in DOMAIN Builds
  BY LatestIsLast
<1>2. Recorded \subseteq FileNames /\ \A n \in Recorded : Builds[1][n] \in Contents
  BY <1>1, BuiltFiles DEF MigrationsAssumption
<1>3. \A n \in FileNames :
        /\ history[n] = IF n \in Recorded THEN Unstamped ELSE Unknown
        /\ effects[n] = IF n \in Recorded THEN <<Builds[1][n]>> ELSE <<>>
  BY DEF MigrationsInit
<1>4. effects \in [FileNames -> Seq(Contents)]
  BY <1>2 DEF MigrationsInit
<1>5. MigrationsTypeOK
  BY <1>1, <1>4 DEF MigrationsInit, MigrationsTypeOK, Marks, Replica, Stopped
<1>6. LeftIsBuilt
  BY DEF MigrationsInit, LeftIsBuilt, Stopped
<1>7. ASSUME NEW n \in FileNames PROVE Tracked(n)
  <2>1. CASE n \in Recorded
    BY <1>3, <2>1, OneEffect DEF Tracked, Unknown, Unstamped
  <2>2. CASE n \notin Recorded
    BY <1>3, <2>2 DEF Tracked
  <2> QED BY <2>1, <2>2
<1> QED BY <1>5, <1>6, <1>7 DEF MigrationsInv

\* A step by which a replica moves on.
LEMMA Going ==
  ASSUME MigrationsInv, NEW r \in Replicas, NEW at \in {"stopped", "checking", "locking", "loading", "serving"}, Go(r, at)
  PROVE  /\ starting' \in [Replicas -> Replica]
         /\ starting'[r].left = {} /\ starting'[r].at = at
         /\ \A q \in Replicas \ {r} : starting'[q] = starting[q]
BY DEF MigrationsInv, MigrationsTypeOK, Go, Stopped, Replica

\* The file a replica takes next is of its build.
LEMMA NextFile ==
  ASSUME MigrationsAssumption, MigrationsInv, NEW r \in Replicas, starting[r].left # {}
  PROVE  /\ Min(starting[r].left) \in starting[r].left
         /\ Min(starting[r].left) \in FileNames /\ Min(starting[r].left) \in DOMAIN Builds[installed[r]]
         /\ Builds[installed[r]][Min(starting[r].left)] \in Contents \ {Unknown, Unstamped}
<1>1. installed[r] \in DOMAIN Builds /\ starting[r].left \subseteq DOMAIN Builds[installed[r]]
  BY DEF MigrationsInv, MigrationsTypeOK, LeftIsBuilt
<1>2. starting[r].left \subseteq Nat
  BY <1>1 DEF MigrationsAssumption
<1>3. Min(starting[r].left) \in starting[r].left
  BY <1>2, LowestOf DEF Min
<1> QED BY <1>1, <1>3, BuiltFiles DEF MigrationsAssumption

LEMMA LeftShrinks ==
  ASSUME MigrationsInv, NEW r \in Replicas, NEW n, starting' = [starting EXCEPT ![r].left = @ \ {n}]
  PROVE  /\ starting' \in [Replicas -> Replica]
         /\ starting'[r].left = starting[r].left \ {n}
         /\ starting'[r].at = starting[r].at /\ starting'[r].applied = starting[r].applied
         /\ \A q \in Replicas \ {r} : starting'[q] = starting[q]
BY DEF MigrationsInv, MigrationsTypeOK, Replica

\* One file, whether it is applied, stamped or refused.
LEMMA ApplyKeeps ==
  ASSUME MigrationsAssumption, MigrationsInv, NEW r \in Replicas, Apply(r)
  PROVE  MigrationsInv'
<1> DEFINE n == Min(starting[r].left)
           c == Builds[installed[r]][n]
<1>1. n \in starting[r].left /\ n \in FileNames /\ c \in Contents /\ c \notin {Unknown, Unstamped}
  BY NextFile DEF Apply
<1>2. UNCHANGED installed
  BY DEF Apply
<1>3. CASE history[n] = Unknown /\ starting[r].applied[n] = Unknown
  <2>1. /\ history' = [history EXCEPT ![n] = c]
        /\ effects' = [effects EXCEPT ![n] = Append(@, c)]
        /\ starting' = [starting EXCEPT ![r].left = @ \ {n}]
    BY <1>3 DEF Apply, Insert
  <2> HIDE DEF n, c
  <2>2. effects[n] = <<>>
    BY <1>1, <1>3 DEF MigrationsInv, Tracked
  <2>3. effects'[n] = <<c>> /\ history'[n] = c
    BY <1>1, <2>1, <2>2 DEF MigrationsInv, MigrationsTypeOK
  <2>4. \A m \in FileNames \ {n} : history'[m] = history[m] /\ effects'[m] = effects[m]
    BY <2>1 DEF MigrationsInv, MigrationsTypeOK
  <2>5. ASSUME NEW m \in FileNames PROVE Tracked(m)'
    <3>1. CASE m = n
      BY <1>1, <2>3, <3>1, OneEffect DEF Tracked
    <3>2. CASE m # n
      BY <2>4, <3>2 DEF MigrationsInv, Tracked
    <3> QED BY <3>1, <3>2
  <2>6. MigrationsTypeOK'
    <3>1. history' \in [FileNames -> Marks]
      BY <1>1, <2>1 DEF MigrationsInv, MigrationsTypeOK, Marks
    <3>2. <<c>> \in Seq(Contents)
      BY <1>1
    <3>3. effects' = [effects EXCEPT ![n] = <<c>>]
      BY <2>1, <2>2 DEF MigrationsInv, MigrationsTypeOK
    <3>4. effects' \in [FileNames -> Seq(Contents)]
      BY <3>2, <3>3 DEF MigrationsInv, MigrationsTypeOK
    <3>5. starting' \in [Replicas -> Replica]
      BY <2>1, LeftShrinks
    <3> QED BY <1>2, <3>1, <3>4, <3>5 DEF MigrationsInv, MigrationsTypeOK
  <2>7. LeftIsBuilt'
    BY <1>2, <2>1 DEF MigrationsInv, MigrationsTypeOK, LeftIsBuilt, Replica
  <2> QED BY <2>5, <2>6, <2>7 DEF MigrationsInv
<1>4. CASE history[n] # Unknown /\ starting[r].applied[n] = Unknown
  <2>1. Go(r, "stopped") /\ UNCHANGED <<history, effects>>
    BY <1>4 DEF Apply, Insert, Fails
  <2> QED BY <1>2, <2>1, Going DEF MigrationsInv, MigrationsTypeOK, LeftIsBuilt, Tracked
<1>5. CASE starting[r].applied[n] # Unknown
  <2>1. /\ history' = [history EXCEPT ![n] = IF @ = Unstamped THEN c ELSE @]
        /\ starting' = [starting EXCEPT ![r].left = @ \ {n}]
        /\ UNCHANGED effects
    BY <1>5 DEF Apply
  <2> HIDE DEF n, c
  <2>2. \A m \in FileNames : history'[m] = Unknown <=> history[m] = Unknown
    BY <1>1, <2>1 DEF MigrationsInv, MigrationsTypeOK, Unknown, Unstamped
  <2>3. \A m \in FileNames : Tracked(m)'
    BY <2>1, <2>2 DEF MigrationsInv, Tracked
  <2>4. MigrationsTypeOK'
    <3>1. history' \in [FileNames -> Marks]
      BY <1>1, <2>1 DEF MigrationsInv, MigrationsTypeOK, Marks
    <3>2. starting' \in [Replicas -> Replica]
      BY <2>1, LeftShrinks
    <3> QED BY <1>2, <2>1, <3>1, <3>2 DEF MigrationsInv, MigrationsTypeOK
  <2>5. LeftIsBuilt'
    BY <1>2, <2>1 DEF MigrationsInv, MigrationsTypeOK, LeftIsBuilt, Replica
  <2> QED BY <2>3, <2>4, <2>5 DEF MigrationsInv
<1> QED BY <1>3, <1>4, <1>5

LEMMA LoadKeeps ==
  ASSUME MigrationsAssumption, MigrationsInv, NEW r \in Replicas, Load(r)
  PROVE  MigrationsInv'
<1>1. UNCHANGED <<history, effects, installed>>
  BY DEF Load
<1>2. CASE Go(r, "stopped")
  BY <1>1, <1>2, Going DEF MigrationsInv, MigrationsTypeOK, LeftIsBuilt, Tracked
<1>3. CASE starting' = [starting EXCEPT ![r] = [at |-> "applying", applied |-> history, left |-> EmbeddedMigrations(r)]]
  <2>1. EmbeddedMigrations(r) = DOMAIN Builds[installed[r]] /\ EmbeddedMigrations(r) \in SUBSET FileNames
    BY BuiltFiles DEF EmbeddedMigrations, MigrationsInv, MigrationsTypeOK
  <2>2. [at |-> "applying", applied |-> history, left |-> EmbeddedMigrations(r)] \in Replica
    BY <2>1 DEF Replica, MigrationsInv, MigrationsTypeOK
  <2>3. starting' \in [Replicas -> Replica]
    BY <1>3, <2>2 DEF MigrationsInv, MigrationsTypeOK
  <2>4. LeftIsBuilt'
    BY <1>1, <1>3, <2>1 DEF MigrationsInv, MigrationsTypeOK, LeftIsBuilt
  <2> QED BY <1>1, <2>3, <2>4 DEF MigrationsInv, MigrationsTypeOK, Tracked
<1> QED BY <1>2, <1>3 DEF Load, Fails

LEMMA UpgradeKeeps ==
  ASSUME MigrationsAssumption, MigrationsInv, NEW r \in Replicas, Upgrade(r)
  PROVE  MigrationsInv'
<1>1. PICK v \in installed[r] + 1 .. Latest : installed' = [installed EXCEPT ![r] = v]
  BY DEF Upgrade
<1>2. v \in DOMAIN Builds
  BY <1>1, LatestIsLast DEF MigrationsAssumption, MigrationsInv, MigrationsTypeOK
<1>3. Go(r, "stopped") /\ UNCHANGED <<history, effects>>
  BY DEF Upgrade, Fails
<1>4. starting' \in [Replicas -> Replica] /\ LeftIsBuilt'
  BY <1>1, <1>3, Going DEF MigrationsInv, MigrationsTypeOK, LeftIsBuilt
<1> QED BY <1>1, <1>2, <1>3, <1>4 DEF MigrationsInv, MigrationsTypeOK, Tracked

LEMMA NextMigrations ==
  ASSUME MigrationsAssumption, MigrationsInv, [MigrationsNext]_migrationVars
  PROVE  MigrationsInv'
<1>1. CASE \E r \in Replicas : Start(r) \/ LockMigrations(r) \/ Migrated(r) \/ CheckSchema(r) \/ Crash(r)
  <2>1. PICK r \in Replicas : Start(r) \/ LockMigrations(r) \/ Migrated(r) \/ CheckSchema(r) \/ Crash(r)
    BY <1>1
  <2>2. /\ UNCHANGED <<history, effects, installed>>
        /\ \E at \in {"stopped", "checking", "locking", "loading", "serving"} : Go(r, at)
    BY <2>1 DEF Start, LockMigrations, Migrated, CheckSchema, Crash, Fails
  <2> QED BY <2>2, Going DEF MigrationsInv, MigrationsTypeOK, LeftIsBuilt, Tracked
<1>2. CASE LoseLock \/ UNCHANGED migrationVars
  BY <1>2 DEF LoseLock, migrationVars, MigrationsInv, MigrationsTypeOK, LeftIsBuilt, Tracked
<1> QED BY <1>1, <1>2, LoadKeeps, ApplyKeeps, UpgradeKeeps DEF MigrationsNext, MigrationStep

LEMMA MigrationsInvariant ==
  MigrationsSpec => []MigrationsInv
<1>1. MigrationsInit => MigrationsInv
  BY InitMigrations, MigrationsAssumption
<1>2. MigrationsInv /\ [MigrationsNext]_migrationVars => MigrationsInv'
  BY NextMigrations, MigrationsAssumption
<1> QED BY <1>1, <1>2, PTL DEF MigrationsSpec

\* "Each migration is applied exactly once" (Migrate), for any replicas, builds
\* and mishaps, also when the lock is lost while it is needed.
THEOREM MigrationsOnce ==
  MigrationsSpec => []AppliedOnce
<1>1. MigrationsInv => AppliedOnce
  <2> SUFFICES ASSUME MigrationsInv, NEW n \in FileNames
               PROVE  Len(effects[n]) <= 1 /\ (effects[n] # <<>>) = (history[n] # Unknown)
    BY DEF AppliedOnce
  <2>1. CASE history[n] = Unknown /\ effects[n] = <<>>
    BY <2>1, OneEffect
  <2>2. CASE history[n] # Unknown /\ Len(effects[n]) = 1
    <3>1. effects[n] # <<>>
      BY <2>2, OneEffect
    <3> QED BY <2>2, <3>1
  <2> QED BY <2>1, <2>2 DEF MigrationsInv, Tracked
<1> QED BY <1>1, MigrationsInvariant, PTL

---------------------------------------------------------------------------
(* A replica serves on the files it knows.                                 *)

\* Files that were applied before there were checksums have not been edited:
\* their rows are stamped with whatever the build that finds them embeds.
RecordedUnedited ==
  \A v \in DOMAIN Builds : \A n \in Recorded \cap DOMAIN Builds[v] : Builds[v][n] = Builds[1][n]

\* A checksum is that of the contents that took effect.
Stamped(n) ==
  /\ history[n] = Unstamped => n \in Recorded /\ effects[n] = <<Builds[1][n]>>
  /\ history[n] \notin {Unknown, Unstamped} => effects[n] = <<history[n]>>

Done(r, n) == effects[n] = <<Builds[installed[r]][n]>>

\* What a replica has behind it, and what it loaded as applied, took effect.
Prepared(r) ==
  \A n \in DOMAIN Builds[installed[r]] :
    /\ starting[r].at = "serving" => Done(r, n)
    /\ starting[r].at = "applying" /\ (n \notin starting[r].left \/ starting[r].applied[n] # Unknown) => Done(r, n)

ServingInv ==
  /\ MigrationsInv
  /\ \A n \in FileNames : Stamped(n)
  /\ \A r \in Replicas : Prepared(r)

\* A replica that finds the history in order finds its own contents in it.
LEMMA InOrder ==
  ASSUME MigrationsAssumption, RecordedUnedited, ServingInv, NEW r \in Replicas, CheckHistory(installed[r], history),
         NEW n \in DOMAIN Builds[installed[r]], history[n] # Unknown
  PROVE  Done(r, n)
<1>1. installed[r] \in DOMAIN Builds /\ n \in FileNames
  BY BuiltFiles DEF ServingInv, MigrationsInv, MigrationsTypeOK
<1>2. history[n] \in {Unstamped, Builds[installed[r]][n]}
  BY <1>1 DEF CheckHistory
<1>3. CASE history[n] = Unstamped
  BY <1>1, <1>3 DEF ServingInv, Stamped, RecordedUnedited, Done
<1>4. CASE history[n] = Builds[installed[r]][n] /\ history[n] # Unstamped
  BY <1>1, <1>4 DEF ServingInv, Stamped, Done
<1> QED BY <1>2, <1>3, <1>4

\* A replica that is neither applying nor serving is prepared for nothing, and
\* the others are as prepared as they were.
LEMMA OthersPrepared ==
  ASSUME ServingInv, NEW r \in Replicas, UNCHANGED effects,
         \A q \in Replicas \ {r} : starting'[q] = starting[q] /\ installed'[q] = installed[q],
         Prepared(r)'
  PROVE  \A q \in Replicas : Prepared(q)'
<1>1. ASSUME NEW q \in Replicas, q # r PROVE Prepared(q)'
  BY <1>1 DEF ServingInv, Prepared, Done
<1> QED BY <1>1

LEMMA InitServing ==
  ASSUME MigrationsAssumption, MigrationsInit
  PROVE  ServingInv
<1>1. ASSUME NEW n \in FileNames PROVE Stamped(n)
  BY DEF MigrationsInit, Stamped, Unknown, Unstamped
<1>2. ASSUME NEW r \in Replicas PROVE Prepared(r)
  BY DEF MigrationsInit, Prepared, Stopped
<1> QED BY <1>1, <1>2, InitMigrations DEF ServingInv

LEMMA ApplyServing ==
  ASSUME MigrationsAssumption, ServingInv, NEW r \in Replicas, Apply(r), MigrationsInv'
  PROVE  ServingInv'
<1> DEFINE n == Min(starting[r].left)
           c == Builds[installed[r]][n]
<1>1. n \in starting[r].left /\ n \in FileNames /\ n \in DOMAIN Builds[installed[r]] /\ c \notin {Unknown, Unstamped}
  BY NextFile DEF Apply, ServingInv
<1>2. UNCHANGED installed /\ starting[r].at = "applying"
  BY DEF Apply
<1>3. CASE history[n] = Unknown /\ starting[r].applied[n] = Unknown
  <2>1. /\ history' = [history EXCEPT ![n] = c]
        /\ effects' = [effects EXCEPT ![n] = Append(@, c)]
        /\ starting' = [starting EXCEPT ![r].left = @ \ {n}]
    BY <1>3 DEF Apply, Insert
  <2>2. effects[n] = <<>>
    BY <1>1, <1>3 DEF ServingInv, MigrationsInv, Tracked
  <2>3. effects'[n] = <<c>> /\ history'[n] = c
    BY <1>1, <2>1, <2>2 DEF ServingInv, MigrationsInv, MigrationsTypeOK
  <2>4. \A m \in FileNames \ {n} : history'[m] = history[m] /\ effects'[m] = effects[m]
    BY <2>1 DEF ServingInv, MigrationsInv, MigrationsTypeOK
  <2>5. ASSUME NEW m \in FileNames PROVE Stamped(m)'
    <3>1. CASE m = n
      BY <1>1, <2>3, <3>1 DEF Stamped
    <3>2. CASE m # n
      BY <2>4, <3>2 DEF ServingInv, Stamped
    <3> QED BY <3>1, <3>2
  <2>6. ASSUME NEW q \in Replicas PROVE Prepared(q)'
    <3>1. /\ starting'[q].at = starting[q].at /\ starting'[q].applied = starting[q].applied
          /\ starting'[q].left = IF q = r THEN starting[q].left \ {n} ELSE starting[q].left
      <4>1. MigrationsInv
        BY DEF ServingInv
      <4> HIDE DEF n, c
      <4>2. /\ starting'[r].left = starting[r].left \ {n}
            /\ starting'[r].at = starting[r].at /\ starting'[r].applied = starting[r].applied
            /\ \A p \in Replicas \ {r} : starting'[p] = starting[p]
        BY <2>1, <4>1, LeftShrinks
      <4>3. CASE q = r
        BY <4>2, <4>3
      <4>4. CASE q # r
        BY <4>2, <4>4
      <4> QED BY <4>3, <4>4
    <3> SUFFICES ASSUME NEW m \in DOMAIN Builds[installed[q]], starting[q].at \in {"serving", "applying"},
                        starting[q].at = "applying" => m \notin starting'[q].left \/ starting[q].applied[m] # Unknown
                 PROVE  effects'[m] = <<Builds[installed[q]][m]>>
      BY <1>2, <3>1 DEF Prepared, Done
    <3>2. m \in FileNames
      BY BuiltFiles DEF ServingInv, MigrationsInv, MigrationsTypeOK
    <3>3. CASE q = r /\ m = n
      BY <2>3, <3>3
    <3>4. CASE ~(q = r /\ m = n)
      <4>1. effects[m] = <<Builds[installed[q]][m]>>
        BY <3>1, <3>4 DEF ServingInv, Prepared, Done
      <4>2. m # n
        BY <2>2, <4>1, OneEffect
      <4> QED BY <2>4, <3>2, <4>1, <4>2
    <3> QED BY <3>3, <3>4
  <2> QED BY <2>5, <2>6 DEF ServingInv
<1>4. CASE history[n] # Unknown /\ starting[r].applied[n] = Unknown
  <2>1. Go(r, "stopped") /\ UNCHANGED <<history, effects>>
    BY <1>4 DEF Apply, Insert, Fails
  <2>2. /\ starting'[r].at = "stopped"
        /\ \A q \in Replicas \ {r} : starting'[q] = starting[q]
    BY <2>1, Going DEF ServingInv
  <2>3. Prepared(r)'
    BY <2>2 DEF Prepared
  <2> QED BY <1>2, <2>1, <2>2, <2>3, OthersPrepared DEF ServingInv, Stamped
<1>5. CASE starting[r].applied[n] # Unknown
  <2>1. /\ history' = [history EXCEPT ![n] = IF @ = Unstamped THEN c ELSE @]
        /\ starting' = [starting EXCEPT ![r].left = @ \ {n}]
        /\ UNCHANGED effects
    BY <1>5 DEF Apply
  <2>2. effects[n] = <<c>>
    BY <1>1, <1>2, <1>5 DEF ServingInv, Prepared, Done
  <2>3. ASSUME NEW m \in FileNames PROVE Stamped(m)'
    <3>1. history'[m] = IF m = n /\ history[m] = Unstamped THEN c ELSE history[m]
      BY <2>1 DEF ServingInv, MigrationsInv, MigrationsTypeOK
    <3> QED BY <1>1, <2>1, <2>2, <3>1 DEF ServingInv, Stamped
  <2>4. /\ starting'[r].at = "applying" /\ starting'[r].applied = starting[r].applied
        /\ starting'[r].left = starting[r].left \ {n}
        /\ \A q \in Replicas \ {r} : starting'[q] = starting[q]
    BY <1>2, <2>1, LeftShrinks DEF ServingInv
  <2>5. Prepared(r)'
    BY <1>2, <2>1, <2>2, <2>4 DEF ServingInv, Prepared, Done
  <2> QED BY <1>2, <2>1, <2>3, <2>4, <2>5, OthersPrepared DEF ServingInv
<1> QED BY <1>3, <1>4, <1>5

LEMMA NextServing ==
  ASSUME MigrationsAssumption, RecordedUnedited, ServingInv, [MigrationsNext]_migrationVars
  PROVE  ServingInv'
<1>1. MigrationsInv'
  BY NextMigrations DEF ServingInv
<1>2. ASSUME NEW r \in Replicas, NEW at \in {"stopped", "checking", "locking", "loading"}, Go(r, at),
             UNCHANGED <<history, effects>>, \A q \in Replicas \ {r} : installed'[q] = installed[q]
      PROVE  ServingInv'
  <2>1. /\ starting'[r].at = at
        /\ \A q \in Replicas \ {r} : starting'[q] = starting[q]
    BY <1>2, Going DEF ServingInv
  <2>2. Prepared(r)'
    BY <2>1 DEF Prepared
  <2> QED BY <1>1, <1>2, <2>1, <2>2, OthersPrepared DEF ServingInv, Stamped
<1>3. ASSUME NEW r \in Replicas, Go(r, "serving"), UNCHANGED <<history, effects, installed>>,
             \A n \in DOMAIN Builds[installed[r]] : Done(r, n)
      PROVE  ServingInv'
  <2>1. /\ starting'[r].at = "serving"
        /\ \A q \in Replicas \ {r} : starting'[q] = starting[q]
    BY <1>3, Going DEF ServingInv
  <2>2. Prepared(r)'
    BY <1>3, <2>1 DEF Prepared, Done
  <2> QED BY <1>1, <1>3, <2>1, <2>2, OthersPrepared DEF ServingInv, Stamped
<1>4. ASSUME NEW r \in Replicas, Start(r) \/ LockMigrations(r) \/ Crash(r)
      PROVE  ServingInv'
  BY <1>2, <1>4 DEF Start, LockMigrations, Crash, Fails
<1>5. ASSUME NEW r \in Replicas, Upgrade(r)
      PROVE  ServingInv'
  <2>1. \A q \in Replicas \ {r} : installed'[q] = installed[q]
    BY <1>5 DEF Upgrade, ServingInv, MigrationsInv, MigrationsTypeOK
  <2> QED BY <1>2, <1>5, <2>1 DEF Upgrade, Fails
<1>6. ASSUME NEW r \in Replicas, Migrated(r)
      PROVE  ServingInv'
  <2>1. \A n \in DOMAIN Builds[installed[r]] : Done(r, n)
    BY <1>6 DEF Migrated, ServingInv, Prepared
  <2> QED BY <1>3, <1>6, <2>1 DEF Migrated
<1>7. ASSUME NEW r \in Replicas, CheckSchema(r)
      PROVE  ServingInv'
  <2>1. CASE CheckHistory(installed[r], history) /\ \A n \in DOMAIN Builds[installed[r]] : history[n] # Unknown
    BY <1>3, <1>7, <2>1, InOrder DEF CheckSchema
  <2>2. CASE ~(CheckHistory(installed[r], history) /\ \A n \in DOMAIN Builds[installed[r]] : history[n] # Unknown)
    BY <1>2, <1>7, <2>2 DEF CheckSchema
  <2> QED BY <2>1, <2>2
<1>8. ASSUME NEW r \in Replicas, Load(r)
      PROVE  ServingInv'
  <2>1. CASE ~CheckHistory(installed[r], history)
    BY <1>2, <1>8, <2>1 DEF Load, Fails
  <2>2. CASE CheckHistory(installed[r], history)
    <3>1. /\ starting' = [starting EXCEPT ![r] = [at |-> "applying", applied |-> history, left |-> EmbeddedMigrations(r)]]
          /\ UNCHANGED <<history, effects, installed>>
      BY <1>8, <2>2 DEF Load
    <3>2. /\ starting'[r].at = "applying" /\ starting'[r].applied = history
          /\ starting'[r].left = DOMAIN Builds[installed[r]]
          /\ \A q \in Replicas \ {r} : starting'[q] = starting[q]
      BY <3>1 DEF ServingInv, MigrationsInv, MigrationsTypeOK, EmbeddedMigrations
    <3>3. \A n \in DOMAIN Builds[installed[r]] : history[n] # Unknown => Done(r, n)
      BY <2>2, InOrder
    <3>4. Prepared(r)'
      BY <3>1, <3>2, <3>3 DEF Prepared, Done
    <3> QED BY <1>1, <3>1, <3>2, <3>4, OthersPrepared DEF ServingInv, Stamped
  <2> QED BY <2>1, <2>2
<1>9. CASE LoseLock \/ UNCHANGED migrationVars
  BY <1>1, <1>9 DEF LoseLock, migrationVars, ServingInv, Stamped, Prepared, Done
<1> QED BY <1>1, <1>4, <1>5, <1>6, <1>7, <1>8, <1>9, ApplyServing DEF MigrationsNext, MigrationStep

\* CheckSchema and Migrate let a replica serve only on a schema on which all its
\* files took effect with the contents it embeds, also when another replica
\* migrated between its reading of the history and its applying of a file.
THEOREM ServingIsComplete ==
  RecordedUnedited => (MigrationsSpec => []ServesComplete)
<1> SUFFICES ASSUME RecordedUnedited PROVE MigrationsSpec => []ServesComplete
  OBVIOUS
<1>1. MigrationsInit => ServingInv
  BY InitServing, MigrationsAssumption
<1>2. ServingInv /\ [MigrationsNext]_migrationVars => ServingInv'
  BY NextServing, MigrationsAssumption
<1>3. ServingInv => ServesComplete
  BY DEF ServingInv, Prepared, Done, ServesComplete
<1> QED BY <1>1, <1>2, <1>3, PTL DEF MigrationsSpec

---------------------------------------------------------------------------
(* Schedules.  A pass may take longer than a minute, and users change rows *)
(* under it; yet whatever is written as the next run of a schedule lies    *)
(* after the listing of every pass that has triggered it.                  *)

\* Every expression that parses has a match within the search: see
\* ImpossibleNeverRuns for those that have none.
PossibleExprs == \A e \in Exprs, t \in 1 .. Horizon : Parses(e) => NextRun(e, t) # Never

\* The rows that users write and housekeeping advances.
Rows == {entry \in [there : {TRUE}, expr : Exprs, enabled : BOOLEAN, next : Int] : Parses(entry.expr)}
Listed == [id : Plans, row : Rows, at : 1 .. Horizon]

SchedulesTypeOK ==
  /\ clock \in 1 .. Horizon
  /\ plan \in [Plans -> Rows \cup {Absent}]
  /\ edit \in {NoRow} \cup [id : Plans, row : Rows]
  /\ due \subseteq Listed
  /\ taken \in {NoRow} \cup Listed
  /\ \A r \in runs : r.id \in Plans /\ r.slot \in Int /\ r.at \in 1 .. clock

\* The next run in a row is later than t.
NextAfter(entry, t) == entry.next = Null \/ entry.next > t

\* A row's next run is later than every pass that ran the schedule.
NextIsLater == \A p \in Plans, r \in runs : plan[p].there /\ r.id = p => NextAfter(plan[p], r.at)

\* What a user is about to write is later than the present.
EditIsLater == edit # NoRow => NextAfter(edit.row, clock)

\* A listed slot has not been run, and no pass is later than the one under way.
Unrun(d) == d.at <= clock /\ \A r \in runs : r.at <= d.at /\ (r.id = d.id => d.row.next > r.at)

PassIsSound ==
  /\ keeper = "nobody" => due = {} /\ taken = NoRow
  /\ \A d \in due : Unrun(d)
  /\ \A c, d \in due : c.at = d.at /\ (c.id = d.id => c = d)
  /\ taken # NoRow =>
       /\ Unrun(taken)
       /\ \A d \in due : d.id # taken.id /\ d.at = taken.at
       /\ plan[taken.id].there => NextAfter(plan[taken.id], taken.at)

SchedulesInv == SchedulesTypeOK /\ NextIsLater /\ EditIsLater /\ PassIsSound /\ NoSlotTwice

LEMMA NextRunIsLater ==
  ASSUME ScheduleAssumption, PossibleExprs, NEW e \in Exprs, Parses(e), NEW t \in 1 .. Horizon
  PROVE  NextRun(e, t) \in Nat /\ NextRun(e, t) > t
<1> DEFINE found == {u \in t + 1 .. t + SearchLimit : Matches(e, u)}
<1>1. NextRun(e, t) = IF found = {} THEN Never ELSE CHOOSE u \in found : \A v \in found : u <= v
  BY DEF NextRun
<1>2. found \subseteq Nat /\ \A u \in found : u > t
  BY DEF ScheduleAssumption
<1> HIDE DEF found
<1>3. found # {}
  BY <1>1 DEF PossibleExprs
<1>4. NextRun(e, t) \in found
  BY <1>1, <1>2, <1>3, LowestOf
<1> QED BY <1>2, <1>4

\* The row of a request is written for after the present.
LEMMA RowIsLater ==
  ASSUME ScheduleAssumption, PossibleExprs, SchedulesInv, NEW e \in Exprs, Parses(e), NEW enabled \in BOOLEAN
  PROVE  Row(e, enabled) \in Rows /\ NextAfter(Row(e, enabled), clock)
<1>1. clock \in 1 .. Horizon
  BY DEF SchedulesInv, SchedulesTypeOK
<1>2. NextRun(e, clock) \in Nat /\ NextRun(e, clock) > clock
  BY <1>1, NextRunIsLater
<1> QED BY <1>2 DEF Row, Rows, Null, NextAfter

\* A write of a row for after the present, a user's, leaves the pass sound.
LEMMA WrittenLater ==
  ASSUME SchedulesInv, NEW p \in Plans, NEW entry \in Rows, NextAfter(entry, clock),
         plan' = [plan EXCEPT ![p] = entry], UNCHANGED <<clock, keeper, due, taken, runs>>,
         edit' \in {edit, NoRow}
  PROVE  SchedulesInv'
<1>1. /\ plan'[p] = entry
      /\ \A q \in Plans \ {p} : plan'[q] = plan[q]
      /\ plan' \in [Plans -> Rows \cup {Absent}]
  BY DEF SchedulesInv, SchedulesTypeOK
<1>2. SchedulesTypeOK'
  BY <1>1 DEF SchedulesInv, SchedulesTypeOK
<1>3. entry.next \in Int /\ clock \in Int
  BY DEF Rows, SchedulesInv, SchedulesTypeOK
<1>4. NextIsLater'
  <2> SUFFICES ASSUME NEW q \in Plans, NEW r \in runs, plan'[q].there, r.id = q
               PROVE  NextAfter(plan'[q], r.at)
    BY DEF NextIsLater
  <2>1. r.at \in Int /\ r.at <= clock
    BY DEF SchedulesInv, SchedulesTypeOK
  <2>2. CASE q = p
    BY <1>1, <1>3, <2>1, <2>2 DEF NextAfter
  <2>3. CASE q # p
    BY <1>1, <2>3 DEF SchedulesInv, NextIsLater
  <2> QED BY <2>2, <2>3
<1>5. EditIsLater'
  BY DEF SchedulesInv, EditIsLater, NextAfter
<1>6. PassIsSound'
  <2>1. ASSUME taken # NoRow, plan'[taken.id].there
        PROVE  NextAfter(plan'[taken.id], taken.at)
    <3>1. taken.id \in Plans /\ taken.at \in Int /\ taken.at <= clock
      BY <2>1 DEF SchedulesInv, SchedulesTypeOK, Listed, PassIsSound, Unrun
    <3>2. CASE taken.id = p
      BY <1>1, <1>3, <3>1, <3>2 DEF NextAfter
    <3>3. CASE taken.id # p
      BY <1>1, <2>1, <3>1, <3>3 DEF SchedulesInv, PassIsSound
    <3> QED BY <3>2, <3>3
  <2> QED BY <2>1 DEF SchedulesInv, PassIsSound, Unrun
<1> QED BY <1>2, <1>4, <1>5, <1>6 DEF SchedulesInv, NoSlotTwice

LEMMA Created ==
  ASSUME ScheduleAssumption, PossibleExprs, SchedulesInv, NEW p \in Plans, NEW e \in Exprs, NEW switch,
         CreateSchedule(p, e, switch)
  PROVE  SchedulesInv'
<1>1. Row(e, Enabled(switch)) \in Rows /\ NextAfter(Row(e, Enabled(switch)), clock)
  BY RowIsLater DEF CreateSchedule, Enabled
<1> DEFINE entry == Row(e, Enabled(switch))
<1>2. plan' = [plan EXCEPT ![p] = entry] /\ UNCHANGED <<clock, edit, keeper, due, taken, runs, losses>>
  BY DEF CreateSchedule, InsertPlan
<1> HIDE DEF entry
<1>3. entry \in Rows /\ NextAfter(entry, clock)
  BY <1>1 DEF entry
<1> QED BY <1>2, <1>3, WrittenLater

LEMMA Updated ==
  ASSUME ScheduleAssumption, PossibleExprs, SchedulesInv, NEW p \in Plans, NEW e \in Exprs, NEW switch,
         UpdateSchedule(p, e, switch)
  PROVE  SchedulesInv'
<1>1. Row(e, Enabled(switch)) \in Rows /\ NextAfter(Row(e, Enabled(switch)), clock)
  BY RowIsLater DEF UpdateSchedule, Enabled
<1> DEFINE entry == Row(e, Enabled(switch))
<1>2. edit' = [id |-> p, row |-> entry] /\ UNCHANGED <<clock, plan, keeper, due, taken, runs>>
  BY DEF UpdateSchedule
<1> HIDE DEF entry
<1>3. entry \in Rows /\ NextAfter(entry, clock)
  BY <1>1 DEF entry
<1>4. edit'.row = entry /\ edit' \in [id : Plans, row : Rows]
  BY <1>2, <1>3
<1>5. EditIsLater'
  BY <1>2, <1>3, <1>4 DEF EditIsLater, NextAfter
<1> QED BY <1>2, <1>4, <1>5
        DEF SchedulesInv, SchedulesTypeOK, NextIsLater, PassIsSound, Unrun, NoSlotTwice, NextAfter

LEMMA Saved ==
  ASSUME SchedulesInv, SaveSchedule
  PROVE  SchedulesInv'
<1>1. edit.id \in Plans /\ edit.row \in Rows /\ NextAfter(edit.row, clock)
  BY DEF SaveSchedule, SchedulesInv, SchedulesTypeOK, EditIsLater
<1>2. edit' = NoRow /\ UNCHANGED <<clock, keeper, due, taken, runs>>
  BY DEF SaveSchedule
<1>3. CASE plan[edit.id].there
  BY <1>1, <1>2, <1>3, WrittenLater DEF SaveSchedule, UpdatePlan
<1>4. CASE ~plan[edit.id].there
  <2>1. plan' = plan
    BY <1>4 DEF SaveSchedule, UpdatePlan
  <2> QED BY <1>2, <2>1
          DEF SchedulesInv, SchedulesTypeOK, NextIsLater, EditIsLater, PassIsSound, Unrun, NoSlotTwice, NextAfter
<1> QED BY <1>3, <1>4

LEMMA Deleted ==
  ASSUME SchedulesInv, NEW p \in Plans, DeleteSchedule(p)
  PROVE  SchedulesInv'
<1>1. plan' = [plan EXCEPT ![p] = Absent] /\ UNCHANGED <<clock, edit, keeper, due, taken, runs>>
  BY DEF DeleteSchedule, RemovePlan
<1>2. /\ ~plan'[p].there
      /\ \A q \in Plans \ {p} : plan'[q] = plan[q]
      /\ plan' \in [Plans -> Rows \cup {Absent}]
  BY <1>1 DEF SchedulesInv, SchedulesTypeOK, Absent
<1>3. \A q \in Plans : plan'[q].there => q # p /\ plan'[q] = plan[q]
  BY <1>2
<1>4. SchedulesTypeOK'
  BY <1>1, <1>2 DEF SchedulesInv, SchedulesTypeOK
<1>5. NextIsLater'
  BY <1>1, <1>3 DEF SchedulesInv, NextIsLater, NextAfter
<1>6. taken # NoRow => taken.id \in Plans
  BY DEF SchedulesInv, SchedulesTypeOK, Listed
<1>7. PassIsSound'
  BY <1>1, <1>3, <1>6 DEF SchedulesInv, PassIsSound, Unrun, NextAfter
<1> QED BY <1>1, <1>4, <1>5, <1>7 DEF SchedulesInv, EditIsLater, NoSlotTwice, NextAfter

LEMMA DueListed ==
  ASSUME ScheduleAssumption, SchedulesInv, NEW w \in Workers, ListDueSchedules(w)
  PROVE  SchedulesInv'
<1>1. /\ due' = {[id |-> p, row |-> plan[p], at |-> clock] : p \in {q \in Plans : IsDue(q)}}
      /\ UNCHANGED <<clock, plan, edit, taken, runs>>
  BY DEF ListDueSchedules
<1>2. taken = NoRow
  BY DEF ListDueSchedules, SchedulesInv, PassIsSound
<1>3. ASSUME NEW d \in due'
      PROVE  /\ d \in Listed /\ d.id \in Plans /\ d.row = plan[d.id] /\ d.at = clock
             /\ d = [id |-> d.id, row |-> plan[d.id], at |-> clock] /\ IsDue(d.id)
  <2>1. PICK p \in Plans : d = [id |-> p, row |-> plan[p], at |-> clock] /\ IsDue(p)
    BY <1>1, <1>3
  <2>2. plan[p] \in Rows
    BY <2>1 DEF IsDue, SchedulesInv, SchedulesTypeOK, Absent
  <2> QED BY <2>1, <2>2 DEF Listed, SchedulesInv, SchedulesTypeOK
<1>4. SchedulesTypeOK'
  BY <1>1, <1>3 DEF SchedulesInv, SchedulesTypeOK
<1>5. ASSUME NEW d \in due' PROVE Unrun(d)'
  <2>1. \A r \in runs : r.at <= clock
    BY DEF SchedulesInv, SchedulesTypeOK
  <2>2. ASSUME NEW r \in runs, r.id = d.id PROVE d.row.next > r.at
    BY <1>3, <2>2 DEF SchedulesInv, NextIsLater, NextAfter, IsDue
  <2>3. clock \in Int
    BY DEF SchedulesInv, SchedulesTypeOK
  <2> QED BY <1>1, <1>3, <2>1, <2>2, <2>3 DEF Unrun
<1>6. \A c, d \in due' : c.at = d.at /\ (c.id = d.id => c = d)
  BY <1>3
<1>7. keeper' # "nobody"
  BY DEF ListDueSchedules, ScheduleAssumption
<1> QED BY <1>1, <1>2, <1>4, <1>5, <1>6, <1>7
        DEF SchedulesInv, NextIsLater, EditIsLater, PassIsSound, NoSlotTwice, NextAfter

\* The next run a pass writes is later than the pass.
LEMMA AdvancedLater ==
  ASSUME ScheduleAssumption, PossibleExprs, NEW d \in Listed
  PROVE  AdvanceAfter(d) \in Int /\ AdvanceAfter(d) > d.at
<1>1. d.at \in 1 .. Horizon /\ d.row.expr \in Exprs /\ Parses(d.row.expr)
  BY DEF Listed, Rows
<1> QED BY <1>1, NextRunIsLater DEF AdvanceAfter

LEMMA Advanced ==
  ASSUME ScheduleAssumption, PossibleExprs, SchedulesInv, NEW d \in due, AdvanceSchedule(d)
  PROVE  SchedulesInv'
<1> DEFINE p == d.id
<1> DEFINE next == AdvanceAfter(d)
<1>1. /\ taken = NoRow /\ due' = due \ {d} /\ taken' = d
      /\ plan' = IF plan[p].there THEN [plan EXCEPT ![p].next = next] ELSE plan
      /\ UNCHANGED <<clock, edit, keeper, runs>>
  BY DEF AdvanceSchedule, MarkRun
<1>2. d \in Listed /\ p \in Plans /\ d.at \in Int /\ Unrun(d)
  BY DEF SchedulesInv, SchedulesTypeOK, PassIsSound, Listed
<1>3. next \in Int /\ next > d.at
  BY <1>2, AdvancedLater
<1> HIDE DEF next
<1>4. /\ \A q \in Plans \ {p} : plan'[q] = plan[q]
      /\ plan'[p].there <=> plan[p].there
      /\ plan'[p].there => plan'[p].next = next
      /\ plan' \in [Plans -> Rows \cup {Absent}]
  <2>1. CASE plan[p].there
    <3>1. plan[p] \in Rows
      BY <1>2, <2>1 DEF SchedulesInv, SchedulesTypeOK, Absent
    <3>2. [plan[p] EXCEPT !.next = next] \in Rows
      BY <1>3, <3>1 DEF Rows
    <3>3. plan' = [plan EXCEPT ![p] = [plan[p] EXCEPT !.next = next]]
      BY <1>1, <2>1
    <3>4. plan'[p] = [plan[p] EXCEPT !.next = next]
      BY <1>2, <3>3 DEF SchedulesInv, SchedulesTypeOK
    <3>5. plan'[p].there /\ plan'[p].next = next
      BY <3>1, <3>2, <3>4 DEF Rows
    <3> QED BY <1>2, <2>1, <3>2, <3>3, <3>5 DEF SchedulesInv, SchedulesTypeOK
  <2>2. CASE ~plan[p].there
    BY <1>1, <2>2 DEF SchedulesInv, SchedulesTypeOK
  <2> QED BY <2>1, <2>2
<1>5. SchedulesTypeOK'
  BY <1>1, <1>2, <1>4 DEF SchedulesInv, SchedulesTypeOK
<1>6. NextIsLater'
  <2> SUFFICES ASSUME NEW q \in Plans, NEW r \in runs, plan'[q].there, r.id = q
               PROVE  NextAfter(plan'[q], r.at)
    BY <1>1 DEF NextIsLater, NextAfter
  <2>1. CASE q = p
    <3>1. r.at \in Int /\ r.at <= d.at
      BY <1>2 DEF SchedulesInv, SchedulesTypeOK, Unrun
    <3> QED BY <1>2, <1>3, <1>4, <2>1, <3>1 DEF NextAfter
  <2>2. CASE q # p
    BY <1>4, <2>2 DEF SchedulesInv, NextIsLater
  <2> QED BY <2>1, <2>2
<1>7. PassIsSound'
  <2>1. keeper # "nobody"
    BY DEF SchedulesInv, PassIsSound
  <2>2. \A c \in due' : c \in due /\ c.id # p /\ c.at = d.at
    BY <1>1 DEF SchedulesInv, PassIsSound
  <2>3. plan'[p].there => NextAfter(plan'[p], d.at)
    BY <1>3, <1>4 DEF NextAfter
  <2> QED BY <1>1, <1>2, <2>1, <2>2, <2>3 DEF SchedulesInv, PassIsSound, Unrun, NextAfter
<1> QED BY <1>1, <1>5, <1>6, <1>7 DEF SchedulesInv, EditIsLater, NoSlotTwice, NextAfter

LEMMA AdvanceFailed ==
  ASSUME SchedulesInv, NEW d \in due, AdvanceFails(d)
  PROVE  SchedulesInv'
<1>1. due' = due \ {d} /\ taken = NoRow /\ UNCHANGED <<clock, plan, edit, keeper, taken, runs>>
  BY DEF AdvanceFails
<1> QED BY <1>1
        DEF SchedulesInv, SchedulesTypeOK, NextIsLater, EditIsLater, PassIsSound, Unrun, NoSlotTwice, NextAfter

LEMMA Triggered ==
  ASSUME SchedulesInv, NEW ok \in BOOLEAN, TriggerBackup(ok)
  PROVE  SchedulesInv'
<1> DEFINE new == [id |-> taken.id, slot |-> taken.row.next, at |-> taken.at, n |-> Cardinality(runs)]
<1>1. /\ taken # NoRow /\ taken' = NoRow
      /\ UNCHANGED <<clock, plan, edit, keeper, due>>
      /\ runs' = IF ok /\ plan[taken.id].there THEN runs \cup {new} ELSE runs
  BY DEF TriggerBackup
<1>2. CASE runs' = runs
  BY <1>1, <1>2
     DEF SchedulesInv, SchedulesTypeOK, NextIsLater, EditIsLater, PassIsSound, Unrun, NoSlotTwice, NextAfter
<1>3. CASE runs' = runs \cup {new} /\ plan[taken.id].there
  <2>1. /\ new.id = taken.id /\ new.slot = taken.row.next /\ new.at = taken.at
        /\ taken \in Listed /\ taken.id \in Plans /\ taken.row.next \in Int
        /\ taken.at \in 1 .. Horizon /\ Unrun(taken)
    BY <1>1 DEF SchedulesInv, SchedulesTypeOK, PassIsSound, Listed, Rows
  <2> HIDE DEF new
  <2>2. SchedulesTypeOK'
    BY <1>1, <1>3, <2>1 DEF SchedulesInv, SchedulesTypeOK, Unrun
  <2>3. NextIsLater'
    BY <1>1, <1>3, <2>1 DEF SchedulesInv, NextIsLater, NextAfter, PassIsSound
  <2>4. PassIsSound'
    BY <1>1, <1>3, <2>1 DEF SchedulesInv, PassIsSound, Unrun
  <2>5. NoSlotTwice'
    <3>1. \A r \in runs : r.id = new.id => new.slot > r.at
      BY <2>1 DEF Unrun
    <3> QED BY <1>3, <3>1 DEF SchedulesInv, NoSlotTwice
  <2> QED BY <1>1, <2>2, <2>3, <2>4, <2>5 DEF SchedulesInv, EditIsLater, NextAfter
<1> QED BY <1>1, <1>2, <1>3

LEMMA MinutePassed ==
  ASSUME ScheduleAssumption, SchedulesInv, MinutePasses
  PROVE  SchedulesInv'
<1>1. /\ clock' = clock + 1 /\ clock < Horizon /\ edit = NoRow
      /\ UNCHANGED <<plan, edit, keeper, due, taken, runs>>
  BY DEF MinutePasses
<1>2. \A d \in due \cup {taken} : d # NoRow => d.at \in Int
  BY DEF SchedulesInv, SchedulesTypeOK, Listed
<1>3. SchedulesTypeOK'
  BY <1>1 DEF SchedulesInv, SchedulesTypeOK, ScheduleAssumption
<1>4. PassIsSound'
  <2>1. ASSUME NEW d \in Listed, Unrun(d) PROVE Unrun(d)'
    BY <1>1, <2>1 DEF Unrun, Listed, SchedulesInv, SchedulesTypeOK
  <2> QED BY <1>1, <2>1 DEF SchedulesInv, SchedulesTypeOK, PassIsSound, NextAfter
<1> QED BY <1>1, <1>3, <1>4 DEF SchedulesInv, NextIsLater, EditIsLater, NoSlotTwice, NextAfter

LEMMA NextSchedules ==
  ASSUME ScheduleAssumption, PossibleExprs, SchedulesInv, [ScheduleNext]_scheduleVars
  PROVE  SchedulesInv'
<1>1. CASE EndPass \/ KeeperDies
  <2>1. /\ due' = {} /\ taken' = NoRow
        /\ UNCHANGED <<clock, plan, edit, runs>>
    BY <1>1 DEF EndPass, KeeperDies
  <2> QED BY <2>1
          DEF SchedulesInv, SchedulesTypeOK, NextIsLater, EditIsLater, PassIsSound, NoSlotTwice, NextAfter
<1>2. CASE UNCHANGED scheduleVars
  BY <1>2 DEF scheduleVars, SchedulesInv, SchedulesTypeOK, NextIsLater, EditIsLater, PassIsSound, Unrun,
              NoSlotTwice, NextAfter
<1> QED BY <1>1, <1>2, Created, Updated, Saved, Deleted, DueListed, Advanced, AdvanceFailed, Triggered,
           MinutePassed DEF ScheduleNext, PassSteps

\* RunDue, MarkRun and TriggerScheduled: however long a pass takes, whoever
\* changes its schedules and wherever it dies, no slot is run twice, and what a
\* stop missed is run once.
THEOREM SlotsRunOnce ==
  PossibleExprs => (ScheduleSpec => []NoSlotTwice)
<1> SUFFICES ASSUME PossibleExprs PROVE ScheduleSpec => []NoSlotTwice
  OBVIOUS
<1>1. ScheduleInit => SchedulesInv
  <2> SUFFICES ASSUME ScheduleInit PROVE SchedulesInv
    OBVIOUS
  <2> QED BY ScheduleAssumption
          DEF ScheduleAssumption, ScheduleInit, SchedulesInv, SchedulesTypeOK, NextIsLater, EditIsLater,
              PassIsSound, NoSlotTwice
<1>2. SchedulesInv /\ [ScheduleNext]_scheduleVars => SchedulesInv'
  BY NextSchedules, ScheduleAssumption
<1>3. SchedulesInv => NoSlotTwice
  BY DEF SchedulesInv
<1> QED BY <1>1, <1>2, <1>3, PTL DEF ScheduleSpec

---------------------------------------------------------------------------
(* What a change of a schedule is about to write.  The minute does not      *)
(* pass meanwhile, so that the next run is still the earliest there is.     *)

EditIsARow ==
  /\ clock \in Nat
  /\ edit # NoRow => \E e \in Exprs, enabled \in BOOLEAN : edit.row = Row(e, enabled)

LEMMA EditStays ==
  ASSUME ScheduleAssumption, EditIsARow, ScheduleNext \/ UNCHANGED scheduleVars
  PROVE  EditIsARow'
<1>1. ASSUME UNCHANGED <<clock, edit>>
      PROVE  EditIsARow'
  BY <1>1 DEF EditIsARow, Row
<1>2. ASSUME NEW p \in Plans, NEW e \in Exprs, NEW switch, UpdateSchedule(p, e, switch)
      PROVE  EditIsARow'
  <2>1. UNCHANGED clock /\ edit'.row = Row(e, Enabled(switch)) /\ Enabled(switch) \in BOOLEAN
    BY <1>2 DEF UpdateSchedule, Enabled
  <2>2. Row(e, Enabled(switch))' = Row(e, Enabled(switch))
    BY <2>1 DEF Row
  <2> QED BY <2>1, <2>2 DEF EditIsARow
<1>3. CASE SaveSchedule
  BY <1>3 DEF SaveSchedule, EditIsARow
<1>4. CASE MinutePasses
  BY <1>4 DEF MinutePasses, EditIsARow
<1>5. CASE PassSteps \/ KeeperDies
  BY <1>1, <1>5 DEF PassSteps, KeeperDies, ListDueSchedules, AdvanceSchedule, AdvanceFails, TriggerBackup, EndPass
<1> QED BY <1>1, <1>2, <1>3, <1>4, <1>5 DEF ScheduleNext, CreateSchedule, DeleteSchedule, scheduleVars

LEMMA StarCovers ==
  ASSUME NEW field, IsStar(field), NEW min \in Int, NEW max \in Int, NEW v \in min .. max
  PROVE  v \in FieldValues(field, min, max)
<1>1. PICK p \in field : field = {p} /\ p.star /\ p.step = 1
  BY DEF IsStar
<1>2. (v - min) % 1 = 0
  OBVIOUS
<1>3. v \in {u \in min .. max : (u - min) % p.step = 0}
  BY <1>1, <1>2
<1> QED BY <1>1, <1>3 DEF FieldValues

LEMMA Remainder ==
  ASSUME NEW a \in Nat, NEW b \in Nat \ {0}
  PROVE  a % b \in 0 .. b - 1 /\ a \div b \in Nat
OBVIOUS

\* The three cases of the code are what cron means by its day fields.
LEMMA MatchesIsNames ==
  ASSUME ScheduleAssumption, NEW e, NEW t \in Nat
  PROVE  Matches(e, t) <=> Names(e, t)
<1> DEFINE day == t \div DayLength
           doms == FieldValues(e.dom, 1, DomLimit)
           dows == FieldValues(e.dow, 0, WeekLength - 1)
           dom == (day % MonthLength) + 1 \in doms
           dow == day % WeekLength \in dows
           minute == t % DayLength \in FieldValues(e.minute, 0, DayLength - 1)
<1>1. Matches(e, t) <=>
        /\ minute
        /\ \/ IsStar(e.dom) /\ (IsStar(e.dow) \/ dow)
           \/ ~IsStar(e.dom) /\ IsStar(e.dow) /\ dom
           \/ ~IsStar(e.dom) /\ ~IsStar(e.dow) /\ (dom \/ dow)
  BY DEF Matches
<1>2. Names(e, t) <=>
        minute /\ IF ~IsStar(e.dom) /\ ~IsStar(e.dow) THEN dom \/ dow ELSE dom /\ dow
  BY DEF Names
<1>3. day \in Nat
  BY Remainder DEF ScheduleAssumption
<1> HIDE DEF day
<1>4. (day % MonthLength) + 1 \in 1 .. DomLimit /\ day % WeekLength \in 0 .. WeekLength - 1
  <2>1. day % MonthLength \in 0 .. MonthLength - 1 /\ day % WeekLength \in 0 .. WeekLength - 1
    BY <1>3, Remainder DEF ScheduleAssumption
  <2> QED BY <2>1 DEF ScheduleAssumption
<1>5. (IsStar(e.dom) => dom) /\ (IsStar(e.dow) => dow)
  <2>1. 1 \in Int /\ DomLimit \in Int /\ 0 \in Int /\ WeekLength - 1 \in Int
    BY DEF ScheduleAssumption
  <2> QED BY <1>4, <2>1, StarCovers
<1> HIDE DEF doms, dows, dom, dow, minute
<1> QED BY <1>1, <1>2, <1>5

LEMMA NextRunIsEarliest ==
  ASSUME ScheduleAssumption, NEW e, NEW t \in Nat
  PROVE  /\ \A u \in t + 1 .. t + SearchLimit : Names(e, u) => NextRun(e, t) \in t + 1 .. u
         /\ NextRun(e, t) # Never => Names(e, NextRun(e, t))
<1> DEFINE found == {u \in t + 1 .. t + SearchLimit : Matches(e, u)}
<1>1. NextRun(e, t) = IF found = {} THEN Never ELSE CHOOSE u \in found : \A v \in found : u <= v
  BY DEF NextRun
<1>2. found \subseteq Nat /\ \A u \in found : u \in t + 1 .. t + SearchLimit
  BY DEF ScheduleAssumption
<1>3. \A u \in t + 1 .. t + SearchLimit : Names(e, u) <=> u \in found
  BY MatchesIsNames DEF ScheduleAssumption
<1> HIDE DEF found
<1>4. CASE found = {}
  BY <1>1, <1>3, <1>4
<1>5. CASE found # {}
  <2>1. NextRun(e, t) \in found /\ \A v \in found : NextRun(e, t) <= v
    BY <1>1, <1>2, <1>5, LowestOf
  <2>2. ASSUME NEW u \in t + 1 .. t + SearchLimit, Names(e, u)
        PROVE  NextRun(e, t) \in t + 1 .. u
    <3>1. u \in found /\ NextRun(e, t) \in t + 1 .. t + SearchLimit /\ NextRun(e, t) <= u
      BY <1>2, <1>3, <2>1, <2>2
    <3> QED BY <3>1 DEF ScheduleAssumption
  <2>3. Names(e, NextRun(e, t))
    BY <1>2, <1>3, <2>1
  <2> QED BY <2>2, <2>3
<1> QED BY <1>4, <1>5

LEMMA EditIsEarliest ==
  ASSUME ScheduleAssumption, EditIsARow
  PROVE  NextIsEarliest
<1> SUFFICES ASSUME edit # NoRow, edit.row.enabled
             PROVE  /\ \A u \in clock + 1 .. clock + SearchLimit :
                         Names(edit.row.expr, u) => edit.row.next \in clock + 1 .. u
                    /\ edit.row.next # Never => Names(edit.row.expr, edit.row.next)
  BY DEF NextIsEarliest
<1>1. PICK e \in Exprs, enabled \in BOOLEAN : edit.row = Row(e, enabled)
  BY DEF EditIsARow
<1>2. edit.row.expr = e /\ edit.row.next = NextRun(e, clock)
  BY <1>1 DEF Row
<1> QED BY <1>2, NextRunIsEarliest DEF EditIsARow

---------------------------------------------------------------------------
(* The outbox.  What a channel has heard lags behind what is owed to it by *)
(* the pass under way, and runs ahead of the attempts that are counted by  *)
(* that pass and by the deaths there were.                                 *)

\* A request between its statements: its channel is yet to be inserted, and is
\* the only one that inserts it; was there when it began; or is deleted.
RequestsSound ==
  /\ \A q \in request :
       \/ q.do = "insert" /\ channel[q.channel] = "none"
       \/ q.do = "update" /\ channel[q.channel] # "none"
       \/ q.do = "unseal" /\ channel[q.channel] = "deleted"
  /\ \A q, p \in request : q.do = "insert" /\ p.channel = q.channel => p = q

\* What is to be written has its secret.
SealedFirst ==
  \A q \in request :
    q.do # "unseal" /\ q.channel \in Sealed /\ channel[q.channel] # "deleted" => q.channel \in secret

\* Who is owed an event is enabled, and it is for them.
OwedAreOn == \A e \in Events : \A c \in owed[e] : On(c) /\ Addressed(e, c)

\* What a pass has listed or delivers can be tried once more.
PassIsOfQueue ==
  /\ (row.event = 0) <=> (row = NoEventRow)
  /\ row.event \notin rows
  /\ \A e \in rows \cup {row.event} : e # 0 => outbox[e].status = "queued" /\ outbox[e].attempts < MaxAttempts

\* Whom the pass has passed without an error has heard the event.
PassedHaveHeard ==
  row # NoEventRow /\ row.ok => \A c \in owed[row.event] : c \in row.left \/ heard[row.event][c] > 0

\* The delivery under way counts when it is marked.
Uncounted(e, c) == IF row.event = e /\ c \notin row.left THEN 1 ELSE 0

HeardIsCounted ==
  \A e \in Events, c \in Channels : heard[e][c] <= outbox[e].attempts + troubles + Uncounted(e, c)

AttemptsAreLimited ==
  \A e \in Events : outbox[e].attempts <= MaxAttempts /\ (outbox[e].status = "none" => outbox[e].attempts = 0)

ChannelsInv == RequestsSound /\ SealedFirst /\ ChannelHasSecret
DispatchInv == OwedAreOn /\ PassIsOfQueue /\ PassedHaveHeard /\ HeardIsCounted /\ AttemptsAreLimited /\ PublishedWasHeard
OutboxInv == OutboxTypeOK /\ ChannelsInv /\ DispatchInv

LEMMA InitOutbox ==
  ASSUME OutboxAssumption, OutboxInit
  PROVE  OutboxInv
<1>1. OutboxTypeOK
  BY DEF OutboxAssumption, OutboxInit, OutboxTypeOK, NoEvent, NoEventRow
<1>2. ChannelsInv
  BY DEF OutboxAssumption, OutboxInit, ChannelsInv, RequestsSound, SealedFirst, ChannelHasSecret
<1>3. OwedAreOn /\ PassIsOfQueue /\ PassedHaveHeard /\ PublishedWasHeard
  BY DEF OutboxInit, OwedAreOn, PassIsOfQueue, PassedHaveHeard, PublishedWasHeard, NoEventRow, NoEvent
<1>4. HeardIsCounted /\ AttemptsAreLimited
  BY DEF OutboxAssumption, OutboxInit, HeardIsCounted, AttemptsAreLimited, Uncounted, NoEventRow, NoEvent
<1> QED BY <1>1, <1>2, <1>3, <1>4 DEF OutboxInv, DispatchInv

LEMMA WriteTypes ==
  ASSUME OutboxTypeOK, NEW c \in Channels, NEW status \in {"on", "off", "deleted"}, Write(c, status)
  PROVE  /\ channel' \in [Channels -> {"none", "on", "off", "deleted"}]
         /\ owed' \in [Events -> SUBSET Channels]
BY DEF OutboxTypeOK, Write

\* What the requests on channels keep to themselves.
LEMMA RequestsKeep ==
  ASSUME OutboxAssumption, OutboxTypeOK, ChannelsInv,
         NEW c \in Channels, NEW on \in BOOLEAN,
         CreateChannel(c, on) \/ UpdateChannel(c, on)
  PROVE  OutboxTypeOK' /\ ChannelsInv'
<1> DEFINE new == [do |-> IF channel[c] = "none" THEN "insert" ELSE "update", channel |-> c, on |-> on]
<1>1. /\ request' = request \cup {new} /\ Seal(c)
      /\ UNCHANGED <<channel, outbox, rows, row, heard, owed, troubles>>
      /\ channel[c] # "deleted" /\ (new.do = "insert" => \A q \in request : q.channel # c)
  BY DEF CreateChannel, UpdateChannel, Later
<1>2. new \in Request /\ new.channel = c /\ new.do # "unseal"
  BY DEF Request
<1>3. OutboxTypeOK'
  BY <1>1, <1>2 DEF OutboxTypeOK, Seal
<1>4. RequestsSound'
  <2>1. \A q \in request : q \in Request
    BY DEF OutboxTypeOK
  <2>2. \/ new.do = "insert" /\ channel[c] = "none"
        \/ new.do = "update" /\ channel[c] # "none"
    OBVIOUS
  <2>3. \A q \in request : q.do = "insert" /\ q.channel = c => channel[c] = "none"
    BY DEF ChannelsInv, RequestsSound
  <2> HIDE DEF new
  <2>4. \A q \in request : q.do = "insert" => q.channel # c
    BY <1>1, <2>2, <2>3
  <2> QED BY <1>1, <1>2, <2>2, <2>4 DEF ChannelsInv, RequestsSound
<1>5. SealedFirst' /\ ChannelHasSecret'
  <2>1. secret \subseteq secret' /\ (c \in Sealed => c \in secret')
    BY <1>1 DEF Seal
  <2> HIDE DEF new
  <2> QED BY <1>1, <1>2, <2>1 DEF ChannelsInv, SealedFirst, ChannelHasSecret
<1> QED BY <1>3, <1>4, <1>5 DEF ChannelsInv

LEMMA DeleteKeeps ==
  ASSUME OutboxAssumption, OutboxTypeOK, ChannelsInv, NEW c \in Channels, DeleteChannel(c)
  PROVE  OutboxTypeOK' /\ ChannelsInv'
<1> DEFINE new == [do |-> "unseal", channel |-> c, on |-> FALSE]
<1>1. /\ request' = request \cup {new} /\ channel[c] \in {"on", "off"}
      /\ channel' = [channel EXCEPT ![c] = "deleted"] /\ Write(c, "deleted")
      /\ UNCHANGED <<secret, outbox, rows, row, heard, troubles>>
  BY DEF DeleteChannel, Write
<1>2. new \in Request /\ new.channel = c /\ new.do = "unseal"
  BY DEF Request
<1>3. OutboxTypeOK'
  BY <1>1, <1>2, WriteTypes DEF OutboxTypeOK
<1>4. \A q \in request : q.channel \in Channels
  BY DEF OutboxTypeOK, Request
<1>5. \A d \in Channels : channel'[d] = IF d = c THEN "deleted" ELSE channel[d]
  BY <1>1 DEF OutboxTypeOK
<1> HIDE DEF new
<1>6. RequestsSound'
  BY <1>1, <1>2, <1>4, <1>5 DEF ChannelsInv, RequestsSound
<1>7. SealedFirst' /\ ChannelHasSecret'
  BY <1>1, <1>2, <1>4, <1>5 DEF ChannelsInv, SealedFirst, ChannelHasSecret, OutboxAssumption
<1> QED BY <1>3, <1>6, <1>7 DEF ChannelsInv

LEMMA FinishKeeps ==
  ASSUME OutboxAssumption, OutboxTypeOK, ChannelsInv, NEW q \in request, FinishRequest(q)
  PROVE  OutboxTypeOK' /\ ChannelsInv'
<1>1. q \in Request /\ q.channel \in Channels /\ request' = request \ {q}
  BY DEF OutboxTypeOK, Request, FinishRequest
<1>2. UNCHANGED <<outbox, rows, row, heard, troubles>>
  BY DEF FinishRequest
<1>3. \A p \in request : p.channel \in Channels
  BY DEF OutboxTypeOK, Request
<1>4. CASE q.do = "unseal"
  <2>1. secret' = secret \ {q.channel} /\ UNCHANGED <<channel, owed>> /\ channel[q.channel] = "deleted"
    BY <1>4 DEF FinishRequest, ChannelsInv, RequestsSound
  <2>2. OutboxTypeOK'
    BY <1>1, <1>2, <2>1 DEF OutboxTypeOK
  <2>3. RequestsSound' /\ SealedFirst' /\ ChannelHasSecret'
    BY <1>1, <2>1 DEF ChannelsInv, RequestsSound, SealedFirst, ChannelHasSecret
  <2> QED BY <2>2, <2>3 DEF ChannelsInv
<1>5. CASE q.do # "unseal" /\ channel[q.channel] = "deleted"
  <2>1. UNCHANGED <<channel, owed, secret>>
    BY <1>5 DEF FinishRequest, ChannelsInv, RequestsSound
  <2>2. OutboxTypeOK'
    BY <1>1, <1>2, <2>1 DEF OutboxTypeOK
  <2>3. RequestsSound' /\ SealedFirst' /\ ChannelHasSecret'
    BY <1>1, <2>1 DEF ChannelsInv, RequestsSound, SealedFirst, ChannelHasSecret
  <2> QED BY <2>2, <2>3 DEF ChannelsInv
<1>6. CASE q.do # "unseal" /\ channel[q.channel] # "deleted"
  <2>1. Write(q.channel, Switch(q.on)) /\ UNCHANGED secret
    BY <1>6 DEF FinishRequest
  <2>2. Switch(q.on) \in {"on", "off"}
    BY DEF Switch
  <2>3. channel' = [channel EXCEPT ![q.channel] = Switch(q.on)]
    BY <2>1 DEF Write
  <2>4. \A d \in Channels : channel'[d] = IF d = q.channel THEN Switch(q.on) ELSE channel[d]
    BY <2>3 DEF OutboxTypeOK
  <2>5. OutboxTypeOK'
    BY <1>1, <1>2, <2>1, <2>2, WriteTypes DEF OutboxTypeOK
  <2>6. RequestsSound'
    BY <1>1, <1>3, <1>6, <2>2, <2>4 DEF ChannelsInv, RequestsSound
  <2>7. SealedFirst'
    BY <1>1, <1>3, <1>6, <2>1, <2>2, <2>4 DEF ChannelsInv, SealedFirst
  <2>8. ChannelHasSecret'
    BY <1>1, <1>6, <2>1, <2>2, <2>4 DEF ChannelsInv, SealedFirst, ChannelHasSecret, OutboxAssumption
  <2> QED BY <2>5, <2>6, <2>7, <2>8 DEF ChannelsInv
<1> QED BY <1>4, <1>5, <1>6

\* Requests leave the pass alone; an event is owed to fewer.
LEMMA RequestsAside ==
  ASSUME OutboxAssumption, OutboxTypeOK, DispatchInv,
         UNCHANGED <<outbox, rows, row, heard>>, troubles' \in Nat, troubles' >= troubles,
         \A e \in Events : owed'[e] \subseteq owed[e],
         \A e \in Events : \A c \in owed'[e] : channel'[c] = "on"
  PROVE  DispatchInv'
<1>1. OwedAreOn'
  BY DEF DispatchInv, OwedAreOn, On, Addressed
<1>2. PassIsOfQueue'
  BY DEF DispatchInv, PassIsOfQueue
<1>3. PassedHaveHeard'
  <2>1. row # NoEventRow => row.event \in Events
    BY DEF DispatchInv, PassIsOfQueue, OutboxTypeOK
  <2> QED BY <2>1 DEF DispatchInv, PassedHaveHeard
<1>4. PublishedWasHeard' /\ AttemptsAreLimited'
  BY DEF DispatchInv, PublishedWasHeard, AttemptsAreLimited
<1>5. HeardIsCounted'
  <2>1. \A e \in Events, c \in Channels : heard[e][c] \in Nat /\ Uncounted(e, c) \in 0..1 /\ Uncounted(e, c)' = Uncounted(e, c)
    BY DEF OutboxTypeOK, Uncounted
  <2>2. \A e \in Events : outbox[e].attempts \in Nat
    BY DEF OutboxTypeOK
  <2>3. troubles \in Nat
    BY DEF OutboxTypeOK, OutboxAssumption
  <2> QED BY <2>1, <2>2, <2>3 DEF DispatchInv, HeardIsCounted
<1> QED BY <1>1, <1>2, <1>3, <1>4, <1>5 DEF DispatchInv

LEMMA ChannelSteps ==
  ASSUME OutboxAssumption, OutboxInv,
         \/ \E c \in Channels, on \in BOOLEAN : CreateChannel(c, on) \/ UpdateChannel(c, on)
         \/ \E c \in Channels : DeleteChannel(c)
         \/ \E q \in request : FinishRequest(q) \/ RequestLost(q)
  PROVE  OutboxInv'
<1> USE DEF OutboxInv
<1>0. troubles \in Nat /\ \A e \in Events : \A c \in owed[e] : channel[c] = "on" /\ c \in Channels
  BY DEF OutboxTypeOK, OutboxAssumption, DispatchInv, OwedAreOn, On
<1>1. ASSUME NEW c \in Channels, NEW on \in BOOLEAN, CreateChannel(c, on) \/ UpdateChannel(c, on)
      PROVE  OutboxInv'
  <2>1. UNCHANGED <<channel, outbox, rows, row, heard, owed, troubles>>
    BY <1>1 DEF CreateChannel, UpdateChannel
  <2> QED BY <1>0, <1>1, <2>1, RequestsKeep, RequestsAside
<1>2. ASSUME NEW c \in Channels, DeleteChannel(c)
      PROVE  OutboxInv'
  <2>1. UNCHANGED <<outbox, rows, row, heard, troubles>> /\ Write(c, "deleted")
    BY <1>2 DEF DeleteChannel
  <2>2. \A e \in Events : owed'[e] \subseteq owed[e] /\ c \notin owed'[e]
    BY <2>1 DEF Write
  <2>3. \A d \in Channels : d # c => channel'[d] = channel[d]
    BY <2>1 DEF Write, OutboxTypeOK
  <2> QED BY <1>0, <1>2, <2>1, <2>2, <2>3, DeleteKeeps, RequestsAside
<1>3. ASSUME NEW q \in request, FinishRequest(q)
      PROVE  OutboxInv'
  <2>1. UNCHANGED <<outbox, rows, row, heard, troubles>> /\ q.channel \in Channels
    BY <1>3 DEF FinishRequest, OutboxTypeOK, Request
  <2>2. CASE UNCHANGED <<channel, owed>>
    BY <1>0, <1>3, <2>1, <2>2, FinishKeeps, RequestsAside
  <2>3. CASE Write(q.channel, Switch(q.on))
    <3>1. \A d \in Channels : channel'[d] = IF d = q.channel THEN Switch(q.on) ELSE channel[d]
      BY <2>1, <2>3 DEF Write, OutboxTypeOK
    <3>2. \A e \in Events : owed'[e] \subseteq owed[e]
      BY <2>3 DEF Write
    <3>3. \A e \in Events : \A d \in owed'[e] : d = q.channel => Switch(q.on) = "on"
      BY <2>3 DEF Write
    <3> QED BY <1>0, <1>3, <2>1, <3>1, <3>2, <3>3, FinishKeeps, RequestsAside
  <2> QED BY <1>3, <2>2, <2>3 DEF FinishRequest
<1>4. ASSUME NEW q \in request, RequestLost(q)
      PROVE  OutboxInv'
  <2>1. /\ request' = request \ {q} /\ troubles' = troubles + 1 /\ troubles < MaxTroubles
        /\ UNCHANGED <<channel, secret, outbox, rows, row, heard, owed>>
    BY <1>4 DEF RequestLost
  <2>2. OutboxTypeOK'
    BY <2>1 DEF OutboxTypeOK, OutboxAssumption
  <2>3. ChannelsInv'
    BY <2>1 DEF ChannelsInv, RequestsSound, SealedFirst, ChannelHasSecret
  <2>4. troubles' \in Nat /\ troubles' >= troubles
    BY <1>0, <2>1
  <2> QED BY <1>0, <2>1, <2>2, <2>3, <2>4, RequestsAside
<1> QED BY <1>1, <1>2, <1>3, <1>4

LEMMA QueueLeaves ==
  ASSUME ChannelsInv, UNCHANGED <<channel, secret, request>>
  PROVE  ChannelsInv'
BY DEF ChannelsInv, RequestsSound, SealedFirst, ChannelHasSecret

LEMMA EnqueueKeeps ==
  ASSUME OutboxAssumption, OutboxInv, NEW e \in Events, NEW to \in Addressees, Enqueue(e, to)
  PROVE  OutboxInv'
<1> USE DEF OutboxInv
<1> DEFINE event == [status |-> "queued", to |-> to, attempts |-> 0]
           all == {c \in Channels : On(c) /\ (to = {} \/ c \in to)}
<1>1. /\ outbox[e].status = "none" /\ outbox' = [outbox EXCEPT ![e] = event]
      /\ owed' = [owed EXCEPT ![e] = all]
      /\ UNCHANGED <<channel, secret, request, rows, row, heard, troubles>>
  BY DEF Enqueue
<1>2. to \in SUBSET Channels
  BY DEF OutboxAssumption
<1>3. OutboxTypeOK'
  BY <1>1, <1>2 DEF OutboxTypeOK
<1>4. \A d \in Events : /\ outbox'[d] = IF d = e THEN event ELSE outbox[d]
                        /\ owed'[d] = IF d = e THEN all ELSE owed[d]
  BY <1>1 DEF OutboxTypeOK
<1>5. e \notin rows /\ row.event # e
  BY <1>1 DEF DispatchInv, PassIsOfQueue, OutboxAssumption
<1>6. OwedAreOn'
  <2>1. \A c \in all : channel[c] = "on" /\ (to = {} \/ c \in to)
    BY DEF On
  <2> HIDE DEF all
  <2>2. \A d \in Events : \A c \in owed'[d] : channel'[c] = "on" /\ (outbox'[d].to = {} \/ c \in outbox'[d].to)
    BY <1>1, <1>4, <2>1 DEF DispatchInv, OwedAreOn, On, Addressed
  <2> QED BY <2>2 DEF OwedAreOn, On, Addressed
<1>7. PassIsOfQueue'
  BY <1>1, <1>4, <1>5 DEF DispatchInv, PassIsOfQueue, OutboxTypeOK
<1>8. PassedHaveHeard'
  <2>1. row # NoEventRow => row.event \in Events
    BY DEF DispatchInv, PassIsOfQueue, OutboxTypeOK
  <2> QED BY <1>1, <1>4, <1>5, <2>1 DEF DispatchInv, PassedHaveHeard
<1>9. PublishedWasHeard' /\ AttemptsAreLimited'
  BY <1>1, <1>4 DEF DispatchInv, PublishedWasHeard, AttemptsAreLimited, OutboxAssumption
<1>10. HeardIsCounted'
  <2>1. \A d \in Events, c \in Channels : Uncounted(d, c)' = Uncounted(d, c)
    BY <1>1 DEF Uncounted
  <2>2. outbox[e].attempts = 0
    BY <1>1 DEF DispatchInv, AttemptsAreLimited
  <2> QED BY <1>1, <1>4, <2>1, <2>2 DEF DispatchInv, HeardIsCounted
<1> QED BY <1>1, <1>3, <1>6, <1>7, <1>8, <1>9, <1>10, QueueLeaves DEF DispatchInv

LEMMA ListKeeps ==
  ASSUME OutboxAssumption, OutboxInv, ListUnpublished
  PROVE  OutboxInv'
<1> USE DEF OutboxInv
<1>1. /\ rows = {} /\ row = NoEventRow /\ rows' \subseteq Unpublished
      /\ UNCHANGED <<channel, secret, request, outbox, row, heard, owed, troubles>>
  BY DEF ListUnpublished, Idle
<1>2. OutboxTypeOK'
  BY <1>1 DEF OutboxTypeOK, Unpublished
<1>3. OwedAreOn' /\ PassedHaveHeard' /\ PublishedWasHeard' /\ AttemptsAreLimited'
  BY <1>1 DEF AttemptsAreLimited, DispatchInv, OwedAreOn, On, Addressed, PassedHaveHeard, PublishedWasHeard
<1>4. PassIsOfQueue'
  BY <1>1 DEF DispatchInv, PassIsOfQueue, Unpublished, OutboxAssumption, NoEventRow
<1>5. HeardIsCounted'
  BY <1>1 DEF DispatchInv, HeardIsCounted, Uncounted
<1> QED BY <1>1, <1>2, <1>3, <1>4, <1>5, QueueLeaves DEF DispatchInv

LEMMA TakeKeeps ==
  ASSUME OutboxAssumption, OutboxInv, NEW e \in rows, TakeRow(e)
  PROVE  OutboxInv'
<1> USE DEF OutboxInv
<1> DEFINE left == {c \in Channels : On(c) /\ Addressed(e, c)}
           new == [event |-> e, left |-> left, ok |-> TRUE]
<1>0. e \in Events /\ e # 0
  BY DEF OutboxTypeOK, OutboxAssumption
<1>1. /\ row = NoEventRow /\ rows' = rows \ {e} /\ row' = new
      /\ UNCHANGED <<channel, secret, request, outbox, heard, owed, troubles>>
  BY DEF TakeRow
<1>2. OutboxTypeOK'
  <2>1. new \in [event : Events \cup {0}, left : SUBSET Channels, ok : BOOLEAN]
    BY <1>0
  <2> QED BY <1>1, <2>1 DEF OutboxTypeOK
<1>3. OwedAreOn' /\ PublishedWasHeard' /\ AttemptsAreLimited'
  BY <1>1 DEF AttemptsAreLimited, DispatchInv, OwedAreOn, On, Addressed, PublishedWasHeard
<1>4. PassIsOfQueue'
  <2>1. row'.event = e /\ row' # NoEventRow
    BY <1>0, <1>1 DEF NoEventRow
  <2> QED BY <1>0, <1>1, <2>1 DEF DispatchInv, PassIsOfQueue
<1>5. PassedHaveHeard'
  <2>1. \A c \in owed[e] : c \in left
    BY <1>0 DEF DispatchInv, OwedAreOn, OutboxTypeOK
  <2>2. row'.event = e /\ row'.left = left
    BY <1>1
  <2> QED BY <1>1, <2>1, <2>2 DEF PassedHaveHeard
<1>6. HeardIsCounted'
  <2>1. \A d \in Events, c \in Channels : Uncounted(d, c) = 0 /\ Uncounted(d, c)' \in 0..1
    BY <1>1 DEF Uncounted, NoEventRow, OutboxAssumption
  <2>2. \A d \in Events, c \in Channels : heard[d][c] \in Nat /\ outbox[d].attempts \in Nat /\ troubles \in Nat
    BY DEF OutboxTypeOK, OutboxAssumption
  <2> QED BY <1>1, <2>1, <2>2 DEF DispatchInv, HeardIsCounted
<1> QED BY <1>1, <1>2, <1>3, <1>4, <1>5, <1>6, QueueLeaves DEF DispatchInv

LEMMA DeliverKeeps ==
  ASSUME OutboxAssumption, OutboxInv, NEW c \in row.left, NEW arrives \in BOOLEAN, NEW ok \in BOOLEAN,
         Deliver(c, arrives, ok)
  PROVE  OutboxInv'
<1> USE DEF OutboxInv
<1>0. row # NoEventRow /\ row.event \in Events /\ c \in Channels /\ (ok => arrives)
  BY DEF Deliver, OutboxTypeOK, DispatchInv, PassIsOfQueue
<1>1. /\ row' = [row EXCEPT !.left = @ \ {c}, !.ok = @ /\ ok]
      /\ UNCHANGED <<channel, secret, request, outbox, rows, owed, troubles>>
  BY DEF Deliver
<1>2. row'.event = row.event /\ row'.left = row.left \ {c} /\ row'.ok = (row.ok /\ ok)
  BY <1>1 DEF OutboxTypeOK
<1>3. \A e \in Events, d \in Channels :
        heard'[e][d] = IF arrives /\ e = row.event /\ d = c THEN heard[e][d] + 1 ELSE heard[e][d]
  BY <1>0 DEF Deliver, OutboxTypeOK
<1>4. OutboxTypeOK'
  <2>1. heard' \in [Events -> [Channels -> Nat]]
    BY <1>0 DEF Deliver, OutboxTypeOK
  <2>2. row' \in [event : Events \cup {0}, left : SUBSET Channels, ok : BOOLEAN]
    BY <1>0, <1>1 DEF OutboxTypeOK
  <2> QED BY <1>1, <2>1, <2>2 DEF OutboxTypeOK
<1>5. \A e \in Events, d \in Channels : heard[e][d] \in Nat /\ outbox[e].attempts \in Nat /\ troubles \in Nat
  BY DEF OutboxTypeOK, OutboxAssumption
<1>6. OwedAreOn' /\ PublishedWasHeard' /\ AttemptsAreLimited'
  <2>1. \A e \in Events : owed[e] \subseteq Channels
    BY DEF OutboxTypeOK
  <2>2. \A e \in Events : \A d \in owed[e] : heard[e][d] > 0 => heard'[e][d] > 0
    BY <1>3, <1>5, <2>1
  <2>3. PublishedWasHeard'
    BY <1>1, <2>2 DEF DispatchInv, PublishedWasHeard
  <2> QED BY <1>1, <2>3 DEF DispatchInv, OwedAreOn, On, Addressed, AttemptsAreLimited
<1>7. row' # NoEventRow
  BY <1>0, <1>2 DEF NoEventRow, OutboxAssumption
<1>8. PassIsOfQueue'
  BY <1>0, <1>1, <1>2, <1>7 DEF DispatchInv, PassIsOfQueue, OutboxAssumption
<1>9. PassedHaveHeard'
  <2>1. \A d \in owed[row.event] : d \in Channels
    BY <1>0 DEF OutboxTypeOK
  <2>2. CASE row.ok /\ ok
    BY <1>0, <1>1, <1>2, <1>3, <1>5, <2>1, <2>2 DEF DispatchInv, PassedHaveHeard
  <2>3. CASE ~(row.ok /\ ok)
    BY <1>2, <2>3 DEF PassedHaveHeard
  <2> QED BY <2>2, <2>3
<1>10. HeardIsCounted'
  <2>1. \A e \in Events, d \in Channels :
          Uncounted(e, d)' = IF e = row.event /\ d = c THEN Uncounted(e, d) + 1 ELSE Uncounted(e, d)
    BY <1>0, <1>2 DEF Uncounted
  <2>2. \A e \in Events, d \in Channels : Uncounted(e, d) \in 0..1
    BY DEF Uncounted
  <2>3. \A e \in Events, d \in Channels : heard'[e][d] - Uncounted(e, d)' <= heard[e][d] - Uncounted(e, d)
    BY <1>3, <1>5, <2>1, <2>2
  <2>4. \A e \in Events, d \in Channels : heard'[e][d] \in Nat /\ Uncounted(e, d)' \in Nat
    BY <1>3, <1>5, <2>1, <2>2
  <2> QED BY <1>1, <1>5, <2>2, <2>3, <2>4 DEF DispatchInv, HeardIsCounted
<1> QED BY <1>1, <1>4, <1>6, <1>8, <1>9, <1>10, QueueLeaves DEF DispatchInv

LEMMA MarkKeeps ==
  ASSUME OutboxAssumption, OutboxInv, MarkRow
  PROVE  OutboxInv'
<1> USE DEF OutboxInv
<1> DEFINE e == row.event
<1>0. e \in Events /\ row # NoEventRow /\ row.left = {} /\ outbox[e].status = "queued" /\ outbox[e].attempts < MaxAttempts /\ e \notin rows
  BY DEF MarkRow, OutboxTypeOK, DispatchInv, PassIsOfQueue
<1>1. /\ Mark(e, row.ok) /\ row' = NoEventRow
      /\ UNCHANGED <<channel, secret, request, rows, heard, owed, troubles>>
  BY DEF MarkRow
<1>2. \A d \in Events :
        /\ d # e => outbox'[d] = outbox[d]
        /\ outbox'[d].to = outbox[d].to
  BY <1>1 DEF Mark, OutboxTypeOK
<1>3. outbox'[e].attempts = outbox[e].attempts + 1 /\ outbox'[e].status = IF row.ok THEN "published" ELSE "queued"
  BY <1>0, <1>1 DEF Mark, OutboxTypeOK
<1>4. OutboxTypeOK'
  <2>1. outbox' \in [Events -> [status : {"none", "queued", "published"}, to : SUBSET Channels, attempts : Nat]]
    <3>1. outbox[e] \in [status : {"none", "queued", "published"}, to : SUBSET Channels, attempts : Nat]
      BY <1>0 DEF OutboxTypeOK
    <3>2. outbox' = [outbox EXCEPT ![e] = [outbox[e] EXCEPT !.status = IF row.ok THEN "published" ELSE @, !.attempts = @ + 1]]
      BY <1>0, <1>1 DEF Mark, OutboxTypeOK
    <3>3. [outbox[e] EXCEPT !.status = IF row.ok THEN "published" ELSE @, !.attempts = @ + 1]
            \in [status : {"none", "queued", "published"}, to : SUBSET Channels, attempts : Nat]
      <4> DEFINE s == IF row.ok THEN "published" ELSE outbox[e].status
                 n == outbox[e].attempts + 1
      <4>1. s \in {"none", "queued", "published"} /\ n \in Nat
        BY <3>1
      <4> HIDE DEF s, n
      <4>2. [outbox[e] EXCEPT !.status = s, !.attempts = n] \in [status : {"none", "queued", "published"}, to : SUBSET Channels, attempts : Nat]
        BY <3>1, <4>1
      <4> QED BY <4>2 DEF s, n
    <3> QED BY <1>0, <3>2, <3>3 DEF OutboxTypeOK
  <2>2. NoEventRow \in [event : Events \cup {0}, left : SUBSET Channels, ok : BOOLEAN]
    BY DEF NoEventRow
  <2> QED BY <1>1, <2>1, <2>2 DEF OutboxTypeOK
<1> HIDE DEF e
<1>5. OwedAreOn'
  BY <1>1, <1>2 DEF DispatchInv, OwedAreOn, On, Addressed
<1>6. PublishedWasHeard' /\ AttemptsAreLimited'
  <2>1. row.ok => \A c \in owed[e] : heard[e][c] > 0
    BY <1>0 DEF DispatchInv, PassedHaveHeard, e
  <2>2. AttemptsAreLimited'
    <3>1. outbox[e].attempts \in Nat /\ MaxAttempts \in Nat
      BY <1>0 DEF OutboxTypeOK, OutboxAssumption
    <3> QED BY <1>0, <1>2, <1>3, <3>1 DEF DispatchInv, AttemptsAreLimited
  <2> QED BY <1>0, <1>1, <1>2, <1>3, <2>1, <2>2 DEF DispatchInv, PublishedWasHeard
<1>7. PassIsOfQueue'
  BY <1>0, <1>1, <1>2 DEF DispatchInv, PassIsOfQueue, NoEventRow, OutboxAssumption, OutboxTypeOK
<1>8. PassedHaveHeard'
  BY <1>1 DEF PassedHaveHeard
<1>9. HeardIsCounted'
  <2>1. \A d \in Events, c \in Channels : Uncounted(d, c)' = 0 /\ Uncounted(d, c) \in 0..1 /\ (d # e => Uncounted(d, c) = 0)
    BY <1>0, <1>1 DEF Uncounted, NoEventRow, OutboxAssumption, e
  <2>2. \A d \in Events, c \in Channels : heard[d][c] \in Nat /\ outbox[d].attempts \in Nat /\ troubles \in Nat
    BY DEF OutboxTypeOK, OutboxAssumption
  <2>3. MaxAttempts \in Nat
    BY DEF OutboxAssumption
  <2>4. ASSUME NEW d \in Events, NEW c \in Channels
        PROVE  heard'[d][c] <= outbox'[d].attempts + troubles' + Uncounted(d, c)'
    <3>1. heard[d][c] <= outbox[d].attempts + troubles + Uncounted(d, c)
      BY DEF DispatchInv, HeardIsCounted
    <3>2. CASE d = e
      <4>1. outbox'[d].attempts = outbox[d].attempts + 1
        BY <1>3, <3>2
      <4>2. heard'[d][c] = heard[d][c] /\ troubles' = troubles
        BY <1>1
      <4>3. Uncounted(d, c)' = 0 /\ Uncounted(d, c) \in 0..1 /\ heard[d][c] \in Nat /\ outbox[d].attempts \in Nat /\ troubles \in Nat
        BY <2>1, <2>2
      <4> HIDE DEF OutboxInv
      <4> QED BY <3>1, <4>1, <4>2, <4>3
    <3>3. CASE d # e
      BY <1>1, <1>2, <2>1, <2>2, <3>1, <3>3
    <3> QED BY <3>2, <3>3
  <2> QED BY <2>4 DEF HeardIsCounted
<1> QED BY <1>1, <1>4, <1>5, <1>6, <1>7, <1>8, <1>9, QueueLeaves DEF DispatchInv

LEMMA TroubleKeeps ==
  ASSUME OutboxAssumption, OutboxInv, DispatchTrouble
  PROVE  OutboxInv'
<1> USE DEF OutboxInv
<1>1. /\ troubles < MaxTroubles /\ troubles' = troubles + 1 /\ row' = NoEventRow /\ rows' \subseteq rows
      /\ UNCHANGED <<channel, secret, request, outbox, heard, owed>>
  BY DEF DispatchTrouble
<1>2. OutboxTypeOK'
  <2>1. NoEventRow \in [event : Events \cup {0}, left : SUBSET Channels, ok : BOOLEAN]
    BY DEF NoEventRow
  <2> QED BY <1>1, <2>1 DEF OutboxTypeOK, OutboxAssumption
<1>3. OwedAreOn' /\ PublishedWasHeard' /\ PassedHaveHeard' /\ AttemptsAreLimited'
  BY <1>1 DEF AttemptsAreLimited, DispatchInv, OwedAreOn, On, Addressed, PublishedWasHeard, PassedHaveHeard
<1>4. PassIsOfQueue'
  BY <1>1 DEF DispatchInv, PassIsOfQueue, NoEventRow, OutboxAssumption, OutboxTypeOK
<1>5. HeardIsCounted'
  <2>1. \A d \in Events, c \in Channels : Uncounted(d, c)' = 0 /\ Uncounted(d, c) \in 0..1
    BY <1>1 DEF Uncounted, NoEventRow, OutboxAssumption
  <2>2. \A d \in Events, c \in Channels : heard[d][c] \in Nat /\ outbox[d].attempts \in Nat /\ troubles \in Nat
    BY DEF OutboxTypeOK, OutboxAssumption
  <2> QED BY <1>1, <2>1, <2>2 DEF DispatchInv, HeardIsCounted
<1> QED BY <1>1, <1>2, <1>3, <1>4, <1>5, QueueLeaves DEF DispatchInv

LEMMA NextOutbox ==
  ASSUME OutboxAssumption, OutboxInv, OutboxNext \/ UNCHANGED outboxVars
  PROVE  OutboxInv'
<1>1. CASE UNCHANGED outboxVars
  BY <1>1 DEF outboxVars, OutboxInv, OutboxTypeOK, ChannelsInv, RequestsSound, SealedFirst, ChannelHasSecret, DispatchInv,
     OwedAreOn, On, Addressed, PassIsOfQueue, PassedHaveHeard, HeardIsCounted, AttemptsAreLimited, Uncounted, PublishedWasHeard
<1>2. CASE DispatchPending
  BY <1>2, ListKeeps, TakeKeeps, DeliverKeeps, MarkKeeps DEF DispatchPending
<1> QED BY <1>1, <1>2, ChannelSteps, EnqueueKeeps, TroubleKeeps DEF OutboxNext

LEMMA OutboxIsSound ==
  ASSUME OutboxAssumption, OutboxInv
  PROVE  ChannelHasSecret /\ PublishedWasHeard /\ HeardIsBounded
<1>1. HeardIsBounded
  <2> SUFFICES ASSUME NEW e \in Events, NEW c \in Channels
               PROVE  heard[e][c] <= MaxAttempts + troubles
    BY DEF HeardIsBounded
  <2>1. heard[e][c] \in Nat /\ outbox[e].attempts \in Nat /\ troubles \in Nat /\ MaxAttempts \in Nat
    BY DEF OutboxInv, OutboxTypeOK, OutboxAssumption
  <2>2. Uncounted(e, c) = 1 => outbox[e].attempts < MaxAttempts
    BY DEF Uncounted, OutboxInv, DispatchInv, PassIsOfQueue, OutboxAssumption
  <2>3. Uncounted(e, c) \in 0..1
    BY DEF Uncounted
  <2>4. heard[e][c] <= outbox[e].attempts + troubles + Uncounted(e, c)
    BY DEF OutboxInv, DispatchInv, HeardIsCounted
  <2>5. outbox[e].attempts <= MaxAttempts
    BY DEF OutboxInv, DispatchInv, AttemptsAreLimited
  <2> QED BY <2>1, <2>2, <2>3, <2>4, <2>5
<1> QED BY <1>1 DEF OutboxInv, ChannelsInv, DispatchInv

---------------------------------------------------------------------------
(* Alerts.  Which process calls a key firing, and how many of its alerts   *)
(* are not resolved, differ by no more than the restarts there were.       *)

FiringAt(k) == {w \in Evaluators : k \in firing[w]}

UnresolvedAreFiring ==
  \A k \in Keys :
    /\ alerts[k] - resolved[k] <= Cardinality(FiringAt(k)) + restarts
    /\ alerts[k] - resolved[k] >= Cardinality(FiringAt(k)) - restarts

AlertsInv == AlertTypeOK /\ UnresolvedAreFiring

LEMMA InitAlerts ==
  ASSUME AlertAssumption, AlertInit
  PROVE  AlertsInv
<1>1. AlertTypeOK
  BY DEF AlertAssumption, AlertInit, AlertTypeOK
<1>2. \A k \in Keys : FiringAt(k) = {}
  BY DEF AlertInit, FiringAt
<1>3. Cardinality({}) = 0
  BY FS_EmptySet
<1>4. /\ \A k \in Keys : alerts[k] = 0 /\ resolved[k] = 0 /\ Cardinality(FiringAt(k)) = 0
      /\ restarts = 0
  BY <1>2, <1>3 DEF AlertInit
<1>5. UnresolvedAreFiring
  BY <1>4 DEF UnresolvedAreFiring
<1> QED BY <1>1, <1>5 DEF AlertsInv

LEMMA FiringIsFinite ==
  ASSUME AlertAssumption, NEW k
  PROVE  IsFiniteSet(FiringAt(k)) /\ Cardinality(FiringAt(k)) \in Nat
<1>1. IsFiniteSet(FiringAt(k))
  BY FS_Subset DEF FiringAt, AlertAssumption
<1> QED BY <1>1, FS_CardinalityType

\* What an evaluation, or a restart, does to the number of those that call a
\* key firing.
LEMMA FiringChanges ==
  ASSUME AlertAssumption, AlertTypeOK, NEW w \in Evaluators, NEW k \in Keys,
         NEW f \in SUBSET Keys, firing' = [firing EXCEPT ![w] = f]
  PROVE  Cardinality(FiringAt(k))' =
           Cardinality(FiringAt(k)) + (IF k \in f THEN 1 ELSE 0) - (IF k \in firing[w] THEN 1 ELSE 0)
<1>1. \A v \in Evaluators : firing'[v] = IF v = w THEN f ELSE firing[v]
  BY DEF AlertTypeOK
<1>2. FiringAt(k)' = IF k \in f THEN FiringAt(k) \cup {w} ELSE FiringAt(k) \ {w}
  BY <1>1 DEF FiringAt
<1>3. w \in FiringAt(k) <=> k \in firing[w]
  BY DEF FiringAt
<1>4. /\ IsFiniteSet(FiringAt(k)) /\ Cardinality(FiringAt(k)) \in Nat
      /\ Cardinality(FiringAt(k) \cup {w}) = IF w \in FiringAt(k) THEN Cardinality(FiringAt(k)) ELSE Cardinality(FiringAt(k)) + 1
      /\ Cardinality(FiringAt(k) \ {w}) = IF w \in FiringAt(k) THEN Cardinality(FiringAt(k)) - 1 ELSE Cardinality(FiringAt(k))
  BY FiringIsFinite, FS_AddElement, FS_RemoveElement
<1>5. Cardinality(FiringAt(k))' = Cardinality(IF k \in f THEN FiringAt(k) \cup {w} ELSE FiringAt(k) \ {w})
  BY <1>2
<1>6. CASE k \in f
  <2>1. Cardinality(FiringAt(k))' = Cardinality(FiringAt(k) \cup {w})
    BY <1>5, <1>6
  <2> QED BY <2>1, <1>3, <1>4, <1>6
<1>7. CASE k \notin f
  <2>1. Cardinality(FiringAt(k))' = Cardinality(FiringAt(k) \ {w})
    BY <1>5, <1>7
  <2> QED BY <2>1, <1>3, <1>4, <1>7
<1> QED BY <1>6, <1>7

LEMMA EvaluateKeeps ==
  ASSUME AlertAssumption, AlertsInv, NEW w \in Evaluators, NEW k \in Keys, NEW ok \in BOOLEAN,
         EvaluateOne(w, k, ok)
  PROVE  AlertsInv'
<1> USE DEF AlertsInv
<1>1. /\ restarts' = IF ok THEN restarts ELSE restarts + 1
      /\ ok \/ restarts < MaxRestarts
      /\ UNCHANGED <<tick, rule, sample>> /\ restarts \in 0 .. MaxRestarts /\ MaxRestarts \in Nat
  BY DEF EvaluateOne, AlertTypeOK, AlertAssumption
<1>2. \A l \in Keys : alerts[l] \in Nat /\ resolved[l] \in Nat /\ Cardinality(FiringAt(l)) \in Nat
  BY FiringIsFinite DEF AlertTypeOK
<1>3. CASE Recover(w, k, ok)
  <2> DEFINE f == firing[w] \ {k}
  <2>1. /\ resolved' = IF k \in firing[w] THEN Queued(resolved, k, ok) ELSE resolved
        /\ firing' = [firing EXCEPT ![w] = f] /\ UNCHANGED alerts
        /\ breaching' = [breaching EXCEPT ![w][k] = -1] /\ calm' = [calm EXCEPT ![k] = tick]
    BY <1>3 DEF Recover
  <2>4. f \in SUBSET Keys /\ (\A l \in Keys : l \in f <=> l \in firing[w] /\ l # k)
    BY DEF AlertTypeOK
  <2> HIDE DEF f
  <2>2. AlertTypeOK'
    <3>1. breaching' \in [Evaluators -> [Keys -> -1 .. LastTick]]
      BY <2>1 DEF AlertTypeOK, AlertAssumption
    <3>2. resolved' \in [Keys -> Nat]
      BY <2>1 DEF AlertTypeOK, Queued
    <3>3. calm' \in [Keys -> 0 .. LastTick]
      BY <2>1 DEF AlertTypeOK, AlertAssumption
    <3>4. firing' \in [Evaluators -> SUBSET Keys]
      BY <2>1, <2>4 DEF AlertTypeOK
    <3> QED BY <1>1, <2>1, <3>1, <3>2, <3>3, <3>4 DEF AlertTypeOK
  <2>3. ASSUME NEW l \in Keys
        PROVE  /\ alerts'[l] - resolved'[l] <= Cardinality(FiringAt(l))' + restarts'
               /\ alerts'[l] - resolved'[l] >= Cardinality(FiringAt(l))' - restarts'
    <3>1. Cardinality(FiringAt(l))' =
            Cardinality(FiringAt(l)) + (IF l \in f THEN 1 ELSE 0) - (IF l \in firing[w] THEN 1 ELSE 0)
      BY <2>1, <2>4, FiringChanges
    <3>2. Cardinality(FiringAt(l))' = IF l = k /\ k \in firing[w] THEN Cardinality(FiringAt(l)) - 1 ELSE Cardinality(FiringAt(l))
      BY <1>2, <2>4, <3>1
    <3>3. resolved'[l] = IF l = k /\ k \in firing[w] /\ ok THEN resolved[l] + 1 ELSE resolved[l]
      BY <2>1 DEF Queued, AlertTypeOK
    <3> QED BY <1>1, <1>2, <2>1, <3>2, <3>3 DEF UnresolvedAreFiring
  <2> QED BY <2>2, <2>3 DEF UnresolvedAreFiring
<1>4. CASE Breach(w, k, ok)
  <2> DEFINE fire == k \notin firing[w] /\ tick - Since(w, k) >= ForTicks
             f == IF fire THEN firing[w] \cup {k} ELSE firing[w]
  <2>1. /\ alerts' = IF fire THEN Queued(alerts, k, ok) ELSE alerts
        /\ firing' = [firing EXCEPT ![w] = f] /\ UNCHANGED <<resolved, calm>>
        /\ breaching' = [breaching EXCEPT ![w][k] = Since(w, k)]
    BY <1>4 DEF Breach, AlertTypeOK
  <2>2. fire => k \notin firing[w]
    OBVIOUS
  <2>3. f = IF fire THEN firing[w] \cup {k} ELSE firing[w]
    OBVIOUS
  <2> HIDE DEF fire, f
  <2>4. f \in SUBSET Keys
    BY <2>3 DEF AlertTypeOK
  <2>5. AlertTypeOK'
    <3>1. Since(w, k) \in -1 .. LastTick
      BY DEF Since, AlertTypeOK, AlertAssumption
    <3>2. breaching' \in [Evaluators -> [Keys -> -1 .. LastTick]]
      BY <2>1, <3>1 DEF AlertTypeOK
    <3>3. alerts' \in [Keys -> Nat]
      BY <2>1 DEF AlertTypeOK, Queued
    <3>4. firing' \in [Evaluators -> SUBSET Keys]
      BY <2>1, <2>4 DEF AlertTypeOK
    <3> QED BY <1>1, <2>1, <3>2, <3>3, <3>4 DEF AlertTypeOK
  <2>6. ASSUME NEW l \in Keys
        PROVE  /\ alerts'[l] - resolved'[l] <= Cardinality(FiringAt(l))' + restarts'
               /\ alerts'[l] - resolved'[l] >= Cardinality(FiringAt(l))' - restarts'
    <3>1. Cardinality(FiringAt(l))' =
            Cardinality(FiringAt(l)) + (IF l \in f THEN 1 ELSE 0) - (IF l \in firing[w] THEN 1 ELSE 0)
      BY <2>1, <2>4, FiringChanges
    <3>2. Cardinality(FiringAt(l))' = IF l = k /\ fire THEN Cardinality(FiringAt(l)) + 1 ELSE Cardinality(FiringAt(l))
      BY <1>2, <2>2, <2>3, <3>1
    <3>3. alerts'[l] = IF l = k /\ fire /\ ok THEN alerts[l] + 1 ELSE alerts[l]
      BY <2>1 DEF Queued, AlertTypeOK
    <3> QED BY <1>1, <1>2, <2>1, <3>2, <3>3 DEF UnresolvedAreFiring
  <2> QED BY <2>5, <2>6 DEF UnresolvedAreFiring
<1> QED BY <1>3, <1>4 DEF EvaluateOne

LEMMA RestartKeeps ==
  ASSUME AlertAssumption, AlertsInv, NEW w \in Evaluators, Restart(w)
  PROVE  AlertsInv'
<1> USE DEF AlertsInv
<1>1. /\ restarts' = restarts + 1 /\ restarts < MaxRestarts
      /\ firing' = [firing EXCEPT ![w] = {}]
      /\ breaching' = [breaching EXCEPT ![w] = [k \in Keys |-> -1]]
      /\ UNCHANGED <<tick, rule, sample, alerts, resolved, calm>> /\ restarts \in 0 .. MaxRestarts /\ MaxRestarts \in Nat
  BY DEF Restart, AlertTypeOK, AlertAssumption
<1>2. AlertTypeOK'
  <2>1. breaching' \in [Evaluators -> [Keys -> -1 .. LastTick]]
    BY <1>1 DEF AlertTypeOK, AlertAssumption
  <2>2. firing' \in [Evaluators -> SUBSET Keys]
    BY <1>1 DEF AlertTypeOK
  <2> QED BY <1>1, <2>1, <2>2 DEF AlertTypeOK
<1>3. ASSUME NEW l \in Keys
      PROVE  /\ alerts'[l] - resolved'[l] <= Cardinality(FiringAt(l))' + restarts'
             /\ alerts'[l] - resolved'[l] >= Cardinality(FiringAt(l))' - restarts'
  <2> DEFINE none == {}
  <2>3. firing' = [firing EXCEPT ![w] = none]
    BY <1>1
  <2>4. none \in SUBSET Keys /\ l \notin none
    OBVIOUS
  <2> HIDE DEF none
  <2>1. Cardinality(FiringAt(l))' \in {Cardinality(FiringAt(l)), Cardinality(FiringAt(l)) - 1}
    <3>1. Cardinality(FiringAt(l))' =
            Cardinality(FiringAt(l)) + (IF l \in none THEN 1 ELSE 0) - (IF l \in firing[w] THEN 1 ELSE 0)
      BY <2>3, <2>4, FiringChanges
    <3> QED BY <2>4, <3>1, FiringIsFinite
  <2>2. alerts[l] \in Nat /\ resolved[l] \in Nat /\ Cardinality(FiringAt(l)) \in Nat
    BY FiringIsFinite DEF AlertTypeOK
  <2> QED BY <1>1, <2>1, <2>2 DEF UnresolvedAreFiring
<1> QED BY <1>2, <1>3 DEF UnresolvedAreFiring

LEMMA NextAlerts ==
  ASSUME AlertAssumption, AlertsInv, AlertNext \/ UNCHANGED alertVars
  PROVE  AlertsInv'
<1> USE DEF AlertsInv
<1>1. ASSUME UNCHANGED <<firing, alerts, resolved, restarts>>, AlertTypeOK'
      PROVE  AlertsInv'
  BY <1>1 DEF UnresolvedAreFiring, FiringAt
<1>2. CASE UNCHANGED alertVars
  BY <1>1, <1>2 DEF alertVars, AlertTypeOK
<1>3. ASSUME NEW r \in Rules, NEW written \in RuleRow \cup {NoRule}, WriteRule(r, written)
      PROVE  AlertsInv'
  BY <1>1, <1>3 DEF WriteRule, AlertTypeOK
<1>4. ASSUME NEW h \in Hosts, NEW s \in Samples, Measure(h, s)
      PROVE  AlertsInv'
  BY <1>1, <1>4 DEF Measure, AlertTypeOK
<1>5. CASE NextRound
  BY <1>1, <1>5 DEF NextRound, AlertTypeOK, AlertAssumption
<1> QED BY <1>2, <1>3, <1>4, <1>5, EvaluateKeeps, RestartKeeps DEF AlertNext, CreateRule, UpdateRule, DeleteRule

LEMMA AlertsAreSound ==
  ASSUME AlertAssumption, AlertsInv
  PROVE  AnnouncedOnce
<1> SUFFICES ASSUME NEW k \in Keys
             PROVE  /\ alerts[k] - resolved[k] <= Cardinality(Evaluators) + restarts
                    /\ resolved[k] - alerts[k] <= restarts
  BY DEF AnnouncedOnce
<1>1. Cardinality(FiringAt(k)) <= Cardinality(Evaluators) /\ Cardinality(Evaluators) \in Nat
  BY FS_Subset, FS_CardinalityType DEF FiringAt, AlertAssumption
<1>2. alerts[k] \in Nat /\ resolved[k] \in Nat /\ Cardinality(FiringAt(k)) \in Nat /\ restarts \in Nat
  BY FiringIsFinite DEF AlertsInv, AlertTypeOK, AlertAssumption
<1> QED BY <1>1, <1>2 DEF AlertsInv, UnresolvedAreFiring

---------------------------------------------------------------------------
(* The schema history.  The processes that read, compare and record run    *)
(* between each other: what one has compared with may be pruned when it    *)
(* records, but its id is not given to another snapshot meanwhile.         *)

IdLimit == Keep + Cardinality(Refreshers) + 1
Hashes  == Structures \cup {Torn, Unread}

SnapshotRow == [id : Nat \ {0}, hash : Hashes, prev : Nat, told : Nat]

Doing == [kind : {"none", "catalog", "snapshot"},
          step : {"none", "read", "reading", "replace", "latest", "add", "notify"},
          pass : BOOLEAN, read : Hashes, prev : Nat]

HistoryTypeOK ==
  /\ structure \in Hashes /\ historyTroubles \in Nat
  /\ snapshots \in Seq(SnapshotRow) /\ Len(snapshots) <= Keep
  /\ work \in [Refreshers -> Doing]

IdsDiffer == \A i, j \in 1..Len(snapshots) : snapshots[i].id = snapshots[j].id => i = j

\* What a snapshot is said to follow is kept.
PrevKept ==
  \A i \in 1..Len(snapshots) : snapshots[i].prev # 0 => Kept(snapshots[i].prev)

\* Who is about to record has seen that the latest snapshot differs.
AddIsReal ==
  \A p \in Refreshers, i \in 1..Len(snapshots) :
    work[p].step = "add" /\ snapshots[i].id = work[p].prev => snapshots[i].hash # work[p].read

\* Each announcement to come is of another snapshot, not yet announced.
NotifiersDiffer ==
  \A p, q \in Refreshers :
    work[p].step = "notify" /\ work[q].step = "notify" /\ work[p].prev = work[q].prev => p = q
NotYetTold ==
  \A p \in Refreshers, i \in 1..Len(snapshots) :
    work[p].step = "notify" /\ snapshots[i].id = work[p].prev => snapshots[i].told = 0
ToldOnce == \A i \in 1..Len(snapshots) : snapshots[i].told <= 1

WillBeTold ==
  \A i \in 1..Len(snapshots) :
    historyTroubles = 0 /\ snapshots[i].prev # 0 /\ snapshots[i].told = 0 =>
      \E p \in Refreshers : work[p].step = "notify" /\ work[p].prev = snapshots[i].id

HistoryInv ==
  /\ HistoryTypeOK /\ IdsDiffer /\ PrevKept /\ ChangesAreReal /\ AddIsReal
  /\ NotifiersDiffer /\ NotYetTold /\ ToldOnce /\ WillBeTold

LEMMA InitHistory ==
  ASSUME HistoryAssumption, HistoryInit
  PROVE  HistoryInv
<1>1. snapshots = <<>> /\ Len(snapshots) = 0 /\ historyTroubles = 0 /\ structure \in Structures
  BY DEF HistoryInit
<1>2. \A p \in Refreshers : work[p] = Resting
  BY DEF HistoryInit
<1>3. snapshots \in Seq(SnapshotRow) /\ 1..Len(snapshots) = {}
  BY <1>1
<1>4. Resting \in Doing
  BY DEF Resting, Doing, Hashes
<1>5. HistoryTypeOK
  BY <1>1, <1>3, <1>4 DEF HistoryTypeOK, HistoryInit, HistoryAssumption, Hashes
<1>6. \A p \in Refreshers : work[p].step = "none"
  BY <1>2 DEF Resting
<1>7. AddIsReal /\ NotifiersDiffer /\ NotYetTold
  BY <1>6 DEF AddIsReal, NotifiersDiffer, NotYetTold
<1>8. IdsDiffer /\ PrevKept /\ ChangesAreReal /\ ToldOnce /\ WillBeTold
  BY <1>3 DEF IdsDiffer, PrevKept, ChangesAreReal, ToldOnce, WillBeTold
<1> QED BY <1>5, <1>7, <1>8 DEF HistoryInv

LEMMA UpTo ==
  ASSUME NEW n \in Nat
  PROVE  IsFiniteSet(1..n) /\ Cardinality(1..n) = n
BY FS_Interval

\* There is an id that no snapshot and no process knows: fewer are in use than
\* there are to choose from.
LEMMA FreeIdExists ==
  ASSUME HistoryAssumption, HistoryTypeOK
  PROVE  /\ NewId \in 1..IdLimit /\ ~Kept(NewId)
         /\ \A p \in Refreshers : work[p].prev # NewId
<1> DEFINE InKept == {snapshots[i].id : i \in 1..Len(snapshots)}
           InWork == {work[p].prev : p \in Refreshers}
           f == [i \in 1..Len(snapshots) |-> snapshots[i].id]
           g == [p \in Refreshers |-> work[p].prev]
<1>0. Keep \in Nat /\ Len(snapshots) \in Nat /\ Len(snapshots) <= Keep /\ IsFiniteSet(Refreshers)
  BY DEF HistoryAssumption, HistoryTypeOK
<1>1. Cardinality(Refreshers) \in Nat
  BY <1>0, FS_CardinalityType
<1>2. IsFiniteSet(1..Len(snapshots)) /\ Cardinality(1..Len(snapshots)) = Len(snapshots)
  BY <1>0, UpTo
<1>3. IsFiniteSet(InKept) /\ Cardinality(InKept) <= Len(snapshots)
  <2>1. f \in Surjection(1..Len(snapshots), InKept)
    BY DEF Surjection
  <2> HIDE DEF f, InKept
  <2>2. IsFiniteSet(InKept) /\ Cardinality(InKept) <= Cardinality(1..Len(snapshots))
    BY <2>1, <1>2, FS_Surjection
  <2> QED BY <2>2, <1>2
<1>4. IsFiniteSet(InWork) /\ Cardinality(InWork) <= Cardinality(Refreshers)
  <2>1. g \in Surjection(Refreshers, InWork)
    BY DEF Surjection
  <2> QED BY <2>1, <1>0, FS_Surjection
<1> HIDE DEF InKept, InWork
<1>5. /\ IsFiniteSet(InKept \cup InWork)
      /\ Cardinality(InKept \cup InWork) <= Keep + Cardinality(Refreshers)
  <2>1. /\ IsFiniteSet(InKept \cup InWork)
        /\ Cardinality(InKept \cup InWork) = Cardinality(InKept) + Cardinality(InWork) - Cardinality(InKept \cap InWork)
    BY <1>3, <1>4, FS_Union
  <2>2. InKept \cap InWork \in SUBSET InKept
    OBVIOUS
  <2>3. Cardinality(InKept \cap InWork) \in Nat /\ Cardinality(InKept) \in Nat /\ Cardinality(InWork) \in Nat
    BY <1>3, <1>4, <2>2, FS_Subset, FS_CardinalityType
  <2> QED BY <2>1, <2>3, <1>0, <1>1, <1>3, <1>4
<1>6. IdLimit \in Nat /\ Cardinality(1..IdLimit) = IdLimit
  <2>1. IdLimit \in Nat
    BY <1>0, <1>1 DEF IdLimit
  <2> QED BY <2>1, UpTo
<1>7. PICK n \in 1..IdLimit : n \notin InKept \cup InWork
  <2>1. SUFFICES ASSUME 1..IdLimit \in SUBSET (InKept \cup InWork)
                 PROVE  FALSE
    OBVIOUS
  <2>2. Cardinality(1..IdLimit) <= Cardinality(InKept \cup InWork)
    BY <1>5, <2>1, FS_Subset
  <2>3. Cardinality(InKept \cup InWork) \in Nat
    BY <1>5, FS_CardinalityType
  <2> QED BY <1>0, <1>1, <1>5, <1>6, <2>2, <2>3 DEF IdLimit
<1>8. ~Kept(n) /\ \A p \in Refreshers : work[p].prev # n
  BY <1>7 DEF Kept, InKept, InWork
<1>9. NewId = CHOOSE m \in 1..IdLimit : ~Kept(m) /\ \A p \in Refreshers : work[p].prev # m
  BY DEF NewId, IdLimit
<1> QED BY <1>8, <1>9

\* A step that records and announces nothing.
LEMMA HistoryQuiet ==
  ASSUME HistoryAssumption, HistoryInv, snapshots' = snapshots,
         structure' \in Hashes, work' \in [Refreshers -> Doing], historyTroubles' \in Nat,
         historyTroubles' = 0 => historyTroubles = 0,
         \A p \in Refreshers, i \in 1..Len(snapshots) :
           work'[p].step = "add" /\ snapshots[i].id = work'[p].prev => snapshots[i].hash # work'[p].read,
         \A p \in Refreshers :
           work'[p].step = "notify" => work[p].step = "notify" /\ work'[p].prev = work[p].prev,
         \A p \in Refreshers :
           work[p].step = "notify" /\ historyTroubles' = 0 => work'[p].step = "notify" /\ work'[p].prev = work[p].prev
  PROVE  HistoryInv'
<1> USE DEF HistoryInv
<1>1. HistoryTypeOK' /\ IdsDiffer' /\ PrevKept' /\ ChangesAreReal' /\ AddIsReal' /\ ToldOnce'
  BY DEF HistoryTypeOK, IdsDiffer, PrevKept, ChangesAreReal, AddIsReal, ToldOnce, Kept
<1>2. NotifiersDiffer'
  BY DEF NotifiersDiffer
<1>3. NotYetTold'
  BY DEF NotYetTold
<1>4. WillBeTold'
  BY DEF WillBeTold
<1> QED BY <1>1, <1>2, <1>3, <1>4

\* The snapshot that comes to stand at i, when off go from the front.
Source(x, off, i) == IF i + off = Len(snapshots) + 1 THEN x ELSE snapshots[i + off]

PrunedTo(t, x, off) ==
  /\ t \in Seq(SnapshotRow) /\ Len(t) = Len(snapshots) + 1 - off /\ Len(t) <= Keep
  /\ \A i \in 1..Len(t) :
       /\ t[i].id = Source(x, off, i).id /\ t[i].hash = Source(x, off, i).hash
       /\ t[i].told = Source(x, off, i).told /\ t[i].prev \in {0, Source(x, off, i).prev}
       /\ t[i].prev # 0 => \E j \in 1..Len(t) : t[j].id = t[i].prev

\* What pruning leaves of the snapshots when one is added.
LEMMA PrunedAt ==
  ASSUME HistoryAssumption, HistoryTypeOK, NEW x \in SnapshotRow, NEW t, t = Pruned(Append(snapshots, x))
  PROVE  \E off \in {0, 1} : PrunedTo(t, x, off)
<1> DEFINE s == Append(snapshots, x)
           n == Len(snapshots)
           off == IF n + 1 > Keep THEN 1 ELSE 0
           kept == SubSeq(s, IF Len(s) > Keep THEN Len(s) - Keep + 1 ELSE 1, Len(s))
<1>1. Keep \in Nat \ {0} /\ n \in Nat /\ n <= Keep /\ snapshots \in Seq(SnapshotRow)
  BY DEF HistoryAssumption, HistoryTypeOK
<1>2. /\ s \in Seq(SnapshotRow) /\ Len(s) = n + 1 /\ off \in {0, 1} /\ n + 1 - off \in Nat
      /\ n + 1 - off <= Keep
      /\ (IF Len(s) > Keep THEN Len(s) - Keep + 1 ELSE 1) = off + 1
  BY <1>1
<1>3. \A i \in 1..(n + 1) : s[i] = IF i = n + 1 THEN x ELSE snapshots[i]
  BY <1>1
<1>4. kept = SubSeq(s, off + 1, n + 1)
  BY <1>2
<1> HIDE DEF s, n, off, kept
<1>5. /\ Len(kept) = n + 1 - off /\ kept \in Seq(SnapshotRow)
      /\ \A i \in 1..(n + 1 - off) : kept[i] = s[i + off]
  BY <1>1, <1>2, <1>4
<1>6. t = [i \in 1..Len(kept) |-> IF \E j \in 1..Len(kept) : kept[j].id = kept[i].prev THEN kept[i] ELSE [kept[i] EXCEPT !.prev = 0]]
  BY DEF Pruned, kept, s
<1> DEFINE m == n + 1 - off
<1>7. Len(kept) = m /\ m \in Nat
  BY <1>2, <1>5
<1> HIDE DEF m
<1>8. ASSUME NEW i \in 1..m
      PROVE  /\ kept[i] \in SnapshotRow /\ t[i] \in SnapshotRow
             /\ t[i].id = kept[i].id /\ t[i].hash = kept[i].hash /\ t[i].told = kept[i].told
             /\ t[i].prev \in {0, kept[i].prev}
             /\ t[i].prev # 0 => \E j \in 1..m : kept[j].id = t[i].prev
  <2>1. kept[i] \in SnapshotRow
    BY <1>5, <1>7
  <2>2. t[i] = IF \E j \in 1..m : kept[j].id = kept[i].prev THEN kept[i] ELSE [kept[i] EXCEPT !.prev = 0]
    BY <1>6, <1>7
  <2>3. CASE \E j \in 1..m : kept[j].id = kept[i].prev
    <3>1. t[i] = kept[i]
      BY <2>2, <2>3
    <3> QED BY <2>1, <2>3, <3>1
  <2>4. CASE ~\E j \in 1..m : kept[j].id = kept[i].prev
    <3>1. t[i] = [kept[i] EXCEPT !.prev = 0]
      BY <2>2, <2>4
    <3> HIDE DEF kept
    <3>2. t[i] \in SnapshotRow
      BY <2>1, <3>1 DEF SnapshotRow
    <3>3. t[i].id = kept[i].id /\ t[i].hash = kept[i].hash /\ t[i].told = kept[i].told /\ t[i].prev = 0
      BY <2>1, <3>1 DEF SnapshotRow
    <3> QED BY <2>1, <3>2, <3>3
  <2> QED BY <2>3, <2>4
<1>9. t \in Seq(SnapshotRow) /\ Len(t) = m
  <2>1. t = [i \in 1..m |-> t[i]] /\ DOMAIN t = 1..m
    BY <1>6, <1>7
  <2>2. t \in [1..m -> SnapshotRow]
    BY <1>8, <2>1
  <2>3. t \in Seq(SnapshotRow)
    BY <1>7, <2>2
  <2> QED BY <1>7, <2>1, <2>3
<1>10. ASSUME NEW i \in 1..m
       PROVE  i + off \in 1..(n + 1) /\ kept[i] = IF i + off = n + 1 THEN x ELSE snapshots[i + off]
  <2>1. i + off \in 1..(n + 1) /\ i \in 1..(n + 1 - off)
    BY <1>1, <1>2 DEF m, n
  <2> QED BY <1>3, <1>5, <2>1
<1>11. Len(t) = Len(snapshots) + 1 - off /\ Len(t) <= Keep
  BY <1>2, <1>9 DEF m, n
<1>12. ASSUME NEW i \in 1..Len(t)
       PROVE  /\ t[i].id = Source(x, off, i).id /\ t[i].hash = Source(x, off, i).hash
              /\ t[i].told = Source(x, off, i).told /\ t[i].prev \in {0, Source(x, off, i).prev}
              /\ t[i].prev # 0 => \E j \in 1..Len(t) : t[j].id = t[i].prev
  <2>1. i \in 1..m /\ 1..Len(t) = 1..m
    BY <1>9
  <2>2. kept[i] = Source(x, off, i)
    BY <1>10, <2>1 DEF n, Source
  <2>3. t[i].prev # 0 => \E j \in 1..m : t[j].id = t[i].prev
    BY <1>8, <2>1
  <2> QED BY <1>8, <2>1, <2>2, <2>3
<1> QED BY <1>2, <1>9, <1>11, <1>12 DEF PrunedTo

LEMMA AddKeeps ==
  ASSUME HistoryAssumption, HistoryInv, NEW p \in Refreshers, Add(p)
  PROVE  HistoryInv'
<1> USE DEF HistoryInv
<1> DEFINE x == Snapshot(p, work[p].prev)
           n == Len(snapshots)
           new == IF work[p].prev # 0 THEN [work[p] EXCEPT !.step = "notify", !.prev = NewId] ELSE Resting
<1>1. /\ work[p].step = "add" /\ (work[p].prev = 0 \/ Kept(work[p].prev))
      /\ snapshots' = Pruned(Append(snapshots, x))
      /\ work' = [work EXCEPT ![p] = new]
      /\ UNCHANGED <<structure, historyTroubles>>
  BY DEF Add
<1>2. /\ NewId \in Nat \ {0} /\ ~Kept(NewId)
      /\ \A q \in Refreshers : work[q].prev # NewId
  <2>1. Keep \in Nat /\ Cardinality(Refreshers) \in Nat
    BY FS_CardinalityType DEF HistoryAssumption
  <2> QED BY FreeIdExists, <2>1 DEF IdLimit
<1>3. work[p] \in Doing
  BY DEF HistoryTypeOK
<1>4. /\ x \in SnapshotRow /\ x.id = NewId /\ x.hash = work[p].read /\ x.prev = work[p].prev /\ x.told = 0
  BY <1>2, <1>3 DEF Snapshot, SnapshotRow, Doing
<1>5. /\ new \in Doing
      /\ new.step # "add"
      /\ new.step = "notify" => new.prev = NewId /\ work[p].prev # 0
      /\ work[p].prev # 0 => new.step = "notify" /\ new.prev = NewId
  <2>1. CASE work[p].prev # 0
    <3>1. new = [work[p] EXCEPT !.step = "notify", !.prev = NewId]
      BY <2>1
    <3> HIDE DEF new
    <3>2. new \in Doing
      BY <1>2, <1>3, <3>1 DEF Doing
    <3>3. new.step = "notify" /\ new.prev = NewId
      BY <1>3, <3>1 DEF Doing
    <3> QED BY <2>1, <3>2, <3>3
  <2>2. CASE work[p].prev = 0
    BY <2>2 DEF Resting, Doing, Hashes
  <2> QED BY <2>1, <2>2
<1> HIDE DEF new, x
<1>6. \A q \in Refreshers : work'[q] = IF q = p THEN new ELSE work[q]
  BY <1>1 DEF HistoryTypeOK
<1>7. PICK off \in {0, 1} :
           /\ snapshots' \in Seq(SnapshotRow) /\ Len(snapshots') = Len(snapshots) + 1 - off /\ Len(snapshots') <= Keep
           /\ \A i \in 1..Len(snapshots') :
                /\ snapshots'[i].id = Source(x, off, i).id /\ snapshots'[i].hash = Source(x, off, i).hash
                /\ snapshots'[i].told = Source(x, off, i).told /\ snapshots'[i].prev \in {0, Source(x, off, i).prev}
                /\ snapshots'[i].prev # 0 => \E j \in 1..Len(snapshots') : snapshots'[j].id = snapshots'[i].prev
  <2>1. HistoryTypeOK
    OBVIOUS
  <2>2. PICK t : t = snapshots'
    OBVIOUS
  <2>3. t = Pruned(Append(snapshots, x))
    BY <1>1, <2>2
  <2>4. \E off \in {0, 1} : PrunedTo(t, x, off)
    BY <1>4, <2>1, <2>3, PrunedAt
  <2> QED BY <2>2, <2>4 DEF PrunedTo
<1>8. n \in Nat /\ \A i \in 1..n : snapshots[i] \in SnapshotRow
  BY DEF HistoryTypeOK
<1> DEFINE src(i) == Source(x, off, i)
<1>9. ASSUME NEW i \in 1..Len(snapshots')
      PROVE  /\ i + off \in 1..(n + 1) /\ (i + off # n + 1 => i + off \in 1..n)
             /\ i + off = n + 1 => src(i) = x
             /\ i + off # n + 1 => src(i) = snapshots[i + off]
             /\ snapshots'[i].id = src(i).id /\ snapshots'[i].hash = src(i).hash /\ snapshots'[i].told = src(i).told
             /\ snapshots'[i].prev # 0 => snapshots'[i].prev = src(i).prev
             /\ snapshots'[i].prev # 0 => \E j \in 1..Len(snapshots') : snapshots'[j].id = snapshots'[i].prev
  <2>1. i + off \in 1..(n + 1) /\ (i + off # n + 1 => i + off \in 1..n)
    BY <1>7, <1>8
  <2> QED BY <1>7, <2>1 DEF Source
<1> HIDE DEF src
\* The snapshot added is the only one of its id.
<1>10. \A i \in 1..n : snapshots[i].id # NewId /\ snapshots[i].prev # NewId
  BY <1>2, <1>8 DEF Kept, PrevKept, SnapshotRow
<1>11. HistoryTypeOK'
  BY <1>1, <1>3, <1>5, <1>7 DEF HistoryTypeOK
<1>12. IdsDiffer'
  <2> SUFFICES ASSUME NEW i \in 1..Len(snapshots'), NEW j \in 1..Len(snapshots'), snapshots'[i].id = snapshots'[j].id
               PROVE  i = j
    BY DEF IdsDiffer
  <2>1. src(i).id = src(j).id
    BY <1>9
  <2>2. i + off = j + off
    <3>1. CASE i + off = n + 1
      BY <1>4, <1>9, <1>10, <2>1, <3>1
    <3>2. CASE j + off = n + 1
      <4>1. src(i).id = NewId
        BY <1>4, <1>9, <2>1, <3>2
      <4>2. i + off # n + 1 => src(i) = snapshots[i + off] /\ i + off \in 1..n
        BY <1>9
      <4> QED BY <1>10, <3>2, <4>1, <4>2
    <3>3. CASE i + off # n + 1 /\ j + off # n + 1
      <4>1. snapshots[i + off].id = snapshots[j + off].id /\ i + off \in 1..n /\ j + off \in 1..n
        BY <1>9, <2>1, <3>3
      <4> QED BY <4>1 DEF IdsDiffer
    <3> QED BY <3>1, <3>2, <3>3
  <2>3. i \in Nat /\ j \in Nat /\ off \in Nat
    OBVIOUS
  <2> QED BY <2>2, <2>3
<1>13. PrevKept'
  BY <1>9 DEF PrevKept, Kept
<1>14. ChangesAreReal'
  <2> SUFFICES ASSUME NEW i \in 1..Len(snapshots'), NEW j \in 1..Len(snapshots'), snapshots'[j].prev = snapshots'[i].id
               PROVE  snapshots'[j].hash # snapshots'[i].hash
    BY DEF ChangesAreReal
  <2>1. snapshots'[i].id # 0
    <3>1. src(i) = x \/ (src(i) = snapshots[i + off] /\ i + off \in 1..n)
      BY <1>9
    <3>2. src(i) \in SnapshotRow
      BY <1>4, <1>8, <3>1
    <3> QED BY <1>9, <3>2 DEF SnapshotRow
  <2>2. src(j).prev = src(i).id
    BY <1>9, <2>1
  <2>3. i + off # n + 1
    <3>1. SUFFICES ASSUME i + off = n + 1 PROVE FALSE
      OBVIOUS
    <3>2. src(j).prev = NewId
      BY <1>4, <1>9, <2>2, <3>1
    <3> QED BY <1>2, <1>4, <1>9, <1>10, <3>2
  <2>4. CASE j + off = n + 1
    <3>1. src(j) = x /\ src(i) = snapshots[i + off] /\ i + off \in 1..n
      BY <1>9, <2>3, <2>4
    <3>2. snapshots[i + off].id = work[p].prev
      BY <1>4, <2>2, <3>1
    <3>3. snapshots[i + off].hash # work[p].read
      BY <1>1, <3>1, <3>2 DEF AddIsReal
    <3> QED BY <1>4, <1>9, <3>1, <3>3
  <2>5. CASE j + off # n + 1
    <3>1. /\ src(i) = snapshots[i + off] /\ i + off \in 1..n
          /\ src(j) = snapshots[j + off] /\ j + off \in 1..n
      BY <1>9, <2>3, <2>5
    <3>2. snapshots[j + off].hash # snapshots[i + off].hash
      BY <2>2, <3>1 DEF ChangesAreReal
    <3> QED BY <1>9, <3>1, <3>2
  <2> QED BY <2>4, <2>5
<1>15. AddIsReal'
  <2> SUFFICES ASSUME NEW q \in Refreshers, NEW i \in 1..Len(snapshots'), work'[q].step = "add", snapshots'[i].id = work'[q].prev
               PROVE  snapshots'[i].hash # work'[q].read
    BY DEF AddIsReal
  <2>1. q # p /\ work'[q] = work[q]
    BY <1>5, <1>6
  <2>2. i + off # n + 1
    BY <1>2, <1>4, <1>9, <2>1
  <2>3. src(i) = snapshots[i + off] /\ i + off \in 1..n
    BY <1>9, <2>2
  <2>4. snapshots[i + off].hash # work[q].read
    <3>1. work[q].step = "add" /\ snapshots[i + off].id = work[q].prev
      BY <1>9, <2>1, <2>3
    <3> QED BY <2>3, <3>1 DEF AddIsReal
  <2> QED BY <1>9, <2>1, <2>3, <2>4
<1>16. NotifiersDiffer'
  BY <1>2, <1>5, <1>6 DEF NotifiersDiffer
<1>17. NotYetTold'
  <2> SUFFICES ASSUME NEW q \in Refreshers, NEW i \in 1..Len(snapshots'), work'[q].step = "notify", snapshots'[i].id = work'[q].prev
               PROVE  snapshots'[i].told = 0
    BY DEF NotYetTold
  <2>1. CASE i + off = n + 1
    BY <1>4, <1>9, <2>1
  <2>2. CASE i + off # n + 1
    <3>1. q # p
      BY <1>5, <1>6, <1>9, <1>10, <2>2
    <3>2. i + off \in 1..n /\ src(i) = snapshots[i + off] /\ work'[q] = work[q]
      BY <1>6, <1>9, <2>2, <3>1
    <3>3. snapshots[i + off].told = 0
      BY <1>9, <3>2 DEF NotYetTold
    <3> QED BY <1>9, <3>2, <3>3
  <2> QED BY <2>1, <2>2
<1>18. ToldOnce'
  BY <1>4, <1>9 DEF ToldOnce
<1>19. WillBeTold'
  <2> SUFFICES ASSUME NEW i \in 1..Len(snapshots'), historyTroubles' = 0, snapshots'[i].prev # 0, snapshots'[i].told = 0
               PROVE  \E q \in Refreshers : work'[q].step = "notify" /\ work'[q].prev = snapshots'[i].id
    BY DEF WillBeTold
  <2>1. CASE i + off = n + 1
    <3>1. work'[p].step = "notify" /\ work'[p].prev = snapshots'[i].id
      BY <1>4, <1>5, <1>6, <1>9, <2>1
    <3> QED BY <3>1
  <2>2. CASE i + off # n + 1
    <3>1. PICK q \in Refreshers : work[q].step = "notify" /\ work[q].prev = snapshots[i + off].id
      <4>1. i + off \in 1..n /\ src(i) = snapshots[i + off]
        BY <1>9, <2>2
      <4>2. historyTroubles = 0 /\ snapshots[i + off].prev # 0 /\ snapshots[i + off].told = 0
        BY <1>1, <1>9, <4>1
      <4> QED BY <4>1, <4>2 DEF WillBeTold
    <3>2. q # p
      BY <1>1, <3>1
    <3> QED BY <1>6, <1>9, <2>2, <3>1, <3>2
  <2> QED BY <2>1, <2>2
<1> QED BY <1>11, <1>12, <1>13, <1>14, <1>15, <1>16, <1>17, <1>18, <1>19

LEMMA NotifyKeeps ==
  ASSUME HistoryAssumption, HistoryInv, NEW p \in Refreshers, Notify(p)
  PROVE  HistoryInv'
<1> USE DEF HistoryInv
<1> DEFINE n == Len(snapshots)
<1>1. /\ work[p].step = "notify" /\ snapshots' = Tell(p)
      /\ work' = [work EXCEPT ![p] = Resting] /\ UNCHANGED <<structure, historyTroubles>>
  BY DEF Notify, Ends
<1>2. n \in Nat /\ \A i \in 1..n : snapshots[i] \in SnapshotRow
  BY DEF HistoryTypeOK
<1>3. ASSUME NEW i \in 1..n
      PROVE  /\ snapshots'[i] \in SnapshotRow
             /\ snapshots'[i].id = snapshots[i].id /\ snapshots'[i].hash = snapshots[i].hash
             /\ snapshots'[i].prev = snapshots[i].prev
             /\ snapshots[i].id = work[p].prev => snapshots'[i].told = 1
             /\ snapshots[i].id # work[p].prev => snapshots'[i].told = snapshots[i].told
  <2>1. snapshots'[i] = IF snapshots[i].id = work[p].prev THEN [snapshots[i] EXCEPT !.told = @ + 1] ELSE snapshots[i]
    BY <1>1 DEF Tell
  <2>2. CASE snapshots[i].id = work[p].prev
    <3>1. snapshots'[i] = [snapshots[i] EXCEPT !.told = snapshots[i].told + 1] /\ snapshots[i].told = 0
      BY <1>1, <2>1, <2>2 DEF NotYetTold
    <3>2. snapshots'[i] \in SnapshotRow
      BY <1>2, <3>1 DEF SnapshotRow
    <3>3. /\ snapshots'[i].id = snapshots[i].id /\ snapshots'[i].hash = snapshots[i].hash
          /\ snapshots'[i].prev = snapshots[i].prev /\ snapshots'[i].told = 1
      BY <1>2, <3>1 DEF SnapshotRow
    <3> QED BY <2>2, <3>2, <3>3
  <2>3. CASE snapshots[i].id # work[p].prev
    BY <1>2, <2>1, <2>3
  <2> QED BY <2>2, <2>3
<1>4. snapshots' \in Seq(SnapshotRow) /\ Len(snapshots') = n
  <2>1. snapshots' = [i \in 1..n |-> snapshots'[i]] /\ DOMAIN snapshots' = 1..n
    BY <1>1 DEF Tell
  <2>2. snapshots' \in [1..n -> SnapshotRow]
    BY <1>3, <2>1
  <2>3. snapshots' \in Seq(SnapshotRow)
    BY <1>2, <2>2
  <2> QED BY <1>2, <2>1, <2>3
<1>5. \A q \in Refreshers : work'[q] = IF q = p THEN Resting ELSE work[q]
  BY <1>1 DEF HistoryTypeOK
<1>6. Resting \in Doing /\ Resting.step = "none"
  BY DEF Resting, Doing, Hashes
<1>7. HistoryTypeOK'
  BY <1>1, <1>4, <1>6 DEF HistoryTypeOK
<1>8. IdsDiffer'
  BY <1>3, <1>4 DEF IdsDiffer
<1>9. PrevKept'
  BY <1>3, <1>4 DEF PrevKept, Kept
<1>10. ChangesAreReal'
  BY <1>3, <1>4 DEF ChangesAreReal
<1>11. AddIsReal'
  BY <1>3, <1>4, <1>5, <1>6 DEF AddIsReal
<1>12. NotifiersDiffer'
  BY <1>5, <1>6 DEF NotifiersDiffer
<1>13. NotYetTold'
  <2> SUFFICES ASSUME NEW q \in Refreshers, NEW i \in 1..n, work'[q].step = "notify", snapshots'[i].id = work'[q].prev
               PROVE  snapshots'[i].told = 0
    BY <1>4 DEF NotYetTold
  <2>1. q # p /\ work'[q] = work[q]
    BY <1>5, <1>6
  <2>2. snapshots[i].id = work[q].prev
    BY <1>3, <2>1
  <2>3. snapshots[i].id # work[p].prev
    BY <1>1, <2>1, <2>2 DEF NotifiersDiffer
  <2>4. snapshots[i].told = 0
    BY <2>1, <2>2 DEF NotYetTold
  <2> QED BY <1>3, <2>3, <2>4
<1>14. ToldOnce'
  BY <1>3, <1>4 DEF ToldOnce
<1>15. WillBeTold'
  <2> SUFFICES ASSUME NEW i \in 1..n, historyTroubles' = 0, snapshots'[i].prev # 0, snapshots'[i].told = 0
               PROVE  \E q \in Refreshers : work'[q].step = "notify" /\ work'[q].prev = snapshots'[i].id
    BY <1>4 DEF WillBeTold
  <2>1. snapshots[i].id # work[p].prev /\ snapshots[i].told = 0 /\ snapshots[i].prev # 0
    BY <1>3
  <2>2. PICK q \in Refreshers : work[q].step = "notify" /\ work[q].prev = snapshots[i].id
    BY <1>1, <2>1 DEF WillBeTold
  <2> QED BY <1>3, <1>5, <2>1, <2>2
<1> QED BY <1>7, <1>8, <1>9, <1>10, <1>11, <1>12, <1>13, <1>14, <1>15

LEMMA LatestKeeps ==
  ASSUME HistoryAssumption, HistoryInv, NEW p \in Refreshers, ReadLatest(p)
  PROVE  HistoryInv'
<1> USE DEF HistoryInv
<1> DEFINE n == Len(snapshots)
           prev == IF snapshots = <<>> THEN 0 ELSE Last(snapshots).id
           new == IF snapshots # <<>> /\ Last(snapshots).hash = work[p].read THEN Resting
                  ELSE [work[p] EXCEPT !.step = "add", !.prev = prev]
<1>1. /\ work[p].step = "latest" /\ work' = [work EXCEPT ![p] = new]
      /\ UNCHANGED <<structure, snapshots, historyTroubles>>
  BY DEF ReadLatest
<1>2. n \in Nat /\ (\A i \in 1..n : snapshots[i] \in SnapshotRow) /\ work[p] \in Doing
      /\ (snapshots # <<>> => n \in 1..n /\ Last(snapshots) = snapshots[n])
  BY DEF HistoryTypeOK, Last
<1>3. prev \in Nat
  BY <1>2 DEF SnapshotRow
<1>4. /\ new \in Doing /\ new.step # "notify"
      /\ new.step = "add" => /\ new.prev = prev /\ new.read = work[p].read
                             /\ ~(snapshots # <<>> /\ Last(snapshots).hash = work[p].read)
  <2>1. CASE snapshots # <<>> /\ Last(snapshots).hash = work[p].read
    <3>1. new = Resting
      BY <2>1
    <3> QED BY <3>1 DEF Resting, Doing, Hashes
  <2>2. CASE ~(snapshots # <<>> /\ Last(snapshots).hash = work[p].read)
    <3>1. new = [work[p] EXCEPT !.step = "add", !.prev = prev]
      BY <2>2
    <3> HIDE DEF new, prev
    <3>2. new \in Doing
      BY <1>2, <1>3, <3>1 DEF Doing
    <3>3. new.step = "add" /\ new.prev = prev /\ new.read = work[p].read
      BY <1>2, <3>1 DEF Doing
    <3> QED BY <2>2, <3>2, <3>3
  <2> QED BY <2>1, <2>2
<1>5. ASSUME NEW i \in 1..n, new.step = "add", snapshots[i].id = new.prev
      PROVE  snapshots[i].hash # new.read
  <2>1. snapshots # <<>> /\ n \in 1..n /\ Last(snapshots) = snapshots[n]
    BY <1>2, <1>5
  <2>2. snapshots[i].id = snapshots[n].id
    BY <1>4, <1>5, <2>1
  <2>3. i = n
    BY <2>1, <2>2 DEF IdsDiffer
  <2> QED BY <1>4, <1>5, <2>1, <2>3
<1> HIDE DEF new
<1>6. \A q \in Refreshers : work'[q] = IF q = p THEN new ELSE work[q]
  BY <1>1 DEF HistoryTypeOK
<1>7. work' \in [Refreshers -> Doing]
  BY <1>1, <1>4 DEF HistoryTypeOK
<1>8. \A q \in Refreshers, i \in 1..n :
        work'[q].step = "add" /\ snapshots[i].id = work'[q].prev => snapshots[i].hash # work'[q].read
  BY <1>5, <1>6 DEF AddIsReal
<1>9. \A q \in Refreshers :
        /\ work'[q].step = "notify" => work[q].step = "notify" /\ work'[q].prev = work[q].prev
        /\ work[q].step = "notify" => work'[q].step = "notify" /\ work'[q].prev = work[q].prev
  BY <1>1, <1>4, <1>6
<1>10. structure' \in Hashes /\ historyTroubles' \in Nat
  BY <1>1 DEF HistoryTypeOK
<1> QED BY <1>1, <1>7, <1>8, <1>9, <1>10, HistoryQuiet

\* The other steps leave who records and announces as it is, but for those that
\* come to their end.
LEMMA OneWorks ==
  ASSUME HistoryAssumption, HistoryInv, NEW p \in Refreshers, NEW new \in Doing,
         work' = [work EXCEPT ![p] = new], new.step \notin {"add", "notify"},
         UNCHANGED <<structure, snapshots>>, historyTroubles' \in Nat,
         historyTroubles' = 0 => historyTroubles = 0 /\ work[p].step # "notify"
  PROVE  HistoryInv'
<1> USE DEF HistoryInv
<1>1. \A q \in Refreshers : work'[q] = IF q = p THEN new ELSE work[q]
  BY DEF HistoryTypeOK
<1>2. work' \in [Refreshers -> Doing] /\ structure' \in Hashes
  BY DEF HistoryTypeOK
<1>3. \A q \in Refreshers, i \in 1..Len(snapshots) :
        work'[q].step = "add" /\ snapshots[i].id = work'[q].prev => snapshots[i].hash # work'[q].read
  BY <1>1 DEF AddIsReal
<1>4. \A q \in Refreshers :
        work'[q].step = "notify" => work[q].step = "notify" /\ work'[q].prev = work[q].prev
  BY <1>1
<1>5. \A q \in Refreshers :
        work[q].step = "notify" /\ historyTroubles' = 0 => work'[q].step = "notify" /\ work'[q].prev = work[q].prev
  BY <1>1
<1> QED BY <1>2, <1>3, <1>4, <1>5, HistoryQuiet

LEMMA StepKeeps ==
  ASSUME HistoryAssumption, HistoryInv, NEW p \in Refreshers,
         \/ Read(p) \/ ReadEnds(p) \/ ReadFails(p) \/ Replace(p) \/ AddRefused(p)
  PROVE  HistoryInv'
<1>1. work[p] \in Doing /\ historyTroubles \in Nat /\ structure \in Hashes
  BY DEF HistoryInv, HistoryTypeOK
<1>2. Resting \in Doing /\ Resting.step = "none"
  BY DEF Resting, Doing, Hashes
<1>3. CASE Read(p)
  <2>1. PICK new : new = [work[p] EXCEPT !.step = "reading", !.read = structure]
    OBVIOUS
  <2>2. new \in Doing /\ new.step = "reading"
    BY <1>1, <2>1 DEF Doing
  <2>3. work' = [work EXCEPT ![p] = new] /\ UNCHANGED <<structure, snapshots, historyTroubles>> /\ work[p].step = "read"
    BY <1>3, <2>1 DEF Read, HistoryInv, HistoryTypeOK
  <2> QED BY <1>1, <2>2, <2>3, OneWorks
<1>4. CASE ReadEnds(p)
  <2>1. PICK new : new = [work[p] EXCEPT !.step = IF work[p].kind = "catalog" THEN "replace" ELSE "latest"]
    OBVIOUS
  <2>2. new \in Doing /\ new.step \notin {"add", "notify"}
    BY <1>1, <2>1 DEF Doing
  <2>3. work' = [work EXCEPT ![p] = new] /\ UNCHANGED <<structure, snapshots, historyTroubles>> /\ work[p].step = "reading"
    BY <1>4, <2>1 DEF ReadEnds, To, HistoryInv, HistoryTypeOK
  <2> QED BY <1>1, <2>2, <2>3, OneWorks
<1>5. CASE ReadFails(p)
  <2>1. /\ work' = [work EXCEPT ![p] = Resting] /\ UNCHANGED <<structure, snapshots>>
        /\ historyTroubles' \in Nat /\ historyTroubles' # 0
    BY <1>1, <1>5 DEF ReadFails, Ends, Trouble
  <2> QED BY <1>2, <2>1, OneWorks
<1>6. CASE Replace(p)
  <2>1. /\ work' = [work EXCEPT ![p] = Resting] /\ UNCHANGED <<structure, snapshots, historyTroubles>>
        /\ work[p].step = "replace"
    BY <1>6 DEF Replace, Ends
  <2> QED BY <1>1, <1>2, <2>1, OneWorks
<1>7. CASE AddRefused(p)
  <2>1. /\ work' = [work EXCEPT ![p] = Resting] /\ UNCHANGED <<structure, snapshots, historyTroubles>>
        /\ work[p].step = "add"
    BY <1>7 DEF AddRefused, Ends
  <2> QED BY <1>1, <1>2, <2>1, OneWorks
<1> QED BY <1>3, <1>4, <1>5, <1>6, <1>7

LEMMA BeginKeeps ==
  ASSUME HistoryAssumption, HistoryInv, NEW p \in Refreshers, Free(p),
         NEW kind \in {"catalog", "snapshot"}, NEW pass \in BOOLEAN,
         Begin(p, kind, pass) \/ UNCHANGED work,
         UNCHANGED <<structure, snapshots, historyTroubles>>
  PROVE  HistoryInv'
<1>1. work[p].step = "none" /\ historyTroubles \in Nat
  BY DEF Free, Resting, HistoryInv, HistoryTypeOK
<1>2. CASE Begin(p, kind, pass)
  <2>1. PICK new : new = [Resting EXCEPT !.kind = kind, !.step = "read", !.pass = pass]
    OBVIOUS
  <2>2. new \in Doing /\ new.step = "read"
    BY <2>1 DEF Resting, Doing, Hashes
  <2>3. work' = [work EXCEPT ![p] = new]
    BY <1>2, <2>1 DEF Begin
  <2> QED BY <1>1, <2>2, <2>3, OneWorks
<1>3. CASE UNCHANGED work
  BY <1>3, HistoryQuiet DEF HistoryInv, HistoryTypeOK, AddIsReal
<1> QED BY <1>2, <1>3

LEMMA ChangesKeep ==
  ASSUME HistoryAssumption, HistoryInv, Changes, UNCHANGED <<snapshots, historyTroubles>>
  PROVE  HistoryInv'
<1> USE DEF HistoryInv
<1>1. structure' \in Hashes
  BY DEF Changes, Hashes
<1>2. ASSUME NEW p \in Refreshers
      PROVE  /\ work'[p] \in Doing
             /\ work'[p] = work[p] \/ (work[p].step = "reading" /\ work'[p].step = "reading")
  <2>1. work[p] \in Doing
    BY DEF HistoryTypeOK
  <2>2. work'[p] = IF work[p].step = "reading" THEN [work[p] EXCEPT !.read = Torn] ELSE work[p]
    BY DEF Changes
  <2>3. CASE work[p].step = "reading"
    <3>1. work'[p] = [work[p] EXCEPT !.read = Torn]
      BY <2>2, <2>3
    <3> QED BY <2>1, <2>3, <3>1 DEF Doing, Hashes
  <2> QED BY <2>1, <2>2, <2>3
<1>3. work' \in [Refreshers -> Doing]
  <2>1. work' = [p \in Refreshers |-> work'[p]]
    BY DEF Changes
  <2> QED BY <1>2, <2>1
<1>4. \A q \in Refreshers, i \in 1..Len(snapshots) :
        work'[q].step = "add" /\ snapshots[i].id = work'[q].prev => snapshots[i].hash # work'[q].read
  BY <1>2 DEF AddIsReal
<1>5. \A q \in Refreshers :
        /\ work'[q].step = "notify" => work[q].step = "notify" /\ work'[q].prev = work[q].prev
        /\ work[q].step = "notify" => work'[q].step = "notify" /\ work'[q].prev = work[q].prev
  BY <1>2
<1>6. historyTroubles' \in Nat
  BY DEF HistoryTypeOK
<1> QED BY <1>1, <1>3, <1>4, <1>5, <1>6, HistoryQuiet

LEMMA NextHistory ==
  ASSUME HistoryAssumption, HistoryInv, HistoryNext \/ UNCHANGED historyVars
  PROVE  HistoryInv'
<1>1. CASE UNCHANGED historyVars
  BY <1>1, HistoryQuiet DEF historyVars, HistoryInv, HistoryTypeOK, AddIsReal
<1>2. CASE ChangeElsewhere \/ SchemaChanged
  BY <1>2, ChangesKeep DEF ChangeElsewhere, SchemaChanged
<1>3. CASE Dies
  <2>1. /\ work' = [p \in Refreshers |-> Resting] /\ UNCHANGED <<structure, snapshots>>
        /\ historyTroubles' \in Nat /\ historyTroubles' # 0
    BY <1>3 DEF Dies, Trouble, HistoryInv, HistoryTypeOK
  <2>2. Resting \in Doing /\ Resting.step = "none"
    BY DEF Resting, Doing, Hashes
  <2>3. structure' \in Hashes
    BY <2>1 DEF HistoryInv, HistoryTypeOK
  <2> QED BY <2>1, <2>2, <2>3, HistoryQuiet
<1>4. ASSUME NEW p \in Refreshers,
             RefreshDue(p) \/ RunDue(p) \/ RefreshAfterDDL(p) \/ CheckAfterDDL(p) \/ SetWatch(p) \/ TakeSnapshot(p)
      PROVE  HistoryInv'
  <2>1. CASE RefreshDue(p)
    BY <2>1, BeginKeeps DEF RefreshDue
  <2>2. CASE RunDue(p)
    BY <2>2, BeginKeeps DEF RunDue
  <2>3. CASE RefreshAfterDDL(p)
    BY <2>3, BeginKeeps DEF RefreshAfterDDL
  <2>4. CASE CheckAfterDDL(p)
    BY <2>4, BeginKeeps DEF CheckAfterDDL
  <2>5. CASE SetWatch(p)
    BY <2>5, BeginKeeps DEF SetWatch
  <2>6. CASE TakeSnapshot(p)
    BY <2>6, BeginKeeps DEF TakeSnapshot
  <2> QED BY <1>4, <2>1, <2>2, <2>3, <2>4, <2>5, <2>6
<1> QED BY <1>1, <1>2, <1>3, <1>4, StepKeeps, LatestKeeps, AddKeeps, NotifyKeeps DEF HistoryNext, Step

LEMMA HistoryIsSound ==
  ASSUME HistoryInv
  PROVE  ChangesAreReal /\ ChangesAreAnnounced
<1>1. \A i \in 1..Len(snapshots) : snapshots[i].told \in Nat
  <2>1. \A i \in 1..Len(snapshots) : snapshots[i] \in SnapshotRow
    BY DEF HistoryInv, HistoryTypeOK
  <2> QED BY <2>1 DEF SnapshotRow
<1>2. ChangesAreAnnounced
  BY <1>1 DEF HistoryInv, ToldOnce, WillBeTold, ChangesAreAnnounced
<1> QED BY <1>2 DEF HistoryInv

---------------------------------------------------------------------------
(* Together.  A behaviour is of one part; the others stay as they began.   *)

\* The catalog alone: nothing is recorded.
CatalogDoing(d) ==
  d.step = "none" \/ (d.step \in {"read", "reading", "replace"} /\ d.kind = "catalog")

CatalogInv ==
  /\ snapshots = <<>> /\ ~watched /\ started \subseteq {"catalog"}
  /\ structure \in Hashes /\ work \in [Refreshers -> Doing]
  /\ \A p \in Refreshers : CatalogDoing(work[p])

LEMMA CatalogStep ==
  ASSUME CatalogInv, NEW p \in Refreshers,
         \/ Catalog!RefreshDue(p) \/ Catalog!RunDue(p) \/ Catalog!RefreshAfterDDL(p) \/ Catalog!CheckAfterDDL(p)
         \/ Catalog!SetWatch(p) \/ Catalog!TakeSnapshot(p) \/ Catalog!Step(p) \/ Catalog!ReadFails(p)
  PROVE  CatalogInv'
<1>1. ASSUME NEW new \in Doing, work' = [work EXCEPT ![p] = new], CatalogDoing(new),
             UNCHANGED <<structure, snapshots, watched>>, started' \subseteq started
      PROVE  CatalogInv'
  BY <1>1 DEF CatalogInv
<1>2. Resting \in Doing /\ CatalogDoing(Resting) /\ Catalog!Resting = Resting
  BY DEF Resting, Doing, Hashes, Catalog!Resting, CatalogDoing
<1>3. work[p] \in Doing /\ CatalogDoing(work[p]) /\ ~watched /\ "snapshot" \notin started /\ structure \in Hashes
  BY DEF CatalogInv
<1>4. CASE Catalog!RefreshDue(p) \/ Catalog!RefreshAfterDDL(p)
  <2>1. PICK pass \in BOOLEAN : Catalog!Begin(p, "catalog", pass)
    BY <1>4 DEF Catalog!RefreshDue, Catalog!RefreshAfterDDL
  <2>2. PICK new : new = [Resting EXCEPT !.kind = "catalog", !.step = "read", !.pass = pass]
    OBVIOUS
  <2>3. new \in Doing /\ CatalogDoing(new)
    BY <2>2 DEF Resting, Doing, Hashes, CatalogDoing
  <2>4. work' = [work EXCEPT ![p] = new]
    BY <1>2, <2>1, <2>2 DEF Catalog!Begin
  <2>5. UNCHANGED <<structure, snapshots, watched>> /\ started' \subseteq started
    BY <1>4 DEF Catalog!RefreshDue, Catalog!RefreshAfterDDL
  <2> QED BY <1>1, <2>3, <2>4, <2>5
<1>5. CASE Catalog!ReadFails(p) \/ Catalog!Replace(p)
  BY <1>1, <1>2, <1>5 DEF Catalog!ReadFails, Catalog!Replace, Catalog!Ends
<1>6. CASE Catalog!Read(p)
  <2>1. PICK new : new = [work[p] EXCEPT !.step = "reading", !.read = structure]
    OBVIOUS
  <2>2. new \in Doing /\ CatalogDoing(new)
    BY <1>3, <1>6, <2>1 DEF Doing, CatalogDoing, Catalog!Read
  <2>3. work' = [work EXCEPT ![p] = new]
    BY <1>6, <2>1 DEF Catalog!Read, CatalogInv
  <2> QED BY <1>1, <1>3, <1>6, <2>2, <2>3 DEF Catalog!Read
<1>7. CASE Catalog!ReadEnds(p)
  <2>1. work[p].step = "reading"
    BY <1>7 DEF Catalog!ReadEnds
  <2>2. work[p].kind = "catalog"
    BY <1>3, <2>1 DEF CatalogDoing
  <2>3. PICK new : new = [work[p] EXCEPT !.step = "replace"]
    OBVIOUS
  <2>4. new \in Doing /\ CatalogDoing(new)
    BY <1>3, <2>2, <2>3 DEF Doing, CatalogDoing
  <2>5. work' = [work EXCEPT ![p] = new]
    BY <1>7, <2>2, <2>3 DEF Catalog!ReadEnds, Catalog!To, CatalogInv
  <2> QED BY <1>1, <1>3, <1>7, <2>4, <2>5 DEF Catalog!ReadEnds
<1>8. ~(\/ Catalog!RunDue(p) \/ Catalog!CheckAfterDDL(p) \/ Catalog!SetWatch(p) \/ Catalog!TakeSnapshot(p)
        \/ Catalog!ReadLatest(p) \/ Catalog!Add(p) \/ Catalog!AddRefused(p) \/ Catalog!Notify(p))
  BY <1>3 DEF CatalogDoing, Catalog!RunDue, Catalog!CheckAfterDDL, Catalog!SetWatch, Catalog!TakeSnapshot,
              Catalog!ReadLatest, Catalog!Add, Catalog!AddRefused, Catalog!Notify
<1> QED BY <1>4, <1>5, <1>6, <1>7, <1>8 DEF Catalog!Step

LEMMA CatalogStays ==
  ASSUME CatalogInv, Catalog!HistoryNext \/ UNCHANGED historyVars
  PROVE  CatalogInv'
<1>1. CASE UNCHANGED historyVars
  BY <1>1 DEF historyVars, CatalogInv
<1>2. CASE Catalog!ChangeElsewhere \/ Catalog!SchemaChanged
  <2>1. /\ work' = [p \in Refreshers |-> IF work[p].step = "reading" THEN [work[p] EXCEPT !.read = Torn] ELSE work[p]]
        /\ structure' \in Structures /\ UNCHANGED <<snapshots, watched>> /\ started' \subseteq {"catalog"}
    BY <1>2 DEF Catalog!ChangeElsewhere, Catalog!SchemaChanged, Catalog!Changes, CatalogInv
  <2>2. ASSUME NEW p \in Refreshers
        PROVE  work'[p] \in Doing /\ CatalogDoing(work'[p])
    <3>1. work[p] \in Doing /\ CatalogDoing(work[p])
      BY DEF CatalogInv
    <3>2. CASE work[p].step = "reading"
      <4>1. work'[p] = [work[p] EXCEPT !.read = Torn]
        BY <2>1, <3>2
      <4> QED BY <3>1, <4>1 DEF Doing, Hashes, CatalogDoing
    <3>3. CASE work[p].step # "reading"
      BY <2>1, <3>1, <3>3
    <3> QED BY <3>2, <3>3
  <2>3. work' \in [Refreshers -> Doing]
    <3>1. work' = [p \in Refreshers |-> work'[p]]
      BY <2>1
    <3> QED BY <2>2, <3>1
  <2> QED BY <2>1, <2>2, <2>3 DEF CatalogInv, Hashes
<1>3. CASE Catalog!Dies
  <2>1. work' = [p \in Refreshers |-> Resting] /\ started' = {} /\ UNCHANGED <<structure, snapshots, watched>>
    BY <1>3 DEF Catalog!Dies, Catalog!Resting, Resting
  <2>2. Resting \in Doing /\ CatalogDoing(Resting)
    BY DEF Resting, Doing, Hashes, CatalogDoing
  <2> QED BY <2>1, <2>2 DEF CatalogInv
<1> QED BY <1>1, <1>2, <1>3, CatalogStep DEF Catalog!HistoryNext

LEMMA CatalogIsSound ==
  ASSUME CatalogInv
  PROVE  ChangesAreReal /\ ChangesAreAnnounced
<1>1. 1..Len(snapshots) = {}
  BY DEF CatalogInv
<1> QED BY <1>1 DEF ChangesAreReal, ChangesAreAnnounced

UpkeepInv ==
  /\ EditIsARow /\ OutboxInv /\ AlertsInv /\ ServingInv
  /\ part = "catalog" => CatalogInv
  /\ part # "catalog" => HistoryInv

\* What is announced, published and recorded did happen, and once: the next
\* run of a changed schedule is the earliest, a channel that is enabled has its
\* secret, an event that is published was heard and none more often than it was
\* tried, an alert is announced once, a change that is recorded is one and is
\* announced, and who serves serves on what the migrations left.
THEOREM UpkeepInvariants == RecordedUnedited => (Spec => []UpkeepIsSound)
<1> SUFFICES ASSUME RecordedUnedited
             PROVE  Spec => []UpkeepIsSound
  OBVIOUS
<1> USE ScheduleAssumption, OutboxAssumption, AlertAssumption, HistoryAssumption, MigrationsAssumption
<1>1. Init => UpkeepInv
  <2> SUFFICES ASSUME Init PROVE UpkeepInv
    OBVIOUS
  <2>1. EditIsARow
    BY DEF Init, ScheduleInit, EditIsARow
  <2>2. OutboxInv /\ AlertsInv /\ ServingInv /\ HistoryInv
    BY InitOutbox, InitAlerts, InitServing, InitHistory DEF Init
  <2>3. CatalogInv
    <3>1. \A p \in Refreshers : work[p] = Resting
      BY DEF Init, HistoryInit
    <3>2. CatalogDoing(Resting)
      BY DEF Resting, CatalogDoing
    <3>3. structure \in Hashes /\ work \in [Refreshers -> Doing]
      BY <2>2 DEF HistoryInv, HistoryTypeOK
    <3> QED BY <3>1, <3>2, <3>3 DEF Init, HistoryInit, CatalogInv
  <2> QED BY <2>1, <2>2, <2>3 DEF UpkeepInv
<1>2. UpkeepInv /\ [Next]_vars => UpkeepInv'
  <2> SUFFICES ASSUME UpkeepInv, [Next]_vars PROVE UpkeepInv'
    OBVIOUS
  <2>1. UNCHANGED part
    BY DEF Next, vars, SchedulesOnly, OutboxOnly, AlertsOnly, HistoryOnly, CatalogOnly, MigrationsOnly
  <2>2. ScheduleNext \/ UNCHANGED scheduleVars
    BY DEF Next, vars, SchedulesOnly, OutboxOnly, AlertsOnly, HistoryOnly, CatalogOnly, MigrationsOnly
  <2>3. OutboxNext \/ UNCHANGED outboxVars
    BY DEF Next, vars, SchedulesOnly, OutboxOnly, AlertsOnly, HistoryOnly, CatalogOnly, MigrationsOnly
  <2>4. AlertNext \/ UNCHANGED alertVars
    BY DEF Next, vars, SchedulesOnly, OutboxOnly, AlertsOnly, HistoryOnly, CatalogOnly, MigrationsOnly
  <2>5. MigrationsNext \/ UNCHANGED migrationVars
    BY DEF Next, vars, SchedulesOnly, OutboxOnly, AlertsOnly, HistoryOnly, CatalogOnly, MigrationsOnly
  <2>6. part = "catalog" => Catalog!HistoryNext \/ UNCHANGED historyVars
    BY DEF Next, vars, SchedulesOnly, OutboxOnly, AlertsOnly, HistoryOnly, CatalogOnly, MigrationsOnly
  <2>7. part # "catalog" => HistoryNext \/ UNCHANGED historyVars
    BY DEF Next, vars, SchedulesOnly, OutboxOnly, AlertsOnly, HistoryOnly, CatalogOnly, MigrationsOnly
  <2>8. EditIsARow' /\ OutboxInv' /\ AlertsInv' /\ ServingInv'
    BY <2>2, <2>3, <2>4, <2>5, EditStays, NextOutbox, NextAlerts, NextServing DEF UpkeepInv
  <2>9. part = "catalog" => CatalogInv'
    BY <2>6, CatalogStays DEF UpkeepInv
  <2>10. part # "catalog" => HistoryInv'
    BY <2>7, NextHistory DEF UpkeepInv
  <2> QED BY <2>1, <2>8, <2>9, <2>10 DEF UpkeepInv
<1>3. UpkeepInv => UpkeepIsSound
  <2> SUFFICES ASSUME UpkeepInv PROVE UpkeepIsSound
    OBVIOUS
  <2>1. NextIsEarliest /\ ChannelHasSecret /\ PublishedWasHeard /\ HeardIsBounded /\ AnnouncedOnce
    BY EditIsEarliest, OutboxIsSound, AlertsAreSound DEF UpkeepInv
  <2>2. ChangesAreReal /\ ChangesAreAnnounced
    BY CatalogIsSound, HistoryIsSound DEF UpkeepInv
  <2>3. ServesComplete
    BY DEF UpkeepInv, ServingInv, Prepared, Done, ServesComplete
  <2> QED BY <2>1, <2>2, <2>3 DEF UpkeepIsSound
<1> QED BY <1>1, <1>2, <1>3, PTL DEF Spec

===============================================================================
