----------------------------- MODULE Migrations -----------------------------
(***************************************************************************)
(* The schema of the metadata database.                                    *)
(*                                                                         *)
(* Each build of the control plane embeds migration files.  A replica that *)
(* starts applies those the database does not record, in order and each in *)
(* a transaction of its own, while it holds an advisory lock; or, when     *)
(* told not to migrate, only checks.  The lock belongs to a connection     *)
(* that is not the one the migrations run on, and may be lost under them.  *)
(*                                                                         *)
(* Abstracted: a file is its place in the order, its contents a version.   *)
(***************************************************************************)
EXTENDS Integers, Sequences, FiniteSets, SequencesExt, FiniteSetsExt

CONSTANTS
  Replicas,
  Checkers,     \* the replicas that only check
  Builds,       \* by version of the program: the contents of each file in it
  Recorded,     \* files a version before checksums has applied
  MaxMishaps    \* bound: crashes, lost locks and failed statements

\* What schema_migrations may hold in the place of a checksum: no row, or a row
\* written before there were checksums.
Unknown == "unknown"
Unstamped == "unstamped"

\* Files are numbered in the order of their names; a checksum is no mark.
ASSUME MigrationsAssumption ==
  /\ Checkers \subseteq Replicas /\ MaxMishaps \in Nat
  /\ Len(Builds) \in Nat \ {0} /\ DOMAIN Builds = 1 .. Len(Builds)
  /\ \A v \in DOMAIN Builds : DOMAIN Builds[v] \subseteq Nat
  /\ \A v \in DOMAIN Builds : \A n \in DOMAIN Builds[v] : Builds[v][n] \notin {Unknown, Unstamped}
  /\ Recorded \subseteq DOMAIN Builds[1]

VARIABLES
  history,     \* schema_migrations: the checksum by file
  effects,     \* the contents that took effect, by file
  installed,   \* by replica: the version it is to run
  starting,    \* by replica: where it is, with what it loaded
  lockedBy,    \* the advisory lock
  mishaps

migrationVars == <<history, effects, installed, starting, lockedBy, mishaps>>

Nobody == "nobody"
Stopped == [at |-> "stopped", applied |-> <<>>, left |-> {}]
FileNames == UNION {DOMAIN Builds[v] : v \in DOMAIN Builds}
Latest == Max(DOMAIN Builds)

MigrationsInit ==
  /\ history = [n \in FileNames |-> IF n \in Recorded THEN Unstamped ELSE Unknown]
  /\ effects = [n \in FileNames |-> IF n \in Recorded THEN <<Builds[1][n]>> ELSE <<>>]
  /\ installed = [r \in Replicas |-> 1]
  /\ starting = [r \in Replicas |-> Stopped]
  /\ lockedBy = Nobody /\ mishaps = 0

---------------------------------------------------------------------------
\* embeddedMigrations: the files of a build, applied in the order of their names.
EmbeddedMigrations(r) == DOMAIN Builds[installed[r]]

\* checkHistory: no file is recorded that the build does not know, or with
\* other contents.
CheckHistory(v, applied) == \A n \in FileNames : applied[n] # Unknown =>
  n \in DOMAIN Builds[v] /\ applied[n] \in {Unstamped, Builds[v][n]}

Go(r, at) == starting' = [starting EXCEPT ![r] = [Stopped EXCEPT !.at = at]]
Release(r) == lockedBy' = IF lockedBy = r THEN Nobody ELSE lockedBy

\* A migration that fails ends the process, and its connections with it.
Fails(r) == Go(r, "stopped") /\ lockedBy' = IF lockedBy = r THEN Nobody ELSE lockedBy

\* main
Start(r) ==
  /\ starting[r].at = "stopped"
  /\ Go(r, IF r \in Checkers THEN "checking" ELSE "locking")
  /\ UNCHANGED <<history, effects, installed, lockedBy, mishaps>>

LockMigrations(r) ==
  /\ starting[r].at = "locking" /\ lockedBy = Nobody /\ lockedBy' = r /\ Go(r, "loading")
  /\ UNCHANGED <<history, effects, installed, mishaps>>

\* Migrate, up to the first file: what is recorded is read once.
Load(r) ==
  /\ starting[r].at = "loading"
  /\ IF CheckHistory(installed[r], history)
     THEN /\ starting' = [starting EXCEPT ![r] = [at |-> "applying", applied |-> history, left |-> EmbeddedMigrations(r)]]
          /\ UNCHANGED lockedBy
     ELSE Fails(r)
  /\ UNCHANGED <<history, effects, installed, mishaps>>

InsertIgnoring(r, n, c) ==
  /\ history' = [history EXCEPT ![n] = IF @ = Unknown THEN c ELSE @]
  /\ effects' = [effects EXCEPT ![n] = Append(@, c)]
  /\ starting' = [starting EXCEPT ![r].left = @ \ {n}]
  /\ UNCHANGED lockedBy

\* A file and its row are committed together: the row's primary key refuses
\* a second time.
Insert(r, n, c) ==
  IF history[n] = Unknown
  THEN /\ history' = [history EXCEPT ![n] = c]
       /\ effects' = [effects EXCEPT ![n] = Append(@, c)]
       /\ starting' = [starting EXCEPT ![r].left = @ \ {n}]
       /\ UNCHANGED lockedBy
  ELSE Fails(r) /\ UNCHANGED <<history, effects>>

\* Migrate, one file.
Apply(r) ==
  LET n == Min(starting[r].left)
      c == Builds[installed[r]][n]
  IN
  /\ starting[r].at = "applying" /\ starting[r].left # {}
  /\ IF starting[r].applied[n] = Unknown
     THEN Insert(r, n, c)
     ELSE /\ history' = [history EXCEPT ![n] = IF @ = Unstamped THEN c ELSE @]
          /\ starting' = [starting EXCEPT ![r].left = @ \ {n}]
          /\ UNCHANGED <<effects, lockedBy>>
  /\ UNCHANGED <<installed, mishaps>>

\* Migrate returns, and the replica serves.
Migrated(r) ==
  /\ starting[r].at = "applying" /\ starting[r].left = {}
  /\ Go(r, "serving") /\ Release(r)
  /\ UNCHANGED <<history, effects, installed, mishaps>>

\* CheckSchema: what is recorded must be what the build embeds.
CheckSchema(r) ==
  /\ starting[r].at = "checking"
  /\ Go(r, IF CheckHistory(installed[r], history) /\ \A n \in DOMAIN Builds[installed[r]] : history[n] # Unknown
           THEN "serving" ELSE "stopped")
  /\ UNCHANGED <<history, effects, installed, lockedBy, mishaps>>

\* A crash, or a statement that fails.
Crash(r) ==
  /\ mishaps < MaxMishaps /\ mishaps' = mishaps + 1
  /\ starting[r].at # "stopped" /\ Fails(r)
  /\ UNCHANGED <<history, effects, installed>>

\* The connection that holds the lock ends: the lock is free, and the
\* replica none the wiser.
LoseLock ==
  /\ mishaps < MaxMishaps /\ mishaps' = mishaps + 1
  /\ lockedBy # Nobody /\ lockedBy' = Nobody
  /\ UNCHANGED <<history, effects, installed, starting>>

\* The replica is replaced by one of a later version.
Upgrade(r) ==
  /\ installed[r] < Latest
  /\ \E v \in installed[r] + 1 .. Latest : installed' = [installed EXCEPT ![r] = v]
  /\ Fails(r)
  /\ UNCHANGED <<history, effects, mishaps>>

MigrationStep(r) == Start(r) \/ LockMigrations(r) \/ Load(r) \/ Apply(r) \/ Migrated(r) \/ CheckSchema(r)
MigrationsNext == \/ \E r \in Replicas : MigrationStep(r) \/ Crash(r) \/ Upgrade(r)
                  \/ LoseLock

\* A container that stops is started again (restart: unless-stopped), and a
\* process goes on.
MigrationsFairness == \A r \in Replicas : WF_migrationVars(MigrationStep(r)) /\ SF_migrationVars(LockMigrations(r))

MigrationsSpec == MigrationsInit /\ [][MigrationsNext]_migrationVars /\ MigrationsFairness

---------------------------------------------------------------------------
(* Properties *)

\* "Each migration is applied exactly once", also when the lock is lost
\* while it is needed (migrate.go:123).
AppliedOnce == \A n \in FileNames : Len(effects[n]) <= 1 /\ (effects[n] # <<>>) = (history[n] # Unknown)

\* A replica serves only on a schema on which all its files took effect with
\* the contents it knows them by (checkHistory, CheckSchema).
ServesComplete == \A r \in Replicas : starting[r].at = "serving" =>
  \A n \in DOMAIN Builds[installed[r]] : effects[n] = <<Builds[installed[r]][n]>>

\* Once all replicas are to run the latest version they all come to serve,
\* unless its files are not those of the database.
Compatible == CheckHistory(Latest, history)
UpgradeFinishes ==
  (\A r \in Replicas : installed[r] = Latest) ~> ((\A r \in Replicas : starting[r].at = "serving") \/ ~Compatible)

\* Not so: a replica that goes on serving is on no later schema than its own
\* (it is checked only at the start).
NeverAhead == \A r \in Replicas : starting[r].at = "serving" => CheckHistory(installed[r], history)

=============================================================================
