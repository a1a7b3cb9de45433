------------------------------- MODULE Secrets -------------------------------
(***************************************************************************)
(* Stored credentials and the rotation of the key that protects them.      *)
(*                                                                         *)
(* A secret is encrypted under a data key of its own, which is stored      *)
(* wrapped by a master key.  The rotation lists all secrets and wraps      *)
(* their data keys anew, one after the other, while the servers write and  *)
(* delete secrets.  Who runs it goes by the operations guide, and again    *)
(* when it fails, or has the fleetdock command do it, which then puts the  *)
(* previous environment back.                                              *)
(*                                                                         *)
(* Abstracted: the encryption (a payload opens under its data key, and a   *)
(* wrapped data key under the master key of its key id).                   *)
(***************************************************************************)
EXTENDS Integers, Sequences, FiniteSets, SequencesExt

CONSTANTS
  Refs,        \* what secrets are stored under
  Servers,     \* processes of the control plane
  ByCommand,   \* the fleetdock command runs the rotation
  MaxKeys,     \* bound: master keys
  MaxPuts,     \* bound: secrets written
  MaxPasses    \* bound: passes of the rotation

ASSUME SecretsAssumption ==
  IsFiniteSet(Refs) /\ MaxKeys \in Nat /\ MaxPuts \in Nat /\ MaxPasses \in Nat /\ ByCommand \in BOOLEAN

VARIABLES
  secrets,      \* the secrets table
  env,         \* the keys the environment names: the primary and old ones
  keyring,     \* by server: the environment it was started with
  pass,        \* the rotation: what it listed and has yet to wrap
  keys,        \* master keys made so far
  dropped,     \* those the command has dropped again
  puts,        \* secrets written so far; the last one's data key
  passes,
  overwritten  \* secrets written over while a pass had them to do

secretVars == <<secrets, env, keyring, pass, keys, dropped, puts, passes, overwritten>>

Absent == [id |-> 0, payload |-> 0, wrapped |-> 0, key |-> 0]
NoPass == [state |-> "none", todo |-> <<>>]
Keys(ring) == {ring.primary} \cup ring.old

SecretsInit ==
  /\ secrets = [r \in Refs |-> Absent]
  /\ env = [primary |-> 1, old |-> {}] /\ keyring = [s \in Servers |-> env]
  /\ pass = NoPass /\ keys = 1 /\ dropped = {} /\ puts = 0 /\ passes = 0 /\ overwritten = {}

---------------------------------------------------------------------------
(* The service *)

\* Encrypt: a fresh data key, wrapped by the primary key.
Encrypt(ring, id) == [id |-> id, payload |-> puts + 1, wrapped |-> puts + 1, key |-> ring.primary]

\* unwrapDataKey, Decrypt
Opens(e, ring) == e.key \in Keys(ring) /\ e.wrapped = e.payload

\* Put: an upsert, in which a secret that is there keeps its id.
Put(s, r) ==
  /\ puts < MaxPuts /\ puts' = puts + 1
  /\ secrets' = [secrets EXCEPT ![r] = Encrypt(keyring[s], IF secrets[r] = Absent THEN puts + 1 ELSE secrets[r].id)]
  /\ overwritten' = IF \E i \in 1..Len(pass.todo) : pass.todo[i].id = secrets[r].id THEN overwritten \cup {r} ELSE overwritten \ {r}
  /\ UNCHANGED <<env, keyring, pass, passes, keys, dropped>>

DeleteSecret(r) ==
  /\ secrets[r] # Absent /\ secrets' = [secrets EXCEPT ![r] = Absent]
  /\ overwritten' = overwritten \ {r}
  /\ UNCHANGED <<env, keyring, pass, puts, passes, keys, dropped>>

Restart(s) ==
  /\ keyring[s] # env /\ keyring' = [keyring EXCEPT ![s] = env]
  /\ UNCHANGED <<secrets, env, pass, puts, passes, overwritten, keys, dropped>>

---------------------------------------------------------------------------
(* The rotation *)

Promoted == env.old # {}
AllRestarted == \A s \in Servers : keyring[s] = env

\* A new key under a new id, the current one kept readable.
Promote ==
  /\ ~Promoted /\ AllRestarted /\ keys < MaxKeys /\ keys' = keys + 1
  /\ env' = [primary |-> keys + 1, old |-> {env.primary}]
  /\ UNCHANGED <<secrets, keyring, pass, puts, passes, overwritten, dropped>>

\* ListAll, once every server has the new key.
RotateKeys ==
  /\ Promoted /\ AllRestarted /\ pass.state \in {"none", "failed"} /\ passes < MaxPasses
  /\ passes' = passes + 1
  /\ \E order \in SetToSeqs({secrets[r] : r \in {q \in Refs : secrets[q] # Absent}}) :
       pass' = [state |-> "running", todo |-> order]
  /\ UNCHANGED <<secrets, env, keyring, puts, overwritten, keys, dropped>>

Listed == Head(pass.todo)
Rest == [pass EXCEPT !.todo = Tail(@)]

\* Rewrap: the data key as listed, whatever the row holds by now.
Rewrap ==
  /\ pass.state = "running" /\ pass.todo # <<>> /\ Listed.key # env.primary /\ Listed.key \in Keys(env)
  /\ \E r \in Refs :
       secrets[r].id = Listed.id /\ secrets' = [secrets EXCEPT ![r] = [@ EXCEPT !.wrapped = Listed.wrapped, !.key = env.primary]]
  /\ pass' = Rest
  /\ UNCHANGED <<env, keyring, puts, passes, overwritten, keys, dropped>>

\* Under the primary key already.
Skip ==
  /\ pass.state = "running" /\ pass.todo # <<>> /\ Listed.key = env.primary
  /\ pass' = Rest
  /\ UNCHANGED <<secrets, env, keyring, puts, passes, overwritten, keys, dropped>>

\* The pass ends early: its row is gone, the data key as listed does not open
\* or, for whatever reason, the command does not get further.
RotateFails ==
  /\ pass.state = "running"
  /\ pass' = [state |-> "failed", todo |-> <<>>]
  /\ UNCHANGED <<secrets, env, keyring, puts, passes, overwritten, keys, dropped>>

RotateEnds ==
  /\ pass.state = "running" /\ pass.todo = <<>>
  /\ pass' = [state |-> "done", todo |-> <<>>]
  /\ UNCHANGED <<secrets, env, keyring, puts, passes, overwritten, keys, dropped>>

\* Mutant: also after a pass that ended early.
DropOldAnyway ==
  /\ pass.state \in {"done", "failed"}
  /\ env' = [env EXCEPT !.old = {}] /\ pass' = NoPass
  /\ UNCHANGED <<secrets, keyring, puts, passes, overwritten, keys, dropped>>

\* Once it reports every secret current, the old key can go.
DropOld ==
  /\ pass.state = "done"
  /\ env' = [env EXCEPT !.old = {}] /\ pass' = NoPass
  /\ UNCHANGED <<secrets, keyring, puts, passes, overwritten, keys, dropped>>

\* restore_env
RestoreEnv ==
  /\ ByCommand /\ pass.state = "failed" /\ AllRestarted
  /\ env' = [primary |-> CHOOSE k \in env.old : TRUE, old |-> {}] /\ pass' = NoPass
  /\ dropped' = dropped \cup {env.primary}
  /\ UNCHANGED <<secrets, keyring, puts, passes, overwritten, keys>>

SecretsNext ==
  \/ \E r \in Refs : DeleteSecret(r) \/ \E s \in Servers : Put(s, r)
  \/ \E s \in Servers : Restart(s)
  \/ Promote \/ RotateKeys \/ Rewrap \/ Skip \/ RotateFails \/ RotateEnds \/ DropOld \/ RestoreEnv

SecretsSpec == SecretsInit /\ [][SecretsNext]_secretVars

---------------------------------------------------------------------------
(* Properties *)

\* "FLEETDOCK_ENCRYPTION_KEY can be rotated without losing data": every secret
\* can be read under the keys of the environment.
NothingLost == \A r \in Refs : secrets[r] # Absent => Opens(secrets[r], env)

\* So it is, however often a pass is cut short and whatever is written and
\* deleted meanwhile, as long as no secret is written over that a pass has to
\* do and the keys the command dropped are not missed.
RotationKeeps ==
  \A r \in Refs \ overwritten : secrets[r] # Absent => Opens(secrets[r], [env EXCEPT !.old = @ \cup dropped])

\* A server that knows the keys of the environment can read every secret.
ServersRead ==
  \A s \in Servers, r \in Refs \ overwritten :
    secrets[r] # Absent /\ env.primary \in Keys(keyring[s]) /\ dropped = {} => Opens(secrets[r], keyring[s])

\* Secrets are readable whatever a rotation leaves behind.
SecretsStay == RotationKeeps /\ ServersRead

\* "rotation failed; the previous key is back in place": every secret can be read.
FailedRotationKeeps == \A r \in Refs \ overwritten : secrets[r] # Absent => Opens(secrets[r], env)
=============================================================================
