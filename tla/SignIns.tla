-------------------------------- MODULE SignIns --------------------------------
(***************************************************************************)
(* The two limits on POST /v1/auth/login, both kept in the memory of one   *)
(* process: loginLimiter counts the attempts of an address, accountGuard   *)
(* the failed attempts at an account.  The password is checked between     *)
(* Locked and Failed or Succeeded, without the guard's lock.               *)
(*                                                                         *)
(* Abstracted: one address and one account; the clock counts units of      *)
(* which a window is Window long, and moves on while a request is handled. *)
(* The 100 000 accounts after which a random one is forgotten are not      *)
(* reached.                                                                *)
(***************************************************************************)
EXTENDS Integers, Sequences, FiniteSets

CONSTANTS
  Limit,       \* attempts or failures allowed in a window
  Window,
  MaxTime,     \* bound: the clock
  MaxChecks,   \* bound: passwords being checked at once
  MaxAttempts  \* bound: attempts in all

ASSUME SignInsAssumption ==
  /\ Limit \in Nat \ {0} /\ Window \in Nat \ {0}
  /\ MaxTime \in Nat /\ MaxChecks \in Nat /\ MaxAttempts \in Nat

VARIABLES
  now,
  fails,     \* accountGuard.fails of the account: times, oldest first
  hits,      \* loginLimiter.hits of the address
  checks,    \* passwords being checked
  outcomes,  \* every outcome so far: the time and how it ended
  admitted,  \* the times at which Allow said yes
  locked     \* requests answered "locked", and of those the audit log kept

signInVars == <<now, fails, hits, checks, outcomes, admitted, locked>>

Outcome == [at : Nat, how : {"failed", "succeeded", "refused"}]

SignInsInit ==
  /\ now = 0 /\ fails = <<>> /\ hits = <<>> /\ checks = 0 /\ outcomes = <<>> /\ admitted = <<>>
  /\ locked = [answered |-> 0, audited |-> 0]

\* The times are in the clock's order, so that those kept come last.
Recent(times) ==
  LET old == {i \in DOMAIN times : times[i] <= now - Window}
  IN  SubSeq(times, Cardinality(old) + 1, Len(times))

\* Allow, of the address.  An attempt that is refused is not counted.

AllowAttempt == Len(Recent(hits)) < Limit

Admit == AllowAttempt /\ hits' = Append(Recent(hits), now) /\ admitted' = Append(admitted, now)

Locked == Len(Recent(fails)) >= Limit

\* At most Limit failures are kept.
Keep(times) == IF Len(times) > Limit THEN SubSeq(times, Len(times) - Limit + 1, Len(times)) ELSE times

\* How long a locked account stays locked.
Wait == Recent(fails)[Len(Recent(fails)) - Limit + 1] + Window - now

---------------------------------------------------------------------------

Tick ==
  /\ now < MaxTime /\ now' = now + 1
  /\ UNCHANGED <<fails, hits, checks, outcomes, admitted, locked>>

\* The outcome of the audit middleware: only a failure answered 401, a success
\* or a 403 leaves an event, and a locked account is answered 429.
Audited(status) == status \in {200, 401, 403}

\* Login, up to the password check.
LoginLimited ==
  /\ Len(outcomes) + checks < MaxAttempts
  /\ ~AllowAttempt
  /\ outcomes' = Append(outcomes, [at |-> now, how |-> "refused"])
  /\ UNCHANGED <<now, fails, hits, checks, admitted, locked>>

LoginLocked ==
  /\ Len(outcomes) + checks < MaxAttempts
  /\ Admit
  /\ Locked
  /\ locked' = [answered |-> locked.answered + 1, audited |-> locked.audited + IF Audited(429) THEN 1 ELSE 0]
  /\ outcomes' = Append(outcomes, [at |-> now, how |-> "refused"])
  /\ UNCHANGED <<now, fails, checks>>

LoginChecks ==
  /\ Len(outcomes) + checks < MaxAttempts /\ checks < MaxChecks
  /\ Admit
  /\ ~Locked
  /\ checks' = checks + 1
  /\ UNCHANGED <<now, fails, outcomes, locked>>

Failed ==
  /\ checks > 0 /\ checks' = checks - 1
  /\ fails' = Keep(Append(Recent(fails), now))
  /\ outcomes' = Append(outcomes, [at |-> now, how |-> "failed"])
  /\ UNCHANGED <<now, hits, admitted, locked>>

Succeeded ==
  /\ checks > 0 /\ checks' = checks - 1
  /\ fails' = <<>>
  /\ outcomes' = Append(outcomes, [at |-> now, how |-> "succeeded"])
  /\ UNCHANGED <<now, hits, admitted, locked>>

\* The limiter's housekeeping, and what Locked writes back.
CollectGarbage ==
  /\ hits # <<>> /\ Recent(hits) = <<>>
  /\ hits' = <<>>
  /\ UNCHANGED <<now, fails, checks, outcomes, admitted, locked>>

SignInsNext ==
  \/ Tick \/ LoginLimited \/ LoginLocked \/ LoginChecks
  \/ Failed \/ Succeeded \/ CollectGarbage

SignInsSpec == SignInsInit /\ [][SignInsNext]_signInVars

---------------------------------------------------------------------------
(* Properties *)

\* The failures after t that no success followed.
FailuresAfter(t) ==
  {k \in DOMAIN outcomes : /\ outcomes[k].how = "failed" /\ outcomes[k].at > t
                           /\ \A j \in k..Len(outcomes) : outcomes[j].how # "succeeded"}

\* Those the account should be judged by.
FailuresSince == FailuresAfter(now - Window)

\* An account is locked exactly if Limit sign-ins failed in the last window and
\* none succeeded after them, and it says when it opens again: as many failures
\* as are forgotten are no longer needed.
LocksAsSaid ==
  /\ Locked <=> Cardinality(FailuresSince) >= Limit
  /\ Locked => /\ Wait \in 1..Window
               /\ Cardinality(FailuresAfter(now + Wait - Window)) < Limit

\* A sign-in refused because the account is locked is in the audit log, as Login
\* marks it to be.  The middleware keeps failures answered 401 only.
LockedIsAudited == locked.answered = locked.audited
=============================================================================
