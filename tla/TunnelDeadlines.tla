--------------------------- MODULE TunnelDeadlines ---------------------------
(***************************************************************************)
(* Deadlines on a connection through an SSH tunnel.                        *)
(*                                                                         *)
(* An SSH channel has none, so a timer closes the channel when the         *)
(* earlier of the read and the write deadline passes.  The driver moves    *)
(* the deadlines while it reads; a timer that has fired waits for the same *)
(* lock, and cannot be stopped any more.                                   *)
(***************************************************************************)
EXTENDS Integers

CONSTANTS
  MaxClock,  \* bound: the clock
  MaxSets   \* bound: calls of SetDeadline and its like

ASSUME TunnelDeadlinesAssumption == MaxClock \in Nat /\ MaxSets \in Nat

VARIABLES
  clock,
  deadline,  \* read and write, 0 for none
  timer,     \* when it fires, 0 for no timer
  fired,     \* timers that fired and wait for the lock
  channel,   \* "open", "closed", or "expired" when a deadline closed it
  reader,    \* what the driver's read has come to
  sets

deadlineVars == <<clock, deadline, timer, fired, channel, reader, sets>>

DeadlinesInit ==
  /\ clock = 1 /\ deadline = [read |-> 0, write |-> 0] /\ timer = 0 /\ fired = 0
  /\ channel = "open" /\ reader = "idle" /\ sets = 0

\* earliest
Earliest(d) == IF d.read = 0 \/ (d.write # 0 /\ d.write < d.read) THEN d.write ELSE d.read

ClockTick == clock < MaxClock /\ clock' = clock + 1 /\ UNCHANGED <<deadline, timer, fired, channel, reader, sets>>

\* What the timer is armed for: the earlier of the deadlines in force.
Armed(d, given) == Earliest(d)

\* expireLocked
Expire == channel' = "expired"

\* setDeadlines, for one deadline or both.
SetDeadlines(kinds, at) ==
  LET given == [k \in {"read", "write"} |-> IF k \in kinds THEN at ELSE 0]
      d == [k \in {"read", "write"} |-> IF k \in kinds THEN at ELSE deadline[k]]
      next == Armed(d, given)
  IN
  /\ sets < MaxSets /\ sets' = sets + 1
  /\ deadline' = d
  /\ IF channel # "expired" /\ next # 0 /\ next <= clock
     THEN timer' = 0 /\ Expire
     ELSE timer' = (IF channel = "expired" THEN 0 ELSE next) /\ UNCHANGED channel
  /\ UNCHANGED <<clock, fired, reader>>

\* The timer starts its function, which waits for the lock.
Fire ==
  /\ timer # 0 /\ timer <= clock
  /\ timer' = 0 /\ fired' = fired + 1
  /\ UNCHANGED <<clock, deadline, channel, reader, sets>>

\* A deadline moved meanwhile has another timer.
Passed(d) == Earliest(d) # 0 /\ Earliest(d) <= clock

\* The function of the timer.
Fired ==
  /\ fired > 0 /\ fired' = fired - 1
  /\ IF Passed(deadline) THEN Expire ELSE UNCHANGED channel
  /\ UNCHANGED <<clock, deadline, timer, reader, sets>>

BeginRead == reader # "reading" /\ channel = "open" /\ reader' = "reading" /\ UNCHANGED <<clock, deadline, timer, fired, channel, sets>>

\* The bastion answers, or does not.
Data == reader = "reading" /\ channel = "open" /\ reader' = "idle" /\ UNCHANGED <<clock, deadline, timer, fired, channel, sets>>

\* Read: a read of a channel that is closed returns; timedOut says why.
ReadEnds ==
  /\ reader = "reading" /\ channel # "open"
  /\ reader' = IF channel = "expired" THEN "timed out" ELSE "broken"
  /\ UNCHANGED <<clock, deadline, timer, fired, channel, sets>>

\* Close, by the driver; or the bastion ends the channel.
CloseTunnel ==
  /\ channel = "open" /\ channel' = "closed" /\ timer' \in {0, timer}
  /\ UNCHANGED <<clock, deadline, fired, reader, sets>>

DeadlinesNext ==
  \/ ClockTick \/ Fire \/ Fired \/ BeginRead \/ Data \/ ReadEnds \/ CloseTunnel
  \/ \E kinds \in SUBSET {"read", "write"} \ {{}}, at \in 0 .. MaxClock : SetDeadlines(kinds, at)

\* Time passes, a timer fires, and a goroutine that can go on does.
DeadlinesFairness == WF_deadlineVars(ClockTick) /\ WF_deadlineVars(Fire) /\ WF_deadlineVars(Fired) /\ WF_deadlineVars(ReadEnds)

DeadlinesSpec == DeadlinesInit /\ [][DeadlinesNext]_deadlineVars /\ DeadlinesFairness

---------------------------------------------------------------------------
(* Properties *)

\* "Without this, a bastion that stops answering would block a query past
\* every timeout" (sshtunnel.go:301): a read that begins under a deadline
\* ends, unless the deadline is taken away.
ReadIsInterrupted == (reader = "reading" /\ deadline.read # 0) ~> (reader # "reading" \/ deadline.read = 0)

\* The channel expires only when a deadline in force has passed: a deadline
\* that was moved in time is never what ends a connection.
NotBeforeTime == [][channel # "expired" /\ channel' = "expired" =>
  \E k \in {"read", "write"} : deadline'[k] # 0 /\ deadline'[k] <= clock]_deadlineVars
=============================================================================
