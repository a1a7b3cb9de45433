---------------------------- MODULE MCFleetRuns ----------------------------
(***************************************************************************)
(* Fleet queries for TLC: without faults; under crashes and lost answers;  *)
(* and with executions that overrun the reaping delay and replicas that    *)
(* shut down.                                                              *)
(***************************************************************************)
EXTENDS FleetRuns, TLC

CONSTANTS o1, o2

VARIABLE trouble

TwoOwners == {o1, o2}
OneRun == {1}

Option(c, s, k) == [concurrency |-> c, stopOnError |-> s, canary |-> k]

\* A canary before two at a time, one at a time, and two at a time.
WriteOptions == {Option(2, TRUE, TRUE), Option(1, TRUE, FALSE), Option(2, FALSE, FALSE)}
\* Every option both ways, in two scripts.
CalmOptions  == {Option(2, TRUE, TRUE), Option(1, FALSE, FALSE)}
Concurrent   == {Option(2, FALSE, FALSE)}

NoFaults    == {}
CrashFaults == {"crash", "lost"}

Overrun == INSTANCE FleetRuns WITH Faults <- {"overrun", "shutdown"}

\* Replicas are interchangeable.
OwnerSymmetry == Permutations(TwoOwners)

\* Without faults.
CalmSpec ==
  /\ trouble = "none" /\ Init /\ [][Next /\ UNCHANGED trouble]_<<trouble, vars>>
  /\ Fairness

\* Under faults.  Bound: where executions overrun the third target is not
\* reached, and the run has a canary.
FaultsInit == trouble \in {"crash", "overrun"} /\ Init

FaultsNext ==
  /\ UNCHANGED trouble
  /\ \/ trouble = "crash" /\ Next
     \/ trouble = "overrun" /\ Overrun!Next /\ \A r \in Runs : attempt'[r][2] = 0 /\ opts'[r].canary

FaultsSpec == FaultsInit /\ [][FaultsNext]_<<trouble, vars>>

\* Every run comes to its end, or to where it waits for a user, and one that is
\* canceled ends the executions it has under way.
RunsSettle == RunSettles /\ CancelSettles
===============================================================================
