----------------------------- MODULE MCBackups -----------------------------
(***************************************************************************)
(* Backups for TLC: without faults, and with one fault and executions that *)
(* may outlive the time after which they count as dead.                    *)
(***************************************************************************)
EXTENDS Backups

VARIABLE setting

Calm == INSTANCE Backups WITH MaxFaults <- 0, Slow <- FALSE
Less == INSTANCE Backups WITH MaxRequests <- 2

AllFeatures == {"fail", "expire", "delete", "verify"}

BackupsInit == setting \in {"calm", "faulty"} /\ Init

\* Bounds: with faults, one job and one request less.
BackupsNext ==
  /\ UNCHANGED setting
  /\ \/ setting = "calm" /\ Calm!Next
     \/ setting = "faulty" /\ Less!Next /\ job'[5] = NoJob

\* Fairness of Backups, with faults.
Fairly(A) == setting = "faulty" /\ A

BackupsSpec ==
  /\ BackupsInit /\ [][BackupsNext]_<<setting, vars>>
  /\ \A x \in Executors :
       WF_vars(Fairly(Working(x))) /\ WF_vars(Fairly(\E e \in effects : e.by = x /\ ApplyEffect(e)))
  /\ WF_vars(Fairly(\E a \in asked : Continue(a)))
  /\ \A j \in Jobs : WF_vars(Fairly(Ages(j)))
  /\ \A r \in Replicas : WF_vars(Fairly(FailStuckJobs(r))) /\ WF_vars(Fairly(Prune(r)))

\* An expired backup is pruned in the end, also when the process dies between
\* removing the object and marking the row.
ExpiredIsPruned ==
  \A b \in Subjects :
    (setting = "faulty" /\ backup[b].status = "completed" /\ backup[b].due) ~> backup[b].status # "completed"
=============================================================================
