-------------------------- MODULE CronDispatcherMC --------------------------
(* Small instances of CronDispatcher for TLC.                                *)
EXTENDS CronDispatcher, TLC

(* Minute 0 creates the job.  Schedules used by the runs: one occurrence,    *)
(* two in consecutive minutes, and an edit that moves the second one.        *)
OnceAt1   == [r \in Revisions |-> {1}]
At1And2   == [r \in Revisions |-> {1, 2}]
Moving    == [r \in Revisions |-> IF r = 1 THEN {1, 2} ELSE {2, 3}]

WorkerSymmetry  == Permutations(Workers)
ReplicaSymmetry == Permutations(Workers) \cup Permutations(Scanners)

=============================================================================
