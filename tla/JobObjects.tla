----------------------------- MODULE JobObjects -----------------------------
(***************************************************************************)
(* What the scheduler promises about the two objects of a job that its     *)
(* replicas rewrite: the lock, and the due pointer of one minute.  JobStore *)
(* shows that the put / get / conditional-put loops of tos_repository.py   *)
(* keep this promise request by request, and CronDispatcher that its       *)
(* handlers do, which take each repository method as one step.             *)
(***************************************************************************)
EXTENDS Naturals

CONSTANTS
  Runs,           \* the runs of the job
  Revisions,      \* the revisions of the job, from 1
  Readings,       \* readings of the clock
  Lease,          \* max_runtime_seconds
  NoLock          \* lock.json does not exist

VARIABLES
  lock,           \* NoLock or [state, run, expires]
  due             \* the revision in the due pointer; 0 while there is none

Lock == [state : {"held", "released"}, run : Runs,
         expires : {r + Lease : r \in Readings}]

(* Nobody's lease is in force for a caller that read the clock at at.      *)
Free(at) == lock = NoLock \/ lock.state = "released" \/ lock.expires <= at

Acquire ==
  /\ \E m \in Runs, at \in Readings :
       /\ Free(at)
       /\ lock' = [state |-> "held", run |-> m, expires |-> at + Lease]
  /\ UNCHANGED due

Release ==
  /\ lock # NoLock /\ lock.state = "held"
  /\ lock' = [lock EXCEPT !.state = "released"]
  /\ UNCHANGED due

Drop ==
  /\ lock # NoLock
  /\ lock' = NoLock
  /\ UNCHANGED due

PutDue ==
  /\ \E r \in Revisions : r >= due /\ due' = r
  /\ UNCHANGED lock

Next == Acquire \/ Release \/ Drop \/ PutDue

Init == lock = NoLock /\ due = 0

Spec == Init /\ [][Next]_<<lock, due>>

-----------------------------------------------------------------------------

(* A lease that nobody gave back is only followed by one that begins after *)
(* its end.                                                                *)
LeasesDoNotOverlap ==
  [][lock # NoLock /\ lock' # NoLock /\ lock.state = "held"
       /\ lock'.state = "held" /\ lock' # lock
       => lock'.expires >= lock.expires + Lease]_<<lock, due>>

(* A pointer is never withdrawn, and never names an older revision again.  *)
NewestRevisionWins == [][due' >= due]_<<lock, due>>

=============================================================================
