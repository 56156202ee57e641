------------------------------ MODULE JobStore ------------------------------
(***************************************************************************)
(* The lock of one job and the due pointer of one of its minutes, and the  *)
(* activations that race on them, one HTTP request per step as in RunStore. *)
(*   tos_repository.py:  acquire_lock, release_lock, put_due               *)
(*   cronjobs/repository.py:  _delete_job, for the lock                    *)
(* An activation uses the lock from its acquisition to its release; it may *)
(* die in between, and may outlive its lease.                              *)
(***************************************************************************)
EXTENDS Naturals

CONSTANTS
  Activations,    \* concurrent callers: workers, scanner, Studio
  JobRuns,        \* runs an activation may be for; several may be for one
  JobRevisions,   \* revisions a pointer may carry
  LeaseTime,      \* max_runtime_seconds
  None,           \* lock.json does not exist; an idle task has no run
  PutRounds,      \* _CAS_ATTEMPTS: rounds of a read / conditional-put loop
  LastReading,    \* bound on the clock, for model checking
  MaxTasks        \* bound on the number of calls, for model checking

ASSUME PutRoundsAssumption == PutRounds \in Nat \ {0}
ASSUME LeaseAssumption == LeaseTime \in Nat
ASSUME ReadingsAssumption == LastReading \in Nat
ASSUME MaxTasksAssumption == MaxTasks \in Nat
ASSUME RevisionsAssumption == JobRevisions \subseteq Nat \ {0}

VARIABLES
  clock,
  lock,           \* None, or the body of lock.json
  lockTag,        \* its ETag; every write changes it
  due,            \* the revision in the due pointer; 0 while there is none
  dueTag,
  task,           \* task[a]: the call that activation a is in, or "holding"
  tasks,          \* number of tasks begun so far
  freed           \* history: whose lock was released or deleted by others

jobVars == <<clock, lock, lockTag, due, dueTag, task, tasks, freed>>

AbstractLock == IF lock = None THEN None
                ELSE [state |-> lock.state, run |-> lock.run,
                      expires |-> lock.expires]

Objects == INSTANCE JobObjects WITH
  Runs <- JobRuns, Revisions <- JobRevisions, Readings <- 0..LastReading,
  Lease <- LeaseTime, NoLock <- None, lock <- AbstractLock

(* by stands for replicaId and acquiredAt, which tell two holders apart.   *)
Lock == [state : {"held", "released"}, run : JobRuns, by : Activations,
         expires : {r + LeaseTime : r \in 0..LastReading}]

ASSUME NoneAssumption == None \notin Lock /\ None \notin Objects!Lock

TaskPcs == {"idle", "create", "read", "replace", "holding", "delete"}
TaskOps == {"acquire", "release", "due", "delete"}

(* at: the clock reading the lease begins with; seen / tag: the last body  *)
(* read and its ETag; tries: conditional puts refused.                     *)
Task == [op : TaskOps, pc : TaskPcs, run : JobRuns \cup {None},
         rev : JobRevisions \cup {0}, at : 0..LastReading,
         seen : Lock \cup {None}, tag : Nat, tries : 0..PutRounds - 1]

NoTask == [op |-> "delete", pc |-> "idle", run |-> None, rev |-> 0, at |-> 0,
           seen |-> None, tag |-> 0, tries |-> 0]

JobInit ==
  /\ clock = 0
  /\ lock = None /\ lockTag = 0
  /\ due = 0 /\ dueTag = 0
  /\ task = [a \in Activations |-> NoTask]
  /\ tasks = 0
  /\ freed = {}

In(a, op, pc) == task[a].op = op /\ task[a].pc = pc
Enter(a, k)   == task' = [task EXCEPT ![a] = k]
Leave(a)      == Enter(a, NoTask)
WriteLock(l)  == lock' = l /\ lockTag' = lockTag + 1
WriteDue(r)   == due' = r /\ dueTag' = dueTag + 1

LeaseOf(a) == [state |-> "held", run |-> task[a].run, by |-> a,
               expires |-> task[a].at + LeaseTime]

(* a believes that it has the lock.                                        *)
Using(a) == task[a].op = "release" \/ task[a].pc = "holding"

(* The activations other than a to which the lock belongs that a gives up. *)
Victims(a) == {b \in Activations \ {a} : Using(b) /\ lock = LeaseOf(b)}

-----------------------------------------------------------------------------

(* The clock is read when the activation starts, before its first request. *)
BeginTask(a) ==
  /\ task[a].pc = "idle"
  /\ tasks < MaxTasks
  /\ tasks' = tasks + 1
  /\ freed' = freed \ {a}
  /\ \/ \E m \in JobRuns :
          Enter(a, [NoTask EXCEPT !.op = "acquire", !.pc = "create",
                                  !.run = m, !.at = clock])
     \/ \E r \in JobRevisions :
          Enter(a, [NoTask EXCEPT !.op = "due", !.pc = "create", !.rev = r])
     \/ Enter(a, [NoTask EXCEPT !.pc = "delete"])
  /\ UNCHANGED <<clock, lock, lockTag, due, dueTag>>

(* acquire_lock: put with forbid_overwrite.                                *)
CreateLock(a) ==
  /\ In(a, "acquire", "create")
  /\ \/ /\ lock = None
        /\ WriteLock(LeaseOf(a))
        /\ \/ Enter(a, [task[a] EXCEPT !.pc = "holding"])
           \/ Leave(a)                  \* written, but the reply was lost
     \/ /\ lock # None
        /\ Enter(a, [task[a] EXCEPT !.pc = "read"])
        /\ UNCHANGED <<lock, lockTag>>
  /\ UNCHANGED <<clock, due, dueTag, tasks, freed>>

(* Mutant of InForce: the comparison of the expiry is reversed.            *)
InForceOnceOver(l, at) == l.state = "held" /\ l.expires <= at

InForce(l, at) == l.state = "held" /\ l.expires > at

(* acquire_lock returns a refusal over a lease that is in force, and       *)
(* raises when the lock was deleted; release_lock returns unless the lock  *)
(* is held for its own run.                                                *)
MayReplace(a) ==
  /\ lock # None
  /\ \/ task[a].op = "acquire" /\ ~InForce(lock, task[a].at)
     \/ task[a].op = "release" /\ lock.state = "held" /\ lock.run = task[a].run

ReadLock(a) ==
  /\ In(a, "acquire", "read") \/ In(a, "release", "read")
  /\ \/ /\ MayReplace(a)
        /\ Enter(a, [task[a] EXCEPT !.pc = "replace", !.seen = lock,
                                    !.tag = lockTag])
     \/ ~MayReplace(a) /\ Leave(a)
  /\ UNCHANGED <<clock, lock, lockTag, due, dueTag, tasks, freed>>

(* Mutant of LockMatches: a put without if_match.                          *)
LockMatchesAlways(a) == lock # None

LockMatches(a) == lock # None /\ lockTag = task[a].tag

(* Mutant of NextRound: one more put than the loop has rounds.             *)
NextRoundExtra(a) ==
  IF task[a].tries < PutRounds
    THEN Enter(a, [task[a] EXCEPT !.pc = "read", !.tries = @ + 1])
    ELSE Leave(a)

(* A refused put: read again, or raise SchedulerStorageConflict after the  *)
(* last round.                                                             *)
NextRound(a) ==
  IF task[a].tries + 1 < PutRounds
    THEN Enter(a, [task[a] EXCEPT !.pc = "read", !.tries = @ + 1])
    ELSE Leave(a)

(* The conditional put of both loops.                                      *)
ReplaceLock(a) ==
  /\ In(a, "acquire", "replace") \/ In(a, "release", "replace")
  /\ \/ /\ LockMatches(a)
        /\ \/ /\ task[a].op = "acquire"
              /\ WriteLock(LeaseOf(a)) /\ UNCHANGED freed
              /\ \/ Enter(a, [task[a] EXCEPT !.pc = "holding"])
                 \/ Leave(a)            \* written, but the reply was lost
           \/ /\ task[a].op = "release"
              /\ WriteLock([task[a].seen EXCEPT !.state = "released"])
              /\ freed' = freed \cup Victims(a)
              /\ Leave(a)
     \/ /\ ~LockMatches(a)
        /\ NextRound(a)
        /\ UNCHANGED <<lock, lockTag, freed>>
  /\ UNCHANGED <<clock, due, dueTag, tasks>>

(* The finally block calls release_lock.                                   *)
BeginRelease(a) ==
  /\ task[a].pc = "holding"
  /\ Enter(a, [task[a] EXCEPT !.op = "release", !.pc = "read", !.tries = 0])
  /\ UNCHANGED <<clock, lock, lockTag, due, dueTag, tasks, freed>>

(* _delete_job removes the lock unconditionally.                           *)
DropLock(a) ==
  /\ In(a, "delete", "delete")
  /\ IF lock = None THEN UNCHANGED <<lock, lockTag, freed>>
     ELSE WriteLock(None) /\ freed' = freed \cup Victims(a)
  /\ Leave(a)
  /\ UNCHANGED <<clock, due, dueTag, tasks>>

-----------------------------------------------------------------------------
(* put_due.                                                                *)

CreateDue(a) ==
  /\ In(a, "due", "create")
  /\ \/ /\ due = 0
        /\ WriteDue(task[a].rev)
        /\ Leave(a)
     \/ /\ due # 0
        /\ Enter(a, [task[a] EXCEPT !.pc = "read"])
        /\ UNCHANGED <<due, dueTag>>
  /\ UNCHANGED <<clock, lock, lockTag, tasks, freed>>

(* Mutant of KeepsDue: whatever was published last wins.                   *)
KeepsDueIfSame(a) == due = task[a].rev

(* The same pointer, or one of a newer revision, is left alone.            *)
KeepsDue(a) == due >= task[a].rev

ReadDue(a) ==
  /\ In(a, "due", "read")
  /\ \/ /\ ~KeepsDue(a)
        /\ Enter(a, [task[a] EXCEPT !.pc = "replace", !.tag = dueTag])
     \/ KeepsDue(a) /\ Leave(a)
  /\ UNCHANGED <<clock, lock, lockTag, due, dueTag, tasks, freed>>

ReplaceDue(a) ==
  /\ In(a, "due", "replace")
  /\ \/ /\ dueTag = task[a].tag
        /\ WriteDue(task[a].rev)
        /\ Leave(a)
     \/ /\ dueTag # task[a].tag
        /\ NextRound(a)
        /\ UNCHANGED <<due, dueTag>>
  /\ UNCHANGED <<clock, lock, lockTag, tasks, freed>>

-----------------------------------------------------------------------------

(* A request raises, or the process dies, at work or between two requests. *)
TaskFails(a) ==
  /\ task[a].pc # "idle"
  /\ Leave(a)
  /\ UNCHANGED <<clock, lock, lockTag, due, dueTag, tasks, freed>>

TaskStep(a) ==
  \/ BeginTask(a) \/ CreateLock(a) \/ ReadLock(a) \/ ReplaceLock(a)
  \/ BeginRelease(a) \/ DropLock(a) \/ CreateDue(a) \/ ReadDue(a)
  \/ ReplaceDue(a) \/ TaskFails(a)

ClockTicks ==
  /\ clock < LastReading
  /\ clock' = clock + 1
  /\ UNCHANGED <<lock, lockTag, due, dueTag, task, tasks, freed>>

(* The bounded instance stops when every task is over.                     *)
JobRest ==
  /\ tasks = MaxTasks /\ clock = LastReading
  /\ \A a \in Activations : task[a].pc = "idle"
  /\ UNCHANGED jobVars

JobNext == (\E a \in Activations : TaskStep(a)) \/ ClockTicks \/ JobRest

JobSpec == JobInit /\ [][JobNext]_jobVars

-----------------------------------------------------------------------------

JobTypeOK ==
  /\ clock \in 0..LastReading
  /\ lock \in Lock \cup {None} /\ lockTag \in Nat
  /\ due \in JobRevisions \cup {0} /\ dueTag \in Nat
  /\ task \in [Activations -> Task]
  /\ tasks \in 0..MaxTasks
  /\ freed \subseteq Activations

(* a has the lock, within its lease, and nobody gave it away.              *)
Live(a) == Using(a) /\ clock < task[a].at + LeaseTime /\ a \notin freed

(* However the requests of the loops interleave, and whatever raises, dies *)
(* or outlives its lease: a live lease is the one in the object, so there  *)
(* is one at most, and it is only lost to a release of the same run by an  *)
(* activation that is not live itself (release_lock compares the run, not  *)
(* the replica), or to the deletion of the job.                            *)
LeaseStands == \A a \in Activations : Live(a) => lock = LeaseOf(a)

(* The loops implement the objects as CronDispatcher takes them.           *)
ImplementsObjects == Objects!Spec

=============================================================================
