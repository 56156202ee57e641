------------------------ MODULE CronDispatcherProofs ------------------------
(* Proofs about CronDispatcher, for any number of scanners, workers and      *)
(* Studio requests, any schedule, lease, clock and fault budget.             *)
EXTENDS CronDispatcher, TLAPS

USE BoundsAssumption, LeaseAssumption, AttemptsAssumption,
    OccurrencesAssumption

-----------------------------------------------------------------------------
(* Type correctness.                                                         *)

(* A retry is only scheduled while an attempt is left, so that the attempt   *)
(* counter stays in its range.                                               *)
AttemptLeft == \A w \in Workers : At(w, "retry") => worker[w].attempt < Attempts

TypeInv == TypeOK /\ AttemptLeft

(* TypeOK, object by object.                                                 *)
JobType  == job \in [present : BOOLEAN, enabled : BOOLEAN, rev : 0..MaxRevision,
                     at : Minutes]
DueType  == due \in [Minutes -> 0..MaxRevision]
ReadyType == ready \in [Minutes -> 0..MaxRevision]
RunsType == runs \in [Minutes -> Record \cup {NoRun}]
LockType == lock \in [state : {"none", "held", "released"}, run : Minutes,
                      expires : 0..(Horizon + Lease)]
StoreType == JobType /\ DueType /\ ReadyType /\ RunsType /\ LockType
StartedType == started \in [Minutes -> Nat]

LEMMA FreshIsRecord ==
  ASSUME NEW s \in States PROVE Fresh(s) \in Record
BY DEF Fresh, Record

LEMMA CreateRunType ==
  ASSUME RunsType, NEW m, NEW s \in States, CreateRun(m, s)
  PROVE  RunsType'
BY FreshIsRecord DEF RunsType, CreateRun

LEMMA UpdateRunType ==
  ASSUME RunsType, NEW m \in Minutes, Exists(m), NEW s \in States,
         NEW ack \in BOOLEAN, UpdateRun(m, s, ack)
  PROVE  RunsType'
<1>1. runs[m] \in Record
  BY DEF RunsType, Exists
<1>2. Updated(runs[m], s, ack) \in Record
  BY <1>1 DEF Updated, Record
<1> QED BY <1>2 DEF RunsType, UpdateRun

LEMMA CloseRunType ==
  ASSUME RunsType, NEW m \in Minutes, NEW s \in States, CloseRun(m, s)
  PROVE  RunsType'
BY UpdateRunType DEF CloseRun, RunsType

LEMMA PutDueType ==
  ASSUME DueType, NEW m, NEW r \in 0..MaxRevision, PutDue(m, r)
  PROVE  DueType'
BY DEF DueType, PutDue

LEMMA PutNextDueType ==
  ASSUME DueType, NEW m, NEW r \in 0..MaxRevision, PutNextDue(r, m)
  PROVE  DueType'
BY PutDueType DEF DueType, PutNextDue

(* The local state of the workers, and the pcs a step may move one to.       *)
WorkerType == worker \in [Workers -> Work] /\ AttemptLeft

LEMMA PcsAreWorkerPcs ==
  {"idle", "job", "stale", "staleReady", "lock", "skip", "skipDue",
   "skipReady", "calling", "ack", "streaming", "abandon", "create", "claim",
   "close", "nextDue", "check", "attempt", "decide", "finish",
   "verify", "ready", "handler", "handlerReady", "release"}
  \subseteq WorkerPcs \ {"retry"}
BY DEF WorkerPcs, BeforeLock, Holding, InTry, Calling

LEMMA BecomeType ==
  ASSUME WorkerType, NEW w \in Workers, NEW r \in Work, Become(w, r),
         r.pc = "retry" => r.attempt < Attempts
  PROVE  WorkerType'
BY DEF WorkerType, AttemptLeft, Become, At

LEMMA GotoType ==
  ASSUME WorkerType, NEW w \in Workers, NEW pc \in WorkerPcs \ {"retry"},
         Goto(w, pc)
  PROVE  WorkerType'
<1> DEFINE r == [worker[w] EXCEPT !.pc = pc]
<1>1. r \in Work /\ r.pc = pc
  BY DEF WorkerType, Work
<1>2. Become(w, r)
  BY DEF Goto, Become
<1> HIDE DEF r
<1> QED BY <1>1, <1>2, BecomeType

LEMMA RestType ==
  ASSUME WorkerType, NEW w \in Workers, Rest(w) PROVE WorkerType'
<1>1. 0 \in 0..MaxRevision /\ 0 \in Minutes /\ 0 \in 0..Attempts
  BY DEF Minutes
<1>2. IdleWork \in Work /\ IdleWork.pc # "retry"
  BY <1>1, PcsAreWorkerPcs DEF IdleWork, Work
<1> QED BY <1>2, BecomeType DEF Rest

LEMMA DeleteReadyType ==
  ASSUME ReadyType, NEW m, DeleteReady(m) PROVE ReadyType'
<1>1. 0 \in 0..MaxRevision
  OBVIOUS
<1> QED BY <1>1 DEF DeleteReady, ReadyType

LEMMA ReleaseLockType ==
  ASSUME LockType, NEW m, ReleaseLock(m) PROVE LockType'
BY DEF LockType, ReleaseLock

LEMMA StartsType ==
  ASSUME StartedType, NEW m \in Minutes, Starts(m) PROVE StartedType'
BY DEF StartedType, Starts

LEMMA StoreUnchanged ==
  ASSUME StoreType, UNCHANGED store PROVE StoreType'
BY DEF store, StoreType, JobType, DueType, ReadyType, RunsType, LockType

LEMMA WorkFields ==
  ASSUME WorkerType, NEW w \in Workers
  PROVE  /\ worker[w] \in Work
         /\ Run(w) \in Minutes
         /\ worker[w].rev \in 0..MaxRevision
         /\ worker[w].at \in Minutes
         /\ worker[w].attempt \in 0..Attempts
         /\ worker[w].old \in Minutes
         /\ worker[w].acked \in BOOLEAN
         /\ worker[w].out \in {"succeeded", "failed", "cancelled"}
BY DEF WorkerType, Work, Run

LEMMA WriteOwnType ==
  ASSUME WorkerType, RunsType, NEW w \in Workers, NEW s \in States,
         NEW ack \in BOOLEAN, NEW pc \in WorkerPcs \ {"retry"},
         WriteOwn(w, s, ack, Goto(w, pc))
  PROVE  WorkerType' /\ RunsType'
BY WorkFields, UpdateRunType, GotoType, PcsAreWorkerPcs DEF WriteOwn, RunsType

LEMMA WorkerStepType ==
  ASSUME StoreType, WorkerType, StartedType, now \in Minutes,
         NEW w \in Workers, WorkerStep(w)
  PROVE  StoreType' /\ WorkerType' /\ StartedType'
<1>0. DueType /\ ReadyType /\ RunsType /\ LockType
  BY DEF StoreType
<1>1. ASSUME GetJob(w) PROVE StoreType' /\ WorkerType' /\ StartedType'
  <2>1. WorkerType'
    BY <1>0, <1>1, WorkFields, BecomeType, PcsAreWorkerPcs DEF GetJob, Work
  <2> QED BY <1>1, <2>1, StoreUnchanged DEF GetJob, StartedType, store
<1>2. ASSUME Stale(w) PROVE StoreType' /\ WorkerType' /\ StartedType'
  <2>1. WorkerType'
    BY <1>0, <1>2, WorkFields, GotoType, PcsAreWorkerPcs DEF Stale
  <2>2. RunsType'
    BY <1>0, <1>2, WorkFields, CloseRunType DEF Stale, States, Terminal, Active
  <2> QED BY <1>2, <2>1, <2>2 DEF Stale, StoreType, StartedType, JobType, DueType, ReadyType, LockType
<1>3. ASSUME DropReady(w) PROVE StoreType' /\ WorkerType' /\ StartedType'
  <2>1. WorkerType'
    BY <1>0, <1>3, WorkFields, RestType DEF DropReady
  <2>2. ReadyType'
    BY <1>0, <1>3, WorkFields, DeleteReadyType DEF DropReady
  <2> QED BY <1>3, <2>1, <2>2 DEF DropReady, StoreType, StartedType, JobType, DueType, RunsType, LockType
<1>4. ASSUME AcquireLock(w) PROVE StoreType' /\ WorkerType' /\ StartedType'
  <2>0. [worker[w] EXCEPT !.pc = "abandon", !.old = lock.run] \in Work
    BY <1>0, WorkFields, PcsAreWorkerPcs DEF LockType, Work
  <2>1. WorkerType'
    BY <1>4, <2>0, WorkFields, GotoType, PcsAreWorkerPcs, RestType, BecomeType
       DEF AcquireLock, Work
  <2>2. LockType'
    <3>1. worker[w].at + Lease \in 0..(Horizon + Lease)
      BY WorkFields DEF Minutes
    <3> QED BY <1>0, <1>4, <3>1, WorkFields DEF AcquireLock, LockType, Run
  <2> QED BY <1>4, <2>1, <2>2 DEF AcquireLock, StoreType, StartedType, JobType, DueType, ReadyType, RunsType
<1>5. ASSUME RecordSkipped(w) PROVE StoreType' /\ WorkerType' /\ StartedType'
  <2>1. WorkerType'
    BY <1>0, <1>5, WorkFields, GotoType, PcsAreWorkerPcs DEF RecordSkipped
  <2>2. RunsType'
    BY <1>0, <1>5, WorkFields, CreateRunType, UpdateRunType DEF RecordSkipped, States, Terminal, Active
  <2> QED BY <1>5, <2>1, <2>2 DEF RecordSkipped, StoreType, StartedType, JobType, DueType, ReadyType, LockType
<1>6. ASSUME WriteNextDue(w) PROVE StoreType' /\ WorkerType' /\ StartedType'
  <2>1. WorkerType'
    <3>0. 1 \in 0..Attempts
      OBVIOUS
    <3>1. [worker[w] EXCEPT !.pc = "check", !.attempt = 1] \in Work
      BY <3>0, WorkFields, PcsAreWorkerPcs DEF Work
    <3> QED BY <1>6, <3>1, WorkFields, GotoType, PcsAreWorkerPcs, BecomeType
            DEF WriteNextDue, Work
  <2>2. DueType'
    BY <1>0, <1>6, WorkFields, PutNextDueType DEF WriteNextDue
  <2> QED BY <1>6, <2>1, <2>2 DEF WriteNextDue, StoreType, StartedType, JobType, ReadyType, RunsType, LockType
<1>7. ASSUME MarkAbandoned(w) PROVE StoreType' /\ WorkerType' /\ StartedType'
  <2>1. WorkerType'
    BY <1>0, <1>7, WorkFields, GotoType, PcsAreWorkerPcs DEF MarkAbandoned
  <2>2. RunsType'
    BY <1>0, <1>7, WorkFields, CloseRunType DEF MarkAbandoned, States, Terminal, Active
  <2> QED BY <1>7, <2>1, <2>2 DEF MarkAbandoned, StoreType, StartedType, JobType, DueType, ReadyType, LockType
<1>8. ASSUME CreateOwn(w) PROVE StoreType' /\ WorkerType' /\ StartedType'
  <2>1. WorkerType'
    BY <1>0, <1>8, WorkFields, GotoType, PcsAreWorkerPcs DEF CreateOwn, Existing
  <2>2. RunsType'
    BY <1>0, <1>8, WorkFields, CreateRunType DEF CreateOwn, States, Terminal, Active
  <2> QED BY <1>8, <2>1, <2>2 DEF CreateOwn, StoreType, StartedType, JobType, DueType, ReadyType, LockType
<1>9. ASSUME CloseOwn(w) PROVE StoreType' /\ WorkerType' /\ StartedType'
  <2>1. WorkerType'
    BY <1>0, <1>9, WorkFields, GotoType, PcsAreWorkerPcs DEF CloseOwn
  <2>2. RunsType'
    BY <1>0, <1>9, WorkFields, CloseRunType DEF CloseOwn, States, Terminal, Active
  <2> QED BY <1>9, <2>1, <2>2 DEF CloseOwn, StoreType, StartedType, JobType, DueType, ReadyType, LockType
<1>10. ASSUME Claim(w) PROVE StoreType' /\ WorkerType' /\ StartedType'
  <2>1. WorkerType'
    BY <1>0, <1>10, WorkFields, WriteOwnType, PcsAreWorkerPcs DEF Claim, States, Terminal, Active
  <2>2. RunsType'
    BY <1>0, <1>10, WorkFields, WriteOwnType, PcsAreWorkerPcs DEF Claim, States, Terminal, Active
  <2> QED BY <1>10, <2>1, <2>2 DEF Claim, StoreType, StartedType, JobType, DueType, ReadyType, LockType
<1>11. ASSUME CheckCancel(w) PROVE StoreType' /\ WorkerType' /\ StartedType'
  <2>1. WorkerType'
    BY <1>0, <1>11, WorkFields, GotoType, PcsAreWorkerPcs, BecomeType DEF CheckCancel, Work
  <2> QED BY <1>11, <2>1, StoreUnchanged DEF CheckCancel, StartedType, store
<1>12. ASSUME Attempt(w) PROVE StoreType' /\ WorkerType' /\ StartedType'
  <2>1. WorkerType'
    BY <1>0, <1>12, WorkFields, WriteOwnType, PcsAreWorkerPcs DEF Attempt, States, Terminal, Active
  <2>2. RunsType'
    BY <1>0, <1>12, WorkFields, WriteOwnType, PcsAreWorkerPcs DEF Attempt, States, Terminal, Active
  <2> QED BY <1>12, <2>1, <2>2 DEF Attempt, StoreType, StartedType, JobType, DueType, ReadyType, LockType
<1>13. ASSUME RuntimeAccepts(w) PROVE StoreType' /\ WorkerType' /\ StartedType'
  <2>1. WorkerType'
    BY <1>0, <1>13, WorkFields, GotoType, PcsAreWorkerPcs DEF RuntimeAccepts
  <2>2. StartedType'
    BY <1>0, <1>13, WorkFields, StartsType DEF RuntimeAccepts
  <2> QED BY <1>13, <2>1, <2>2, StoreUnchanged DEF RuntimeAccepts
<1>14. ASSUME RuntimeRefuses(w) PROVE StoreType' /\ WorkerType' /\ StartedType'
  <2>1. WorkerType'
    <3>1. CASE CanRetry(worker[w]) /\ Goto(w, "retry")
      BY <3>1, WorkFields DEF WorkerType, AttemptLeft, CanRetry, Goto, At, Work,
                              WorkerPcs, Holding, InTry
    <3>2. CASE Become(w, [worker[w] EXCEPT !.pc = "decide", !.out = "failed"])
      BY <3>2, WorkFields, BecomeType, PcsAreWorkerPcs DEF Work
    <3> QED BY <1>14, <3>1, <3>2 DEF RuntimeRefuses
  <2>2. StartedType'
    BY <1>0, <1>14, WorkFields, StartsType DEF RuntimeRefuses, StartedType, Run
  <2> QED BY <1>14, <2>1, <2>2, StoreUnchanged DEF RuntimeRefuses
<1>15. ASSUME RuntimeSilent(w) PROVE StoreType' /\ WorkerType' /\ StartedType'
  <2>1. WorkerType'
    BY <1>0, <1>15, WorkFields, BecomeType, PcsAreWorkerPcs DEF RuntimeSilent, Work
  <2>2. StartedType'
    BY <1>0, <1>15, WorkFields, StartsType DEF RuntimeSilent, StartedType
  <2> QED BY <1>15, <2>1, <2>2, StoreUnchanged DEF RuntimeSilent
<1>16. ASSUME MarkAcknowledged(w) PROVE StoreType' /\ WorkerType' /\ StartedType'
  <2>1. WorkerType'
    BY <1>0, <1>16, WorkFields, GotoType, PcsAreWorkerPcs DEF MarkAcknowledged
  <2>2. RunsType'
    BY <1>0, <1>16, WorkFields, UpdateRunType DEF MarkAcknowledged, RunsType, States, Terminal, Active
  <2> QED BY <1>16, <2>1, <2>2 DEF MarkAcknowledged, StoreType, StartedType, JobType, DueType, ReadyType, LockType
<1>17. ASSUME StreamEnds(w) PROVE StoreType' /\ WorkerType' /\ StartedType'
  <2>1. WorkerType'
    BY <1>0, <1>17, WorkFields, BecomeType, PcsAreWorkerPcs DEF StreamEnds, Work
  <2> QED BY <1>17, <2>1, StoreUnchanged DEF StreamEnds, StartedType, store
<1>18. ASSUME PollCancel(w) PROVE StoreType' /\ WorkerType' /\ StartedType'
  <2>1. WorkerType'
    BY <1>0, <1>18, WorkFields, BecomeType, PcsAreWorkerPcs DEF PollCancel, Work
  <2> QED BY <1>18, <2>1, StoreUnchanged DEF PollCancel, StartedType, store
<1>19. ASSUME Retry(w) PROVE StoreType' /\ WorkerType' /\ StartedType'
  <2>1. WorkerType'
    <3>1. worker[w].attempt + 1 \in 0..Attempts
      BY <1>19, WorkFields DEF Retry, WorkerType, AttemptLeft
    <3>2. [worker[w] EXCEPT !.pc = "check", !.attempt = @ + 1] \in Work
      BY <3>1, WorkFields, PcsAreWorkerPcs DEF Work
    <3> QED BY <1>19, <3>2, WorkFields, BecomeType, PcsAreWorkerPcs, GotoType
            DEF Retry, WriteOwn, Work
  <2>2. RunsType'
    BY <1>0, <1>19, WorkFields, UpdateRunType DEF Retry, WriteOwn, RunsType, States, Terminal, Active
  <2> QED BY <1>19, <2>1, <2>2 DEF Retry, StoreType, StartedType, JobType, DueType, ReadyType, LockType
<1>20. ASSUME Decide(w) PROVE StoreType' /\ WorkerType' /\ StartedType'
  <2>1. WorkerType'
    BY <1>0, <1>20, WorkFields, BecomeType, PcsAreWorkerPcs DEF Decide, Work
  <2> QED BY <1>20, <2>1, StoreUnchanged DEF Decide, StartedType, store
<1>21. ASSUME Finish(w) PROVE StoreType' /\ WorkerType' /\ StartedType'
  <2>1. WorkerType'
    BY <1>0, <1>21, WorkFields, WriteOwnType, PcsAreWorkerPcs DEF Finish, States, Terminal, Active
  <2>2. RunsType'
    BY <1>0, <1>21, WorkFields, WriteOwnType, PcsAreWorkerPcs DEF Finish, States, Terminal, Active
  <2> QED BY <1>21, <2>1, <2>2 DEF Finish, StoreType, StartedType, JobType, DueType, ReadyType, LockType
<1>22. ASSUME Verify(w) PROVE StoreType' /\ WorkerType' /\ StartedType'
  <2>1. WorkerType'
    BY <1>0, <1>22, WorkFields, GotoType, PcsAreWorkerPcs DEF Verify
  <2> QED BY <1>22, <2>1, StoreUnchanged DEF Verify, StartedType, store
<1>23. ASSUME Ready(w) PROVE StoreType' /\ WorkerType' /\ StartedType'
  <2>1. WorkerType'
    BY <1>0, <1>23, WorkFields, GotoType, PcsAreWorkerPcs DEF Ready
  <2>2. ReadyType'
    BY <1>0, <1>23, WorkFields, DeleteReadyType DEF Ready
  <2> QED BY <1>23, <2>1, <2>2 DEF Ready, StoreType, StartedType, JobType, DueType, RunsType, LockType
<1>24. ASSUME Handle(w) PROVE StoreType' /\ WorkerType' /\ StartedType'
  <2>1. WorkerType'
    BY <1>0, <1>24, WorkFields, GotoType, PcsAreWorkerPcs DEF Handle
  <2>2. RunsType'
    BY <1>0, <1>24, WorkFields, CloseRunType DEF Handle, States, Terminal, Active
  <2> QED BY <1>24, <2>1, <2>2 DEF Handle, StoreType, StartedType, JobType, DueType, ReadyType, LockType
<1>25. ASSUME Release(w) PROVE StoreType' /\ WorkerType' /\ StartedType'
  <2>1. WorkerType'
    BY <1>0, <1>25, WorkFields, RestType DEF Release
  <2>2. LockType'
    BY <1>0, <1>25, WorkFields, ReleaseLockType DEF Release
  <2> QED BY <1>25, <2>1, <2>2 DEF Release, StoreType, StartedType, JobType, DueType, ReadyType, RunsType
<1> QED BY <1>1, <1>2, <1>3, <1>4, <1>5, <1>6, <1>7, <1>8, <1>9, <1>10, <1>11, <1>12, <1>13, <1>14, <1>15, <1>16, <1>17, <1>18, <1>19, <1>20, <1>21, <1>22, <1>23, <1>24, <1>25 DEF WorkerStep

(* A listing, a crash, a shutdown or a failed repository call.               *)
LEMMA StartWorkType ==
  ASSUME StoreType, WorkerType, now \in Minutes,
         NEW w \in Workers, NEW m \in Minutes, ListReady(w, m)
  PROVE  WorkerType'
<1>1. 0 \in Minutes /\ 0 \in 0..Attempts /\ ready[m] \in 0..MaxRevision
  BY DEF StoreType, ReadyType, Minutes
<1>2. [IdleWork EXCEPT !.pc = "job", !.m = m, !.rev = ready[m]] \in Work
  BY <1>1, PcsAreWorkerPcs DEF IdleWork, Work
<1>3. [IdleWork EXCEPT !.pc = "job", !.m = m, !.rev = ready[m]].pc # "retry"
  BY DEF IdleWork
<1> QED BY <1>2, <1>3, BecomeType DEF ListReady

LEMMA FailureType ==
  ASSUME WorkerType, NEW w \in Workers,
         WorkerCrashes(w) \/ WorkerShutDown(w) \/ StorageFails(w)
  PROVE  WorkerType'
<1>1. CASE WorkerCrashes(w)
  BY <1>1, RestType DEF WorkerCrashes
<1>2. CASE WorkerShutDown(w)
  BY <1>2, RestType, GotoType, PcsAreWorkerPcs DEF WorkerShutDown
<1>3. CASE StorageFails(w)
  <2>1. CASE worker[w].pc \in {"ack", "streaming"}
    <3>1. [worker[w] EXCEPT !.pc = "finish", !.out = "failed"] \in Work
      BY WorkFields, PcsAreWorkerPcs DEF Work
    <3>2. Become(w, [worker[w] EXCEPT !.pc = "finish", !.out = "failed"])
      BY <1>3, <2>1 DEF StorageFails, InTry, Calling, BeforeLock
    <3> QED BY <3>1, <3>2, WorkFields, BecomeType DEF Work
  <2>2. CASE worker[w].pc \notin {"ack", "streaming"}
    <3>1. \/ \E pc \in {"handler", "release"} : Goto(w, pc)
          \/ Rest(w)
      BY <1>3, <2>2, WorkFields
         DEF StorageFails, InTry, Calling, BeforeLock, Work, WorkerPcs, Holding
    <3> QED BY <3>1, RestType, GotoType, PcsAreWorkerPcs
  <2> QED BY <2>1, <2>2
<1> QED BY <1>1, <1>2, <1>3

-----------------------------------------------------------------------------
(* The scanner.                                                              *)

ScannerType == scanner \in [Scanners -> Scan] /\ scanned \subseteq Minutes

LEMMA ScanFields ==
  ASSUME ScannerType, NEW s \in Scanners
  PROVE  /\ scanner[s] \in Scan
         /\ scanner[s].m \in Minutes
         /\ scanner[s].rev \in 0..MaxRevision
BY DEF ScannerType, Scan

LEMMA ScanToType ==
  ASSUME ScannerType, NEW s \in Scanners, NEW pc \in ScannerPcs, ScanTo(s, pc)
  PROVE  ScannerType'
<1>1. [scanner[s] EXCEPT !.pc = pc] \in Scan
  BY ScanFields DEF Scan
<1> QED BY <1>1 DEF ScannerType, ScanTo

LEMMA ScanEndsType ==
  ASSUME ScannerType, NEW s \in Scanners, ScanEnds(s) PROVE ScannerType'
<1>1. 0 \in Minutes /\ 0 \in 0..MaxRevision
  BY DEF Minutes
<1>2. IdleScan \in Scan
  BY <1>1 DEF IdleScan, Scan, ScannerPcs
<1> QED BY <1>2, ScanFields DEF ScannerType, ScanEnds

LEMMA ScannerStepType ==
  ASSUME StoreType, ScannerType, now \in Minutes, NEW s \in Scanners,
         StartScan(s) \/ ScanStep(s) \/ ScanAborts(s)
  PROVE  StoreType' /\ ScannerType'
<1>0. DueType /\ ReadyType /\ RunsType
  BY DEF StoreType
<1>1. CASE StartScan(s)
  <2>1. due[now] \in 0..MaxRevision
    BY <1>0 DEF DueType
  <2>2. [pc |-> "job", m |-> now, rev |-> due[now]] \in Scan
    BY <2>1 DEF Scan, ScannerPcs
  <2> QED BY <1>1, <2>2, StoreUnchanged DEF StartScan, ListDue, ScannerType
<1>2. ASSUME ScanJob(s) PROVE StoreType' /\ ScannerType'
  BY <1>2, StoreUnchanged, ScanToType, ScanEndsType DEF ScanJob, ScannerPcs
<1>3. ASSUME ScanReady(s) PROVE StoreType' /\ ScannerType'
  <2>1. ScannerType'
    BY <1>3, ScanToType, ScanEndsType DEF ScanReady, ScannerPcs
  <2>2. ReadyType'
    BY <1>0, <1>3, ScanFields DEF ScanReady, ReadyType
  <2> QED BY <1>3, <2>1, <2>2
          DEF ScanReady, StoreType, JobType, DueType, RunsType, LockType
<1>4. ASSUME ScanRun(s) PROVE StoreType' /\ ScannerType'
  <2>1. ScannerType'
    BY <1>4, ScanToType DEF ScanRun, ScannerPcs
  <2>2. RunsType'
    BY <1>0, <1>4, CreateRunType DEF ScanRun, States
  <2> QED BY <1>4, <2>1, <2>2
          DEF ScanRun, StoreType, JobType, DueType, ReadyType, LockType
<1>5. ASSUME ScanDue(s) PROVE StoreType' /\ ScannerType'
  <2>1. ScannerType'
    BY <1>5, ScanEndsType DEF ScanDue
  <2>2. DueType'
    BY <1>0, <1>5, ScanFields, PutNextDueType DEF ScanDue
  <2> QED BY <1>5, <2>1, <2>2
          DEF ScanDue, StoreType, JobType, RunsType, ReadyType, LockType
<1>6. CASE ScanAborts(s)
  BY <1>6, StoreUnchanged, ScanEndsType DEF ScanAborts
<1> QED BY <1>1, <1>2, <1>3, <1>4, <1>5, <1>6 DEF ScanStep

-----------------------------------------------------------------------------
(* Studio requests.                                                          *)

ClientType == client \in [Clients -> Request]

LEMMA ClientFields ==
  ASSUME ClientType, NEW c \in Clients
  PROVE  /\ client[c] \in Request
         /\ client[c].at \in Minutes
         /\ client[c].rev \in 0..MaxRevision
         /\ client[c].keys \subseteq Minutes
BY DEF ClientType, Request

LEMMA IdleRequestType == IdleRequest \in Request
<1>1. 0 \in Minutes /\ 0 \in 0..MaxRevision
  BY DEF Minutes
<1> QED BY <1>1 DEF IdleRequest, Request, ClientPcs

LEMMA ServeType ==
  ASSUME ClientType, NEW c \in Clients, NEW r \in Request, Serve(c, r)
  PROVE  ClientType'
BY DEF ClientType, Serve

LEMMA ReplyType ==
  ASSUME ClientType, NEW c \in Clients, Reply(c) PROVE ClientType'
BY ServeType, IdleRequestType DEF Reply

LEMMA SaveJobType ==
  ASSUME StoreType, ClientType, now \in Minutes, NEW c \in Clients,
         NEW enabled \in BOOLEAN, SaveJob(c, enabled)
  PROVE  StoreType' /\ ClientType'
<1>1. PICK at \in job.at..now :
        /\ job.rev < MaxRevision
        /\ job' = [present |-> TRUE, enabled |-> enabled, rev |-> job.rev + 1,
                   at |-> at]
        /\ IF enabled
             THEN Serve(c, [IdleRequest EXCEPT !.pc = "publish", !.at = at,
                                               !.rev = job.rev + 1])
             ELSE Reply(c)
        /\ UNCHANGED <<due, ready, runs, lock>>
  BY DEF SaveJob
<1>2. job.rev + 1 \in 0..MaxRevision /\ at \in Minutes
  BY <1>1, BoundsAssumption DEF StoreType, JobType, Minutes
<1>3. StoreType'
  BY <1>1, <1>2 DEF StoreType, JobType, DueType, ReadyType, RunsType, LockType
<1>4. [IdleRequest EXCEPT !.pc = "publish", !.at = at, !.rev = job.rev + 1]
        \in Request
  BY <1>2, IdleRequestType DEF Request, ClientPcs
<1> QED BY <1>1, <1>3, <1>4, ServeType, ReplyType

LEMMA StartRequestType ==
  ASSUME StoreType, ClientType, now \in Minutes, NEW c \in Clients,
         StartRequest(c)
  PROVE  StoreType' /\ ClientType'
<1>1. ASSUME Create(c) \/ Edit(c) \/ Enable(c) \/ Disable(c)
      PROVE  StoreType' /\ ClientType'
  BY <1>1, SaveJobType DEF Create, Edit, Enable, Disable
<1>2. ASSUME RequestRun(c) PROVE StoreType' /\ ClientType'
  <2>1. [IdleRequest EXCEPT !.pc = "runDue", !.at = now, !.rev = job.rev]
          \in Request
    BY IdleRequestType DEF Request, ClientPcs, StoreType, JobType
  <2> QED BY <1>2, <2>1, ServeType, StoreUnchanged DEF RequestRun
<1>3. ASSUME Cancel(c) PROVE StoreType' /\ ClientType'
  <2>1. PICK m \in Minutes :
          Open(m) /\ runs' = [runs EXCEPT ![m].cancel = TRUE]
    BY <1>3 DEF Cancel
  <2>2. runs[m] \in Record
    BY <2>1 DEF Open, Exists, StoreType, RunsType
  <2>3. [runs[m] EXCEPT !.cancel = TRUE] \in Record
    BY <2>2 DEF Record
  <2> QED BY <1>3, <2>1, <2>3
          DEF Cancel, ClientType, StoreType, JobType, DueType, ReadyType,
              RunsType, LockType
<1>4. ASSUME Delete(c) PROVE StoreType' /\ ClientType'
  <2>1. [IdleRequest EXCEPT !.pc = "list"] \in Request
    BY IdleRequestType DEF Request, ClientPcs
  <2> QED BY <1>4, <2>1, ServeType, StoreUnchanged DEF Delete
<1> QED BY <1>1, <1>2, <1>3, <1>4 DEF StartRequest

LEMMA ClientStepType ==
  ASSUME StoreType, ClientType, NEW c \in Clients, ClientStep(c)
  PROVE  StoreType' /\ ClientType'
<1>0. JobType /\ DueType /\ RunsType /\ LockType
  BY DEF StoreType
<1>1. ASSUME Publish(c) PROVE StoreType' /\ ClientType'
  BY <1>0, <1>1, ReplyType, ClientFields, PutNextDueType
     DEF Publish, StoreType, JobType, ReadyType, RunsType, LockType
<1>2. ASSUME PublishRunNow(c) PROVE StoreType' /\ ClientType'
  <2>1. [client[c] EXCEPT !.pc = "runCreate"] \in Request
    BY ClientFields DEF Request, ClientPcs
  <2>2. DueType'
    BY <1>0, <1>2, ClientFields, PutDueType DEF PublishRunNow
  <2> QED BY <1>2, <2>1, <2>2, ServeType
          DEF PublishRunNow, StoreType, JobType, ReadyType, RunsType, LockType
<1>3. ASSUME CreateQueued(c) PROVE StoreType' /\ ClientType'
  <2>1. RunsType'
    BY <1>0, <1>3, CreateRunType DEF CreateQueued, States
  <2> QED BY <1>3, <2>1, ReplyType
          DEF CreateQueued, StoreType, JobType, DueType, ReadyType, LockType
<1>4. ASSUME ListKeys(c) PROVE StoreType' /\ ClientType'
  <2>1. [IdleRequest EXCEPT !.pc = "delJob", !.keys = {m \in Minutes : Exists(m)},
                            !.hasLock = lock.state # "none"] \in Request
    BY IdleRequestType DEF Request, ClientPcs
  <2> QED BY <1>4, <2>1, ServeType, ReplyType, StoreUnchanged DEF ListKeys
<1>5. ASSUME DeleteJob(c) PROVE StoreType' /\ ClientType'
  <2>1. [client[c] EXCEPT !.pc = "delLock"] \in Request
    BY ClientFields DEF Request, ClientPcs
  <2>2. JobType'
    BY <1>0, <1>5 DEF DeleteJob, JobType
  <2> QED BY <1>5, <2>1, <2>2, ServeType
          DEF DeleteJob, StoreType, DueType, ReadyType, RunsType, LockType
<1>6. ASSUME DeleteLock(c) PROVE StoreType' /\ ClientType'
  <2>1. [client[c] EXCEPT !.pc = "delRuns"] \in Request
    BY ClientFields DEF Request, ClientPcs
  <2>2. NoLock \in [state : {"none", "held", "released"}, run : Minutes,
                    expires : 0..(Horizon + Lease)]
    BY DEF NoLock, Minutes
  <2> QED BY <1>0, <1>6, <2>1, <2>2, ServeType
          DEF DeleteLock, StoreType, JobType, DueType, ReadyType, RunsType,
              LockType
<1>7. ASSUME DeleteRuns(c) PROVE StoreType' /\ ClientType'
  <2>1. RunsType'
    BY <1>0, <1>7, ClientFields DEF DeleteRuns, RunsType
  <2>2. \A m : [client[c] EXCEPT !.keys = @ \ {m}] \in Request
    BY ClientFields DEF Request
  <2> QED BY <1>7, <2>1, <2>2, ServeType, ReplyType
          DEF DeleteRuns, StoreType, JobType, DueType, ReadyType, LockType
<1> QED BY <1>1, <1>2, <1>3, <1>4, <1>5, <1>6, <1>7 DEF ClientStep

-----------------------------------------------------------------------------

CountersType == now \in Minutes /\ faults \in 0..MaxFaults
                  /\ requests \in 0..MaxRequests

LEMMA TypeInvParts ==
  TypeInv <=> /\ StoreType /\ WorkerType /\ StartedType /\ ScannerType
              /\ ClientType /\ CountersType
BY DEF TypeInv, TypeOK, StoreType, JobType, DueType, ReadyType, RunsType,
       LockType, WorkerType, StartedType, ScannerType, ClientType, CountersType

LEMMA TypeInit == Init => TypeInv
<1> SUFFICES ASSUME Init PROVE TypeInv
  OBVIOUS
<1>1. 0 \in Minutes /\ 0 \in 0..MaxRevision /\ 0 \in 0..Attempts
      /\ 0 \in 0..(Horizon + Lease) /\ 0 \in 0..MaxFaults
      /\ 0 \in 0..MaxRequests
  BY DEF Minutes
<1>2. IdleScan \in Scan
  BY <1>1 DEF IdleScan, Scan, ScannerPcs
<1>3. IdleWork \in Work /\ IdleWork.pc = "idle"
  BY <1>1, PcsAreWorkerPcs DEF IdleWork, Work
<1>4. StoreType /\ StartedType /\ CountersType
  BY <1>1 DEF Init, StoreType, JobType, DueType, ReadyType, RunsType, LockType,
              NoJob, NoLock, StartedType, CountersType
<1>5. WorkerType /\ ScannerType /\ ClientType
  BY <1>2, <1>3, IdleRequestType
     DEF Init, WorkerType, ScannerType, ClientType, AttemptLeft, At
<1> QED BY <1>4, <1>5, TypeInvParts

LEMMA TypeStep == TypeInv /\ [Next]_vars => TypeInv'
<1> SUFFICES ASSUME TypeInv, [Next]_vars PROVE TypeInv'
  OBVIOUS
<1>0. /\ StoreType /\ WorkerType /\ StartedType /\ ScannerType /\ ClientType
      /\ CountersType /\ now \in Minutes
  BY TypeInvParts DEF CountersType
<1> DEFINE P == StoreType /\ WorkerType /\ StartedType /\ ScannerType
                  /\ ClientType /\ CountersType
<1>1. ASSUME NEW s \in Scanners, StartScan(s) \/ ScanStep(s) \/ ScanAborts(s)
      PROVE  P'
  BY <1>0, <1>1, ScannerStepType
     DEF StartScan, ScanStep, ScanAborts, CountersType, ClientType, StartedType,
         WorkerType, AttemptLeft, At
<1>2. ASSUME NEW w \in Workers, NEW m \in Minutes, StartWork(w, m)
      PROVE  P'
  BY <1>0, <1>2, StartWorkType, StoreUnchanged
     DEF StartWork, ListReady, CountersType, ClientType, ScannerType, StartedType
<1>3. ASSUME NEW w \in Workers, WorkerStep(w)
      PROVE  P'
  BY <1>0, <1>3, WorkerStepType
     DEF WorkerStep, CountersType, ClientType, ScannerType
<1>4. ASSUME NEW w \in Workers,
             WorkerCrashes(w) \/ WorkerShutDown(w) \/ StorageFails(w)
      PROVE  P'
  <2>1. \E kind : Fails(w, kind)
    BY <1>4 DEF WorkerCrashes, WorkerShutDown, StorageFails
  <2> QED BY <1>0, <1>4, <2>1, FailureType, StoreUnchanged
          DEF Fails, CountersType, ClientType, ScannerType, StartedType
<1>5. ASSUME NEW c \in Clients, StartRequest(c)
      PROVE  P'
  <2>0. \E kind : Receive(c, kind)
    BY <1>5 DEF StartRequest, Create, Edit, Enable, Disable, RequestRun,
                Cancel, Delete
  <2>1. requests' \in 0..MaxRequests
    BY <1>0, <2>0 DEF Receive, CountersType
  <2> QED BY <1>0, <1>5, <2>1, StartRequestType
          DEF StartRequest, CountersType, ScannerType, StartedType, WorkerType,
              AttemptLeft, At
<1>6. ASSUME NEW c \in Clients, ClientStep(c)
      PROVE  P'
  <2>1. UNCHANGED requests
    BY <1>6 DEF ClientStep, Publish, PublishRunNow, CreateQueued, ListKeys,
                DeleteJob, DeleteLock, DeleteRuns
  <2> QED BY <1>0, <1>6, <2>1, ClientStepType
          DEF ClientStep, CountersType, ScannerType, StartedType, WorkerType,
              AttemptLeft, At
<1>7. ASSUME NEW c \in Clients, ClientAborts(c)
      PROVE  P'
  BY <1>0, <1>7, ReplyType, StoreUnchanged
     DEF ClientAborts, CountersType, ScannerType, StartedType, WorkerType,
         AttemptLeft, At
<1>8. ASSUME Tick PROVE P'
  BY <1>0, <1>8, StoreUnchanged
     DEF Tick, CountersType, ScannerType, ClientType, StartedType, WorkerType,
         AttemptLeft, At, Minutes
<1>9. ASSUME UNCHANGED vars PROVE P'
  BY <1>0, <1>9, StoreUnchanged
     DEF vars, CountersType, ScannerType, ClientType, StartedType, WorkerType,
         AttemptLeft, At
<1>10. P'
  BY <1>1, <1>2, <1>3, <1>4, <1>5, <1>6, <1>7, <1>8, <1>9 DEF Next, Quiet
<1>11. P' => TypeInv'
  BY DEF TypeInv, TypeOK, StoreType, JobType, DueType, ReadyType, RunsType,
         LockType, WorkerType, StartedType, ScannerType, ClientType,
         CountersType
<1> QED BY <1>10, <1>11

(* Every variable keeps its type: no counter leaves its range, no run object *)
(* or pointer is ever malformed, whatever fails.                             *)
THEOREM DispatcherTypeOK == Spec => []TypeOK
<1>1. TypeInv => TypeOK
  BY DEF TypeInv
<1> QED BY <1>1, TypeInit, TypeStep, PTL DEF Spec

-----------------------------------------------------------------------------
(* Exclusion.  Two things end it, and the theorems exclude them: an holder   *)
(* that outlives its lease ("overrun"), and a request that deletes the job   *)
(* with its lock ("delete").                                                 *)

NotDeleting ==
  \A c \in Clients : client[c].pc \notin {"list", "delJob", "delLock", "delRuns"}

(* A step of w that keeps its pointer and its clock reading.                 *)
Moves(w) ==
  /\ worker' \in [Workers -> Work]
  /\ worker'[w].m = worker[w].m
  /\ worker'[w].at = worker[w].at
  /\ \A v \in Workers \ {w} : worker'[v] = worker[v]

LEMMA BecomeMoves ==
  ASSUME WorkerType, WorkerType', NEW w \in Workers, NEW r, Become(w, r),
         r.m = worker[w].m, r.at = worker[w].at
  PROVE  Moves(w)
BY DEF Become, Moves, WorkerType

LEMMA GotoMoves ==
  ASSUME WorkerType, WorkerType', NEW w \in Workers, NEW pc, Goto(w, pc)
  PROVE  Moves(w) /\ worker'[w].pc = pc
<1> DEFINE r == [worker[w] EXCEPT !.pc = pc]
<1>1. r.pc = pc /\ r.m = worker[w].m /\ r.at = worker[w].at
  BY DEF WorkerType, Work
<1>2. Become(w, r)
  BY DEF Goto, Become
<1> HIDE DEF r
<1> QED BY <1>1, <1>2, BecomeMoves DEF Become, WorkerType

LEMMA RestMoves ==
  ASSUME WorkerType, NEW w \in Workers, Rest(w)
  PROVE  /\ worker' \in [Workers -> Work]
         /\ worker'[w].pc = "idle"
         /\ \A v \in Workers \ {w} : worker'[v] = worker[v]
<1>1. 0 \in 0..MaxRevision /\ 0 \in Minutes /\ 0 \in 0..Attempts
  BY DEF Minutes
<1>2. IdleWork \in Work /\ IdleWork.pc = "idle"
  BY <1>1, PcsAreWorkerPcs DEF IdleWork, Work
<1> HIDE DEF IdleWork
<1> QED BY <1>2 DEF Rest, Become, WorkerType

LEMMA HeldPcs ==
  {"idle", "job", "stale", "staleReady", "lock", "skip", "skipDue",
   "skipReady"} \cap Holding = {}
BY DEF Holding, InTry, Calling

LEMMA PcFacts ==
  {"abandon", "create", "claim", "close", "nextDue", "check", "attempt",
   "retry", "decide", "finish", "verify", "ready", "calling", "ack",
   "streaming", "handler", "handlerReady", "release"} = Holding
BY DEF Holding, InTry, Calling

(* The holder goes on, or stops: lock and clock are as they were.            *)
LEMMA HolderMoves ==
  ASSUME LeaseCoversHolder, WorkerType, NEW w \in Workers,
         worker[w].pc \in Holding, Moves(w), UNCHANGED <<now, lock>>
  PROVE  LeaseCoversHolder'
BY DEF LeaseCoversHolder, Moves, Leased, At, Run

(* A step that leaves w outside the lock.                                    *)
LEMMA OutsiderMoves ==
  ASSUME LeaseCoversHolder, WorkerType, NEW w \in Workers,
         \A v \in Workers \ {w} : worker'[v] = worker[v],
         worker'[w].pc \notin Holding \cup {"lock"}, UNCHANGED <<now, lock>>
  PROVE  LeaseCoversHolder'
BY DEF LeaseCoversHolder, Leased, At, Run

(* Every step between the acquisition and the release.                       *)
HolderStep(w) ==
  \/ MarkAbandoned(w) \/ CreateOwn(w) \/ CloseOwn(w) \/ Claim(w)
  \/ CheckCancel(w) \/ Attempt(w) \/ RuntimeAccepts(w) \/ RuntimeRefuses(w)
  \/ RuntimeSilent(w) \/ MarkAcknowledged(w) \/ StreamEnds(w)
  \/ PollCancel(w) \/ Retry(w) \/ Decide(w) \/ Finish(w) \/ Verify(w)
  \/ Handle(w)
  \/ (Ready(w) \/ WriteNextDue(w)) /\ worker[w].pc \in Holding

LEMMA HolderStepMoves ==
  ASSUME WorkerType, WorkerType', NEW w \in Workers, HolderStep(w)
  PROVE  worker[w].pc \in Holding /\ Moves(w) /\ UNCHANGED lock
<1>0. worker[w] \in Work
  BY DEF WorkerType
<1>1. CASE MarkAbandoned(w)
  BY <1>0, <1>1, BecomeMoves, GotoMoves, PcFacts
     DEF MarkAbandoned, At, store, Work
<1>2. CASE CreateOwn(w)
  BY <1>0, <1>2, BecomeMoves, GotoMoves, PcFacts
     DEF CreateOwn, At, store, Work
<1>3. CASE CloseOwn(w)
  BY <1>0, <1>3, BecomeMoves, GotoMoves, PcFacts
     DEF CloseOwn, At, store, Work
<1>4. CASE RuntimeAccepts(w)
  BY <1>0, <1>4, BecomeMoves, GotoMoves, PcFacts
     DEF RuntimeAccepts, At, store, Work
<1>5. CASE MarkAcknowledged(w)
  BY <1>0, <1>5, BecomeMoves, GotoMoves, PcFacts
     DEF MarkAcknowledged, At, store, Work
<1>6. CASE Verify(w)
  BY <1>0, <1>6, BecomeMoves, GotoMoves, PcFacts
     DEF Verify, At, store, Work
<1>7. CASE Handle(w)
  BY <1>0, <1>7, BecomeMoves, GotoMoves, PcFacts
     DEF Handle, At, store, Work
<1>8. CASE Ready(w) /\ worker[w].pc \in Holding
  BY <1>0, <1>8, BecomeMoves, GotoMoves, PcFacts
     DEF Ready, At, store, Work
<1>9. CASE Claim(w)
  BY <1>0, <1>9, BecomeMoves, GotoMoves, PcFacts
     DEF Claim, At, store, Work, WriteOwn
<1>10. CASE Attempt(w)
  BY <1>0, <1>10, BecomeMoves, GotoMoves, PcFacts
     DEF Attempt, At, store, Work, WriteOwn
<1>11. CASE Finish(w)
  BY <1>0, <1>11, BecomeMoves, GotoMoves, PcFacts
     DEF Finish, At, store, Work, WriteOwn
<1>12. CASE CheckCancel(w)
  BY <1>0, <1>12, BecomeMoves, GotoMoves, PcFacts
     DEF CheckCancel, At, store, Work, Goto
<1>13. CASE RuntimeRefuses(w)
  BY <1>0, <1>13, BecomeMoves, GotoMoves, PcFacts
     DEF RuntimeRefuses, At, store, Work, Goto
<1>14. CASE RuntimeSilent(w)
  BY <1>0, <1>14, BecomeMoves, GotoMoves, PcFacts
     DEF RuntimeSilent, At, store, Work
<1>15. CASE StreamEnds(w)
  BY <1>0, <1>15, BecomeMoves, GotoMoves, PcFacts
     DEF StreamEnds, At, store, Work
<1>16. CASE PollCancel(w)
  BY <1>0, <1>16, BecomeMoves, GotoMoves, PcFacts
     DEF PollCancel, At, store, Work
<1>17. CASE Decide(w)
  BY <1>0, <1>17, BecomeMoves, GotoMoves, PcFacts
     DEF Decide, At, store, Work
<1>18. CASE Retry(w)
  BY <1>0, <1>18, BecomeMoves, GotoMoves, PcFacts
     DEF Retry, At, store, Work, WriteOwn, Goto
<1>19. CASE WriteNextDue(w) /\ worker[w].pc \in Holding
  BY <1>0, <1>19, BecomeMoves, GotoMoves, PcFacts
     DEF WriteNextDue, At, store, Work, Goto
<1> QED BY <1>1, <1>2, <1>3, <1>4, <1>5, <1>6, <1>7, <1>8, <1>9, <1>10, <1>11, <1>12, <1>13, <1>14, <1>15, <1>16, <1>17, <1>18, <1>19 DEF HolderStep

(* The steps of a worker.  Only acquire_lock brings one under the lock, and  *)
(* what it observed excludes every other holder.                             *)
LEMMA WorkerKeepsLease ==
  ASSUME StoreType, WorkerType, WorkerType', now \in Minutes,
         LeaseCoversHolder, NEW w \in Workers, WorkerStep(w)
  PROVE  LeaseCoversHolder'
<1>0. worker[w] \in Work /\ UNCHANGED now
  BY DEF WorkerType, WorkerStep
<1>1. CASE HolderStep(w)
  BY <1>0, <1>1, HolderStepMoves, HolderMoves
<1>2. ASSUME GetJob(w) PROVE LeaseCoversHolder'
  <2>1. /\ worker'[w].at = now /\ worker'[w].pc \in {"lock", "stale"}
        /\ \A v \in Workers \ {w} : worker'[v] = worker[v]
        /\ UNCHANGED lock
    BY <1>0, <1>2 DEF GetJob, Become, WorkerType, Work, store
  <2>2. now <= now /\ now < now + Lease
    BY DEF Minutes
  <2> QED BY <1>0, <2>1, <2>2, HeldPcs
          DEF LeaseCoversHolder, Leased, At, Run
<1>3. ASSUME \/ Stale(w) \/ DropReady(w) \/ RecordSkipped(w)
             \/ WriteNextDue(w) /\ worker[w].pc \notin Holding
      PROVE  LeaseCoversHolder'
  <2>1. /\ worker'[w].pc \in {"staleReady", "skipDue", "skipReady", "idle"}
        /\ \A v \in Workers \ {w} : worker'[v] = worker[v]
        /\ UNCHANGED lock
    BY <1>0, <1>3, GotoMoves, RestMoves, PcFacts
       DEF Stale, DropReady, RecordSkipped, WriteNextDue, At, Moves
  <2> QED BY <1>0, <2>1, HeldPcs, OutsiderMoves
<1>4. ASSUME AcquireLock(w) PROVE LeaseCoversHolder'
  <2>1. CASE Refuses(worker[w].at)
    <3>1. /\ worker'[w].pc \in {"skip", "idle"}
          /\ \A v \in Workers \ {w} : worker'[v] = worker[v]
          /\ UNCHANGED lock
      BY <1>4, <2>1, GotoMoves, RestMoves DEF AcquireLock, Moves
    <3> QED BY <1>0, <3>1, HeldPcs, OutsiderMoves
  <2>2. CASE ~Refuses(worker[w].at)
    <3>1. Moves(w) /\ worker'[w].pc \in Holding
      <4> DEFINE r == [worker[w] EXCEPT !.pc = "abandon", !.old = lock.run]
      <4>1. CASE Goto(w, "create")
        BY <4>1, GotoMoves, PcFacts
      <4>2. CASE Become(w, r)
        <5>1. r.m = worker[w].m /\ r.at = worker[w].at /\ r.pc = "abandon"
          BY <1>0 DEF Work
        <5> HIDE DEF r
        <5> QED BY <4>2, <5>1, BecomeMoves, PcFacts DEF Become, WorkerType
      <4> QED BY <1>4, <2>2, <4>1, <4>2 DEF AcquireLock
    <3>2. lock' = [state |-> "held", run |-> Run(w),
                   expires |-> worker[w].at + Lease]
      BY <1>4, <2>2 DEF AcquireLock, Run
    <3>3. worker[w].at <= now /\ now < worker[w].at + Lease
      BY <1>4 DEF AcquireLock, LeaseCoversHolder, Leased
    <3>4. \A v \in Workers : worker[v].pc \notin Holding
      <4> SUFFICES ASSUME NEW v \in Workers, worker[v].pc \in Holding
                   PROVE  FALSE
        OBVIOUS
      <4>1. lock.state = "held" /\ lock.expires = worker[v].at + Lease
        BY DEF LeaseCoversHolder
      <4>2. now < worker[v].at + Lease
        BY DEF LeaseCoversHolder, Leased
      <4>3. worker[v].at \in Minutes /\ worker[w].at \in Minutes
        BY WorkFields
      <4> QED BY <2>2, <3>3, <4>1, <4>2, <4>3 DEF Refuses, Minutes
    <3> QED BY <1>0, <3>1, <3>2, <3>3, <3>4
            DEF LeaseCoversHolder, Moves, Leased, At, Run
  <2> QED BY <2>1, <2>2
<1>5. ASSUME Release(w) PROVE LeaseCoversHolder'
  <2>1. worker[w].pc \in Holding
    BY <1>5, PcFacts DEF Release, At
  <2>2. /\ worker'[w].pc = "idle"
        /\ \A v \in Workers \ {w} : worker'[v] = worker[v]
    BY <1>5, RestMoves DEF Release
  <2> QED BY <1>0, <2>1, <2>2, HeldPcs DEF LeaseCoversHolder, Leased, At, Run
<1>6. Ready(w) => worker[w].pc \in Holding
  BY PcFacts DEF Ready, At
<1> QED BY <1>1, <1>2, <1>3, <1>4, <1>5, <1>6 DEF WorkerStep, HolderStep

ExclusionInv == TypeInv /\ NotDeleting /\ LeaseCoversHolder

LEMMA ExclusionInit == Init => ExclusionInv
BY TypeInit DEF Init, ExclusionInv, NotDeleting, LeaseCoversHolder, IdleRequest,
                IdleWork, Leased, At, Holding, InTry, Calling

LEMMA ExclusionStep ==
  ASSUME "overrun" \notin Faults, "delete" \notin Requests
  PROVE  ExclusionInv /\ [Next]_vars => ExclusionInv'
<1> SUFFICES ASSUME ExclusionInv, [Next]_vars PROVE ExclusionInv'
  OBVIOUS
<1>0. /\ TypeInv /\ NotDeleting /\ LeaseCoversHolder /\ TypeInv'
      /\ StoreType /\ WorkerType /\ WorkerType' /\ ClientType
      /\ now \in Minutes
  BY TypeStep, TypeInvParts DEF ExclusionInv, CountersType, TypeInv, TypeOK,
     WorkerType
<1> DEFINE Q == NotDeleting /\ LeaseCoversHolder
<1> SUFFICES Q'
  BY <1>0 DEF ExclusionInv
<1>1. ASSUME NEW s \in Scanners, StartScan(s) \/ ScanStep(s) \/ ScanAborts(s)
      PROVE  Q'
  <2>1. UNCHANGED <<now, lock, worker, client>>
    BY <1>1 DEF StartScan, ListDue, ScanStep, ScanJob, ScanReady, ScanRun,
                ScanDue, ScanAborts, store
  <2> QED BY <1>0, <2>1 DEF NotDeleting, LeaseCoversHolder, Leased, At, Run
<1>2. ASSUME NEW w \in Workers, NEW m \in Minutes, StartWork(w, m)
      PROVE  Q'
  <2>1. /\ worker'[w].pc = "job"
        /\ \A v \in Workers \ {w} : worker'[v] = worker[v]
        /\ UNCHANGED <<now, lock, client>>
    BY <1>0, <1>2 DEF StartWork, ListReady, Become, IdleWork, WorkerType, store
  <2> QED BY <1>0, <2>1, OutsiderMoves, HeldPcs DEF NotDeleting
<1>3. ASSUME NEW w \in Workers, WorkerStep(w) PROVE Q'
  BY <1>0, <1>3, WorkerKeepsLease DEF WorkerStep, NotDeleting
<1>4. ASSUME NEW w \in Workers,
             WorkerCrashes(w) \/ WorkerShutDown(w) \/ StorageFails(w)
      PROVE  Q'
  <2>1. UNCHANGED <<now, lock, client>>
    BY <1>4 DEF WorkerCrashes, WorkerShutDown, StorageFails, Fails, store
  <2>2. CASE Rest(w)
    <3>1. LeaseCoversHolder'
      BY <1>0, <2>1, <2>2, RestMoves, OutsiderMoves, HeldPcs
    <3> QED BY <1>0, <2>1, <3>1 DEF NotDeleting
  <2>3. CASE Moves(w) /\ worker[w].pc \in Holding
    <3>1. LeaseCoversHolder'
      BY <1>0, <2>1, <2>3, HolderMoves
    <3> QED BY <1>0, <2>1, <3>1 DEF NotDeleting
  <2>4. Rest(w) \/ (Moves(w) /\ worker[w].pc \in Holding)
    <3>0. worker[w] \in Work
      BY <1>0 DEF WorkerType
    <3>1. CASE WorkerCrashes(w)
      BY <3>1 DEF WorkerCrashes
    <3>2. CASE WorkerShutDown(w)
      BY <1>0, <3>2, GotoMoves DEF WorkerShutDown
    <3>3. CASE StorageFails(w)
      <4>1. CASE worker[w].pc \in {"ack", "streaming"}
        BY <1>0, <3>0, <3>3, <4>1, BecomeMoves, PcFacts
           DEF StorageFails, Work, InTry, Calling, BeforeLock
      <4>2. CASE worker[w].pc \notin {"ack", "streaming"}
        BY <1>0, <3>0, <3>3, <4>2, GotoMoves
           DEF StorageFails, Work, WorkerPcs, Holding, InTry, Calling,
               BeforeLock
      <4> QED BY <4>1, <4>2
    <3> QED BY <1>4, <3>1, <3>2, <3>3
  <2> QED BY <2>2, <2>3, <2>4
<1>5. ASSUME NEW c \in Clients, StartRequest(c) PROVE Q'
  <2>1. UNCHANGED <<now, worker, lock>>
    BY <1>5 DEF StartRequest, Create, Edit, Enable, Disable, SaveJob, RequestRun,
                Cancel, Delete, store
  <2>2. ~Delete(c)
    BY DEF Delete, Receive
  <2>3. \/ UNCHANGED client
        \/ \E r : Serve(c, r) /\ r.pc \in {"idle", "publish", "runDue"}
    <3>1. \A enabled : SaveJob(c, enabled) =>
            \E r : Serve(c, r) /\ r.pc \in {"idle", "publish"}
      <4>1. \A at : [IdleRequest EXCEPT !.pc = "publish", !.at = at,
                                        !.rev = job.rev + 1].pc = "publish"
        BY DEF IdleRequest
      <4>2. IdleRequest.pc = "idle"
        BY DEF IdleRequest
      <4> QED BY <4>1, <4>2 DEF SaveJob, Reply
    <3>2. RequestRun(c) => \E r : Serve(c, r) /\ r.pc = "runDue"
      <4>1. [IdleRequest EXCEPT !.pc = "runDue", !.at = now,
                                !.rev = job.rev].pc = "runDue"
        BY DEF IdleRequest
      <4> QED BY <4>1 DEF RequestRun
    <3>3. Cancel(c) => UNCHANGED client
      BY DEF Cancel
    <3> QED BY <1>5, <2>2, <3>1, <3>2, <3>3
            DEF StartRequest, Create, Edit, Enable, Disable
  <2>4. NotDeleting'
    BY <1>0, <2>3 DEF Serve, NotDeleting, ClientType
  <2> QED BY <1>0, <2>1, <2>4 DEF LeaseCoversHolder, Leased, At, Run
<1>6. ASSUME NEW c \in Clients, ClientStep(c) PROVE Q'
  <2>1. Publish(c) \/ PublishRunNow(c) \/ CreateQueued(c)
    BY <1>0, <1>6 DEF ClientStep, ListKeys, DeleteJob, DeleteLock, DeleteRuns,
                      Pending, NotDeleting
  <2>2. UNCHANGED <<now, worker, lock>>
    BY <1>6, <2>1 DEF ClientStep, Publish, PublishRunNow, CreateQueued
  <2>3. NotDeleting'
    BY <1>0, <2>1 DEF Publish, PublishRunNow, CreateQueued, Serve, Reply,
                      IdleRequest, NotDeleting, ClientType, Request
  <2> QED BY <1>0, <2>2, <2>3 DEF LeaseCoversHolder, Leased, At, Run
<1>7. ASSUME NEW c \in Clients, ClientAborts(c) PROVE Q'
  BY <1>0, <1>7
     DEF ClientAborts, Reply, Serve, IdleRequest, NotDeleting, ClientType, store,
         LeaseCoversHolder, Leased, At, Run
<1>8. ASSUME Tick PROVE Q'
  <2>1. \A w \in Workers : Leased(w) => now + 1 < worker[w].at + Lease
    BY <1>8 DEF Tick, MayTick
  <2>2. now' = now + 1 /\ UNCHANGED <<worker, lock, client>>
    BY <1>8 DEF Tick, store
  <2>3. \A w \in Workers : Leased(w) =>
          worker[w].at <= now' /\ now' < worker[w].at + Lease
    BY <1>0, <2>1, <2>2, WorkFields DEF LeaseCoversHolder, Minutes
  <2> QED BY <1>0, <2>2, <2>3 DEF NotDeleting, LeaseCoversHolder, Leased, At, Run
<1>9. ASSUME UNCHANGED vars PROVE Q'
  BY <1>0, <1>9 DEF vars, store, NotDeleting, LeaseCoversHolder, Leased, At, Run
<1> QED BY <1>1, <1>2, <1>3, <1>4, <1>5, <1>6, <1>7, <1>8, <1>9 DEF Next, Quiet

(* A lease covers its holder: while an activation works under the lock, the  *)
(* lock is unexpired, names its run, and nobody else is under it.            *)
THEOREM LeasesCover ==
  ASSUME "overrun" \notin Faults, "delete" \notin Requests
  PROVE  Spec => []LeaseCoversHolder
<1>1. ExclusionInv => LeaseCoversHolder
  BY DEF ExclusionInv
<1> QED BY <1>1, ExclusionInit, ExclusionStep, PTL DEF Spec

(* Two activations never use the Runtime for the same job at once, whatever  *)
(* crashes, fails, is delivered twice or is edited meanwhile.                *)
THEOREM Exclusion ==
  ASSUME "overrun" \notin Faults, "delete" \notin Requests
  PROVE  Spec => []MutualExclusion
<1>1. ExclusionInv => MutualExclusion
  BY DEF ExclusionInv, LeaseCoversHolder, MutualExclusion, Holding, InTry
<1> QED BY <1>1, ExclusionInit, ExclusionStep, PTL DEF Spec

-----------------------------------------------------------------------------
(* What every step does to a run object is a step of its life cycle, or      *)
(* leaves it alone: only the types of the variables are needed.              *)

RunMoves(m) == Life(m)!Next \/ UNCHANGED runs[m]

(* All but a deletion.                                                       *)
RunStays(m) == RunMoves(m) /\ (Exists(m) => Exists(m)')

LEMMA LifeNext ==
  ASSUME NEW m
  PROVE  Life(m)!Next <=>
           \/ /\ runs[m] = NoRun
              /\ \E s \in {"queued", "preparing", "skipped"} : runs[m]' = Fresh(s)
           \/ /\ runs[m] # NoRun /\ ~Done(runs[m])
              /\ runs[m]' \in [state  : States \ {"queued"},
                               cancel : {c \in BOOLEAN : runs[m].cancel => c},
                               ack    : {a \in BOOLEAN : runs[m].ack => a}]
           \/ runs[m] # NoRun /\ runs[m]' = [runs[m] EXCEPT !.cancel = TRUE]
           \/ runs[m] # NoRun /\ runs[m]' = NoRun
BY DEF Life!Next, Life!Create, Life!Advance, Life!RequestCancel, Life!Delete,
       Life!Fresh, Life!Done, Life!States, Life!Active, Life!Terminal,
       Fresh, Done, States, Active, Terminal

LEMMA CreateRunMoves ==
  ASSUME RunsType, NEW n, NEW s \in {"queued", "preparing", "skipped"},
         CreateRun(n, s)
  PROVE  \A m \in Minutes : RunStays(m)
<1> SUFFICES ASSUME NEW m \in Minutes PROVE RunStays(m)
  OBVIOUS
<1>1. \/ runs'[m] = runs[m]
      \/ runs[m] = NoRun /\ runs'[m] = Fresh(s)
  BY DEF CreateRun, Exists, RunsType
<1> QED BY <1>1, LifeNext DEF RunMoves, RunStays, Exists

LEMMA UpdateRunMoves ==
  ASSUME RunsType, NEW n \in Minutes, Exists(n), NEW s \in States \ {"queued"},
         NEW ack \in BOOLEAN, UpdateRun(n, s, ack)
  PROVE  \A m \in Minutes : RunStays(m)
<1> SUFFICES ASSUME NEW m \in Minutes PROVE RunStays(m)
  OBVIOUS
<1>1. runs[n] \in Record
  BY DEF RunsType, Exists
<1>2. Updated(runs[n], s, ack) = runs[n]
      \/ /\ ~Done(runs[n])
         /\ Updated(runs[n], s, ack) \in
              [state  : States \ {"queued"},
               cancel : {c \in BOOLEAN : runs[n].cancel => c},
               ack    : {a \in BOOLEAN : runs[n].ack => a}]
  <2>1. ASSUME NEW a \in BOOLEAN, runs[n].ack => a
        PROVE  [runs[n] EXCEPT !.state = s, !.ack = a] \in
                 [state  : States \ {"queued"},
                  cancel : {c \in BOOLEAN : runs[n].cancel => c},
                  ack    : {b \in BOOLEAN : runs[n].ack => b}]
    BY <1>1, <2>1 DEF Record
  <2>2. PICK a \in BOOLEAN : a = (runs[n].ack \/ ack)
    OBVIOUS
  <2>3. runs[n].ack => a
    BY <2>2
  <2> QED BY <2>1, <2>2, <2>3 DEF Updated
<1>3. \/ runs'[m] = runs[m]
      \/ m = n /\ runs'[m] = Updated(runs[n], s, ack)
  BY DEF UpdateRun, RunsType
<1>4. Updated(runs[n], s, ack) # NoRun
  <2>1. \A r \in [state  : States \ {"queued"},
                 cancel : {c \in BOOLEAN : runs[n].cancel => c},
                 ack    : {a \in BOOLEAN : runs[n].ack => a}] : r \in Record
    BY DEF Record
  <2> QED BY <1>1, <1>2, <2>1, NoRunAssumption
<1>5. RunMoves(m)
  BY <1>2, <1>3, LifeNext DEF RunMoves, Exists
<1> QED BY <1>3, <1>4, <1>5 DEF RunStays, Exists

LEMMA CloseRunMoves ==
  ASSUME RunsType, NEW n \in Minutes, NEW s \in States \ {"queued"},
         CloseRun(n, s)
  PROVE  \A m \in Minutes : RunStays(m)
BY UpdateRunMoves DEF CloseRun, RunMoves, RunStays, Exists

LEMMA SameRunsMove ==
  ASSUME UNCHANGED runs PROVE \A m \in Minutes : RunStays(m)
BY DEF RunMoves, RunStays, Exists

LEMMA WorkerStepRuns ==
  ASSUME RunsType, WorkerType, NEW w \in Workers, WorkerStep(w)
  PROVE  \A m \in Minutes : RunStays(m)
<1>0. /\ Run(w) \in Minutes /\ worker[w].old \in Minutes
      /\ worker[w].out \in States \ {"queued"} /\ worker[w].acked \in BOOLEAN
      /\ {"skipped", "failed", "preparing", "running", "retrying"}
           \subseteq States \ {"queued"}
  BY WorkFields DEF States, Terminal, Active
<1>1. CASE UNCHANGED runs
  BY <1>1, SameRunsMove
<1>2. CASE Stale(w) \/ MarkAbandoned(w) \/ CloseOwn(w) \/ Handle(w)
  BY <1>0, <1>2, CloseRunMoves DEF Stale, MarkAbandoned, CloseOwn, Handle
<1>3. CASE RecordSkipped(w) \/ CreateOwn(w)
  BY <1>0, <1>3, CreateRunMoves, UpdateRunMoves DEF RecordSkipped, CreateOwn
<1>4. ASSUME Exists(Run(w)), NEW s \in States \ {"queued"}, NEW ack \in BOOLEAN,
             UpdateRun(Run(w), s, ack)
      PROVE  \A m \in Minutes : RunStays(m)
  BY <1>0, <1>4, UpdateRunMoves
<1>5. CASE MarkAcknowledged(w) \/ Claim(w) \/ Attempt(w) \/ Retry(w)
  BY <1>0, <1>1, <1>4, <1>5 DEF MarkAcknowledged, Claim, Attempt, Retry, WriteOwn
<1>6. CASE Finish(w)
  <2>1. PICK ack \in BOOLEAN : ack = (worker[w].acked \/ worker[w].out = "succeeded")
    OBVIOUS
  <2> QED BY <1>0, <1>1, <1>4, <1>6, <2>1 DEF Finish, WriteOwn
<1> QED BY <1>1, <1>2, <1>3, <1>5, <1>6
        DEF WorkerStep, GetJob, DropReady, AcquireLock, WriteNextDue, CheckCancel,
            RuntimeAccepts, RuntimeRefuses, RuntimeSilent, StreamEnds, PollCancel,
            Decide, Verify, Ready, Release, store

LEMMA LifecycleStep ==
  TypeInv /\ [Next]_vars => [\A m \in Minutes : RunMoves(m)]_runs
<1> SUFFICES ASSUME TypeInv, [Next]_vars PROVE \A m \in Minutes : RunMoves(m)
  OBVIOUS
<1>0. RunsType /\ WorkerType /\ ClientType
  BY TypeInvParts DEF StoreType
<1>1. ASSUME NEW s \in Scanners, StartScan(s) \/ ScanStep(s) \/ ScanAborts(s)
      PROVE  \A m \in Minutes : RunMoves(m)
  <2>1. UNCHANGED runs \/ CreateRun(scanner[s].m, "queued")
    BY <1>1 DEF StartScan, ListDue, ScanStep, ScanJob, ScanReady, ScanRun,
                ScanDue, ScanAborts, store
  <2> QED BY <1>0, <2>1, SameRunsMove, CreateRunMoves DEF RunStays
<1>2. ASSUME NEW w \in Workers, WorkerStep(w) PROVE \A m \in Minutes : RunMoves(m)
  BY <1>0, <1>2, WorkerStepRuns DEF RunStays
<1>3. ASSUME NEW c \in Clients, StartRequest(c) PROVE \A m \in Minutes : RunMoves(m)
  <2>1. CASE Cancel(c)
    <3>1. PICK n \in Minutes :
            Open(n) /\ runs' = [runs EXCEPT ![n].cancel = TRUE]
      BY <2>1 DEF Cancel
    <3>2. ASSUME NEW m \in Minutes PROVE RunMoves(m)
      <4>1. \/ runs'[m] = runs[m]
            \/ Exists(m) /\ runs'[m] = [runs[m] EXCEPT !.cancel = TRUE]
        BY <1>0, <3>1 DEF RunsType, Open
      <4> QED BY <4>1, LifeNext DEF RunMoves, Exists
    <3> QED BY <3>2
  <2>2. CASE ~Cancel(c)
    BY <1>3, <2>2, SameRunsMove
       DEF StartRequest, Create, Edit, Enable, Disable, SaveJob, RequestRun, Delete,
           RunStays, store
  <2> QED BY <2>1, <2>2
<1>4. ASSUME NEW c \in Clients, ClientStep(c) PROVE \A m \in Minutes : RunMoves(m)
  <2>1. CASE UNCHANGED runs
    BY <2>1, SameRunsMove DEF RunStays
  <2>2. CASE CreateQueued(c)
    BY <1>0, <2>2, CreateRunMoves DEF CreateQueued, RunStays
  <2>3. CASE \E n \in client[c].keys : runs' = [runs EXCEPT ![n] = NoRun]
    <3>1. ASSUME NEW m \in Minutes PROVE RunMoves(m)
      <4>1. runs'[m] = runs[m] \/ (runs[m] # NoRun /\ runs'[m] = NoRun)
        BY <1>0, <2>3 DEF RunsType
      <4> QED BY <4>1, LifeNext DEF RunMoves
    <3> QED BY <3>1
  <2> QED BY <1>4, <2>1, <2>2, <2>3
          DEF ClientStep, Publish, PublishRunNow, ListKeys, DeleteJob, DeleteLock,
              DeleteRuns, store
<1>5. ASSUME \/ \E c \in Clients : ClientAborts(c)
             \/ \E w \in Workers : \/ \E m \in Minutes : StartWork(w, m)
                                   \/ WorkerCrashes(w) \/ WorkerShutDown(w)
                                   \/ StorageFails(w)
             \/ Tick \/ UNCHANGED vars
      PROVE  \A m \in Minutes : RunMoves(m)
  BY <1>5, SameRunsMove
     DEF ClientAborts, StartWork, ListReady, WorkerCrashes, WorkerShutDown,
         StorageFails, Fails, Tick, vars, store, RunStays
<1> QED BY <1>1, <1>2, <1>3, <1>4, <1>5 DEF Next, Quiet

(* CronDispatcher implements RunLifecycle run by run, whatever the processes *)
(* do and whatever fails, deletion and lost leases included.                 *)
THEOREM RunsLiveByTheLifecycle == Spec => RunsFollowLifecycle
<1>1. Init => \A m \in Minutes : Life(m)!Init
  BY DEF Init, Life!Init
<1>2. TypeInv /\ [Next]_vars =>
        [\A m \in Minutes : Life(m)!Next \/ UNCHANGED runs[m]]_runs
  BY LifecycleStep DEF RunMoves
<1> QED BY <1>1, <1>2, TypeInit, TypeStep, PTL DEF Spec, RunsFollowLifecycle

-----------------------------------------------------------------------------
(* The lock and the due pointers are used as JobObjects promises, which is   *)
(* what JobStore implements request by request.                              *)

Objects(m) == INSTANCE JobObjects WITH
  Runs <- Minutes, Readings <- Minutes, due <- due[m]

ObjectMoves(m) == Objects(m)!Next \/ UNCHANGED <<lock, due[m]>>

ObjectsAreShared ==
  /\ \A m \in Minutes : Objects(m)!Init
  /\ [][\A m \in Minutes : ObjectMoves(m)]_<<lock, due>>

LEMMA ObjectsNext ==
  ASSUME NEW m
  PROVE  Objects(m)!Next <=>
           \/ /\ \E n \in Minutes, at \in Minutes :
                   /\ lock = NoLock \/ lock.state = "released" \/ lock.expires <= at
                   /\ lock' = [state |-> "held", run |-> n, expires |-> at + Lease]
              /\ UNCHANGED due[m]
           \/ /\ lock # NoLock /\ lock.state = "held"
              /\ lock' = [lock EXCEPT !.state = "released"]
              /\ UNCHANGED due[m]
           \/ lock # NoLock /\ lock' = NoLock /\ UNCHANGED due[m]
           \/ /\ \E r \in Revisions : r >= due[m] /\ due[m]' = r
              /\ UNCHANGED lock
BY DEF Objects!Next, Objects!Acquire, Objects!Release, Objects!Drop,
       Objects!PutDue, Objects!Free

(* Only the absence of the object is written as state "none".                *)
LockAbsent == lock.state = "none" => lock = NoLock

LEMMA MovesKeepAbsence ==
  ASSUME LockType, LockAbsent, NEW m, ObjectMoves(m) PROVE LockAbsent'
BY ObjectsNext DEF ObjectMoves, LockType, LockAbsent, NoLock

LEMMA PutDueIsShared ==
  ASSUME DueType, NEW n, NEW r \in 0..MaxRevision, PutDue(n, r), UNCHANGED lock
  PROVE  \A m \in Minutes : ObjectMoves(m)
<1> SUFFICES ASSUME NEW m \in Minutes PROVE ObjectMoves(m)
  OBVIOUS
<1>1. due[m] \in 0..MaxRevision
  BY DEF DueType
<1>2. due'[m] = due[m] \/ (due'[m] = r /\ ~(due[m] > r))
  BY DEF PutDue, DueType
<1>3. due'[m] = due[m] \/ (r \in Revisions /\ r >= due[m] /\ due'[m] = r)
  BY <1>1, <1>2, BoundsAssumption DEF Revisions
<1> QED BY <1>3, ObjectsNext DEF ObjectMoves

LEMMA PutNextDueIsShared ==
  ASSUME DueType, NEW n, NEW r \in 0..MaxRevision, PutNextDue(r, n),
         UNCHANGED lock
  PROVE  \A m \in Minutes : ObjectMoves(m)
<1>1. CASE UNCHANGED due
  BY <1>1 DEF ObjectMoves
<1> QED BY <1>1, PutDueIsShared DEF PutNextDue

LEMMA WorkerStepObjects ==
  ASSUME DueType, LockType, LockAbsent, WorkerType, NEW w \in Workers,
         WorkerStep(w)
  PROVE  \A m \in Minutes : ObjectMoves(m)
<1>0. worker[w].rev \in 0..MaxRevision /\ worker[w].at \in Minutes
      /\ Run(w) \in Minutes
  BY WorkFields
<1>1. CASE UNCHANGED <<lock, due>>
  BY <1>1 DEF ObjectMoves
<1>2. CASE WriteNextDue(w)
  BY <1>0, <1>2, PutNextDueIsShared DEF WriteNextDue
<1>3. CASE AcquireLock(w)
  <2>1. CASE Refuses(worker[w].at)
    BY <1>1, <1>3, <2>1 DEF AcquireLock
  <2>2. CASE ~Refuses(worker[w].at)
    <3>1. /\ lock' = [state |-> "held", run |-> worker[w].m,
                      expires |-> worker[w].at + Lease]
          /\ UNCHANGED due
      BY <1>3, <2>2 DEF AcquireLock
    <3>2. /\ lock.state \in {"none", "held", "released"} /\ lock.expires \in Nat
          /\ worker[w].at \in Nat
      BY <1>0, BoundsAssumption, LeaseAssumption DEF LockType, Minutes
    <3>3. lock = NoLock \/ lock.state = "released" \/ lock.expires <= worker[w].at
      BY <2>2, <3>2 DEF Refuses, LockAbsent
    <3> QED BY <1>0, <3>1, <3>3, ObjectsNext DEF ObjectMoves, Run
  <2> QED BY <2>1, <2>2
<1>4. CASE Release(w)
  <2>1. CASE lock.state = "held" /\ lock.run = Run(w)
    <3>1. lock' = [lock EXCEPT !.state = "released"] /\ UNCHANGED due
      BY <1>4, <2>1 DEF Release, ReleaseLock
    <3>2. lock # NoLock
      BY <2>1 DEF NoLock
    <3> QED BY <2>1, <3>1, <3>2, ObjectsNext DEF ObjectMoves
  <2>2. CASE ~(lock.state = "held" /\ lock.run = Run(w))
    BY <1>1, <1>4, <2>2 DEF Release, ReleaseLock
  <2> QED BY <2>1, <2>2
<1> QED BY <1>1, <1>2, <1>3, <1>4
        DEF WorkerStep, GetJob, Stale, DropReady, RecordSkipped, MarkAbandoned,
            CreateOwn, CloseOwn, Claim, CheckCancel, Attempt, RuntimeAccepts,
            RuntimeRefuses, RuntimeSilent, MarkAcknowledged, StreamEnds,
            PollCancel, Retry, Decide, Finish, Verify, Ready, Handle, store

LEMMA ObjectsStep ==
  TypeInv /\ LockAbsent /\ [Next]_vars => \A m \in Minutes : ObjectMoves(m)
<1> SUFFICES ASSUME TypeInv, LockAbsent, [Next]_vars
             PROVE  \A m \in Minutes : ObjectMoves(m)
  OBVIOUS
<1>0. DueType /\ LockType /\ WorkerType /\ ClientType /\ ScannerType
      /\ now \in Minutes
  BY TypeInvParts DEF StoreType, CountersType
<1>1. CASE UNCHANGED <<lock, due>>
  BY <1>1 DEF ObjectMoves
<1>2. ASSUME NEW s \in Scanners, StartScan(s) \/ ScanStep(s) \/ ScanAborts(s)
      PROVE  \A m \in Minutes : ObjectMoves(m)
  <2>1. CASE ScanDue(s)
    BY <1>0, <2>1, ScanFields, PutNextDueIsShared DEF ScanDue
  <2> QED BY <1>1, <1>2, <2>1
          DEF StartScan, ListDue, ScanStep, ScanJob, ScanReady, ScanRun,
              ScanAborts, store
<1>3. ASSUME NEW w \in Workers, WorkerStep(w)
      PROVE  \A m \in Minutes : ObjectMoves(m)
  BY <1>0, <1>3, WorkerStepObjects
<1>4. ASSUME NEW c \in Clients, StartRequest(c)
      PROVE  \A m \in Minutes : ObjectMoves(m)
  BY <1>1, <1>4 DEF StartRequest, Create, Edit, Enable, Disable, SaveJob,
                    RequestRun, Cancel, Delete, store
<1>5. ASSUME NEW c \in Clients, ClientStep(c)
      PROVE  \A m \in Minutes : ObjectMoves(m)
  <2>0. client[c].rev \in 0..MaxRevision
    BY <1>0, ClientFields
  <2>1. CASE Publish(c)
    BY <1>0, <2>0, <2>1, PutNextDueIsShared DEF Publish
  <2>2. CASE PublishRunNow(c)
    BY <1>0, <2>0, <2>2, PutDueIsShared DEF PublishRunNow
  <2>3. CASE DeleteLock(c)
    <3>1. UNCHANGED due /\ (lock' = NoLock \/ lock' = lock)
      BY <2>3 DEF DeleteLock
    <3> QED BY <3>1, ObjectsNext DEF ObjectMoves
  <2> QED BY <1>1, <1>5, <2>1, <2>2, <2>3
          DEF ClientStep, CreateQueued, ListKeys, DeleteJob, DeleteRuns, store
<1>6. ASSUME \/ \E c \in Clients : ClientAborts(c)
             \/ \E w \in Workers : \/ \E m \in Minutes : StartWork(w, m)
                                   \/ WorkerCrashes(w) \/ WorkerShutDown(w)
                                   \/ StorageFails(w)
             \/ Tick \/ UNCHANGED vars
      PROVE  \A m \in Minutes : ObjectMoves(m)
  BY <1>1, <1>6
     DEF ClientAborts, StartWork, ListReady, WorkerCrashes, WorkerShutDown,
         StorageFails, Fails, Tick, vars, store
<1> QED BY <1>2, <1>3, <1>4, <1>5, <1>6 DEF Next, Quiet

(* Workers, scanners and the Studio acquire, release and delete the lock and *)
(* publish pointers only as JobObjects allows, whatever fails and however    *)
(* late they are.                                                            *)
THEOREM ObjectsAreSharedSafely == Spec => ObjectsAreShared
<1>1. Init => \A m \in Minutes : Objects(m)!Init
  BY DEF Init, Objects!Init
<1>2. TypeInv /\ LockAbsent /\ [Next]_vars
        => [\A m \in Minutes : ObjectMoves(m)]_<<lock, due>>
  BY ObjectsStep
<1>3. Init => LockAbsent
  BY DEF Init, LockAbsent
<1>4. TypeInv /\ LockAbsent /\ [Next]_vars => LockAbsent'
  <2>1. 0 \in Minutes /\ (TypeInv => LockType)
    BY TypeInvParts, BoundsAssumption DEF StoreType, Minutes
  <2> QED BY <2>1, ObjectsStep, MovesKeepAbsence
<1> QED BY <1>1, <1>2, <1>3, <1>4, TypeInit, TypeStep, PTL
        DEF Spec, ObjectsAreShared

=============================================================================
