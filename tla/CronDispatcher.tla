--------------------------- MODULE CronDispatcher ---------------------------
(***************************************************************************)
(* The Studio cron scheduler: the scanner and the worker of dispatcher.py, *)
(* the BFF's CronjobService, and the TOS objects they share, for ONE job.  *)
(* Every key of the store carries (user, job), so jobs do not interact.    *)
(*                                                                         *)
(* Time is the UTC minute.  A run is named by the minute it is due:        *)
(* deterministic_run_id hashes user, job and scheduled_at only.  One       *)
(* action is one repository or Runtime call together with the local code   *)
(* up to the next await; RunStore and JobStore justify taking each         *)
(* repository method as atomic.  A method that raises after its write was  *)
(* applied is the method followed by a failure of the next call.           *)
(***************************************************************************)
EXTENDS Naturals, RunRecord

CONSTANTS
  Scanners,       \* concurrent dispatch_minute invocations
  Workers,        \* concurrent _execute_pointer activations, of any replica
  Clients,        \* concurrent Studio requests
  Horizon,        \* bound on the clock, for model checking
  MaxRevision,    \* bound on the edits of the job, for model checking
  Occurrences,    \* Occurrences[r]: the minutes revision r is scheduled at
  Lease,          \* max_runtime_seconds, in minutes
  Attempts,       \* pre_ack_attempts
  Requests,       \* the kinds of Studio requests issued
  MaxRequests,    \* bound on their number, for model checking
  Faults,         \* the kinds of faults that may occur, see below
  MaxFaults,      \* bound on the number of crashes and failed calls
  NoRun           \* a run object that does not exist

(* Budgeted by MaxFaults: "crash" and "storage" of any process, "shutdown" *)
(* (task cancellation: only the finally block runs).  Not budgeted:        *)
(* "slowScan", "slowClient", "overrun" let the clock run on while a scan,  *)
(* a Studio request or the holder of a lease is still busy; "redelivery"   *)
(* scans a minute again; "lateAck" is a gateway that answers 502/503/504   *)
(* for a run the Runtime did accept.                                       *)
AllFaults == {"crash", "storage", "shutdown", "slowScan", "slowClient",
              "overrun", "redelivery", "lateAck"}
AllRequests == {"create", "edit", "disable", "enable", "runNow", "cancel",
                "delete"}

Minutes   == 0..Horizon
Revisions == 1..MaxRevision

ASSUME BoundsAssumption ==
  Horizon \in Nat /\ MaxRevision \in Nat /\ MaxRequests \in Nat
    /\ MaxFaults \in Nat
ASSUME LeaseAssumption == Lease \in Nat \ {0}
ASSUME AttemptsAssumption == Attempts \in Nat \ {0}
ASSUME OccurrencesAssumption ==
  Occurrences \in [Revisions -> SUBSET (Minutes \ {0})]
ASSUME FaultsAssumption == Faults \subseteq AllFaults
ASSUME RequestsAssumption == Requests \subseteq AllRequests
ASSUME NoRunAssumption == NoRun \notin Record

VARIABLES
  now,            \* the current minute
  job,            \* job.json; at is its updated_at
  due,            \* due[m]: revision of the due pointer of minute m, or 0
  ready,          \* ready[m]: revision of the ready pointer, or 0
  runs,           \* runs[m]: the run object due at m, or NoRun
  lock,           \* lock.json
  scanner, worker, client,      \* the local state of each coroutine
  scanned,        \* minutes whose scan has ended
  started,        \* started[m]: how often the Runtime accepted run m
  faults, requests              \* how many of each have happened

store == <<job, due, ready, runs, lock>>
vars  == <<now, store, scanner, worker, client, scanned, started, faults,
           requests>>

Exists(m)   == runs[m] # NoRun
Finished(m) == Exists(m) /\ Done(runs[m])
Open(m)     == Exists(m) /\ ~Done(runs[m])

-----------------------------------------------------------------------------
(* The repository methods.                                                 *)

(* next_scheduled_time: the first occurrence strictly after m, 0 for none. *)
NextTime(r, m) ==
  LET later == {o \in Occurrences[r] : o > m} IN
  IF later = {} THEN 0 ELSE CHOOSE o \in later : \A p \in later : o <= p

(* Mutant of PutDue: the last writer wins.                                 *)
PutDueAnyway(m, r) == due' = [due EXCEPT ![m] = r]

(* put_due: a pointer never goes back to an older revision.                *)
PutDue(m, r) == due' = IF due[m] > r THEN due ELSE [due EXCEPT ![m] = r]

(* _write_next_due / publish_next.                                         *)
PutNextDue(r, m) ==
  IF NextTime(r, m) = 0 THEN UNCHANGED due ELSE PutDue(NextTime(r, m), r)

(* create_run: never overwrites.                                           *)
CreateRun(m, s) ==
  runs' = IF Exists(m) THEN runs ELSE [runs EXCEPT ![m] = Fresh(s)]

(* Mutants of Updated: a late writer replaces a terminal result; the flags *)
(* are those of the caller's older snapshot.                               *)
UpdatedEvenIfDone(old, s, ack) ==
  [old EXCEPT !.state = s, !.ack = old.ack \/ ack]
UpdatedFromSnapshot(old, s, ack) ==
  IF Done(old) THEN old ELSE [state |-> s, cancel |-> FALSE, ack |-> ack]

(* The body update_run stores: terminal runs are returned unchanged, the   *)
(* flags are those of the stored object or of the caller.                  *)
Updated(old, s, ack) ==
  IF Done(old) THEN old ELSE [old EXCEPT !.state = s, !.ack = old.ack \/ ack]

UpdateRun(m, s, ack) == runs' = [runs EXCEPT ![m] = Updated(runs[m], s, ack)]

(* get_run, then update_run unless the run is absent or terminal.          *)
CloseRun(m, s) ==
  IF Exists(m) THEN UpdateRun(m, s, FALSE) ELSE UNCHANGED runs

DeleteReady(m) == ready' = [ready EXCEPT ![m] = 0]

(* _is_current: the pointer's revision is the enabled job's.               *)
NoJob == [present |-> FALSE, enabled |-> FALSE, rev |-> 0, at |-> 0]

IsCurrent(r) == job.present /\ job.enabled /\ job.rev = r

NoLock == [state |-> "none", run |-> 0, expires |-> 0]

(* Mutants of Refuses: the comparison reversed; no expiry at all.          *)
RefusesExpired(at) == lock.state = "held" /\ lock.expires <= at
RefusesForever(at) == lock.state = "held"

(* acquire_lock refuses exactly a lease that is unexpired at the caller's  *)
(* own clock reading; release_lock compares the run, not the replica.      *)
Refuses(at) == lock.state = "held" /\ lock.expires > at
ReleaseLock(m) ==
  lock' = IF lock.state = "held" /\ lock.run = m
          THEN [lock EXCEPT !.state = "released"] ELSE lock

-----------------------------------------------------------------------------
(* Scanner: dispatch_minute.  m and rev are the pointer being copied.      *)

ScannerPcs == {"idle", "job", "ready", "run", "due"}
Scan == [pc : ScannerPcs, m : Minutes, rev : 0..MaxRevision]
IdleScan == [pc |-> "idle", m |-> 0, rev |-> 0]

ScanTo(s, pc) == scanner' = [scanner EXCEPT ![s].pc = pc] /\ UNCHANGED scanned
ScanEnds(s) ==
  /\ scanner' = [scanner EXCEPT ![s] = IdleScan]
  /\ scanned' = scanned \cup {scanner[s].m}

(* The timer fires in the current minute; list_due reads its bucket only.  *)
ListDue(s) ==
  /\ scanner[s].pc = "idle"
  /\ now \notin scanned \/ "redelivery" \in Faults
  /\ \/ /\ due[now] = 0 /\ now \notin scanned
        /\ scanned' = scanned \cup {now}
        /\ UNCHANGED scanner
     \/ /\ due[now] # 0
        /\ scanner' = [scanner EXCEPT ![s] =
                         [pc |-> "job", m |-> now, rev |-> due[now]]]
        /\ UNCHANGED scanned
  /\ UNCHANGED store

ScanJob(s) ==
  /\ scanner[s].pc = "job"
  /\ IF IsCurrent(scanner[s].rev) THEN ScanTo(s, "ready") ELSE ScanEnds(s)
  /\ UNCHANGED store

(* put_ready: forbid_overwrite; another revision there is a conflict.      *)
ScanReady(s) ==
  LET m == scanner[s].m  r == scanner[s].rev IN
  /\ scanner[s].pc = "ready"
  /\ IF ready[m] \in {0, r}
       THEN ready' = [ready EXCEPT ![m] = r] /\ ScanTo(s, "run")
       ELSE UNCHANGED ready /\ ScanEnds(s)
  /\ UNCHANGED <<job, due, runs, lock>>

ScanRun(s) ==
  /\ scanner[s].pc = "run"
  /\ CreateRun(scanner[s].m, "queued")
  /\ ScanTo(s, "due")
  /\ UNCHANGED <<job, due, ready, lock>>

ScanDue(s) ==
  /\ scanner[s].pc = "due"
  /\ PutNextDue(scanner[s].rev, scanner[s].m)
  /\ ScanEnds(s)
  /\ UNCHANGED <<job, ready, runs, lock>>

ScanStep(s) ==
  /\ ScanJob(s) \/ ScanReady(s) \/ ScanRun(s) \/ ScanDue(s)
  /\ UNCHANGED <<now, worker, client, started, faults, requests>>

(* The function is killed, or a call raises: _enqueue_safely logs it.      *)
ScanAborts(s) ==
  /\ {"crash", "storage"} \cap Faults # {} /\ faults < MaxFaults
  /\ scanner[s].pc # "idle"
  /\ ScanEnds(s)
  /\ faults' = faults + 1
  /\ UNCHANGED <<now, store, worker, client, started, requests>>

StartScan(s) ==
  ListDue(s) /\ UNCHANGED <<now, worker, client, started, faults, requests>>

-----------------------------------------------------------------------------
(* Worker: one _execute_pointer activation for the pointer (m, rev).       *)
(* at: the clock reading it started with; old: the run a taken-over lease  *)
(* was held for; out: the outcome to persist; acked: what it knows of the  *)
(* acknowledgement.                                                        *)

BeforeLock == {"job", "stale", "staleReady", "lock", "skip", "skipDue",
               "skipReady"}
Calling    == {"calling", "ack", "streaming"}
InTry      == {"abandon", "create", "claim", "close", "nextDue", "check",
               "attempt", "retry", "decide", "finish", "verify", "ready"}
               \cup Calling
Holding    == InTry \cup {"handler", "handlerReady", "release"}
WorkerPcs  == {"idle"} \cup BeforeLock \cup Holding

Work == [pc : WorkerPcs, m : Minutes, rev : 0..MaxRevision, at : Minutes,
         attempt : 0..Attempts, old : Minutes, acked : BOOLEAN,
         out : {"succeeded", "failed", "cancelled"}]
IdleWork == [pc |-> "idle", m |-> 0, rev |-> 0, at |-> 0, attempt |-> 0,
             old |-> 0, acked |-> FALSE, out |-> "failed"]

Become(w, r)  == worker' = [worker EXCEPT ![w] = r]
Goto(w, pc)   == worker' = [worker EXCEPT ![w].pc = pc]
At(w, pc)     == worker[w].pc = pc
Run(w)        == worker[w].m
Rest(w)       == Become(w, IdleWork)

(* A write of the worker's own run: update_run raises when it is gone.     *)
WriteOwn(w, s, ack, next) ==
  IF Exists(Run(w)) THEN UpdateRun(Run(w), s, ack) /\ next
                    ELSE UNCHANGED runs /\ Goto(w, "handler")

(* execute_ready: the pointer comes from a listing that may grow old while *)
(* the activation waits for its semaphore.                                 *)
ListReady(w, m) ==
  /\ At(w, "idle")
  /\ ready[m] # 0
  /\ Become(w, [IdleWork EXCEPT !.pc = "job", !.m = m, !.rev = ready[m]])
  /\ UNCHANGED <<store, started>>

(* The clock is read once, before get_job.                                 *)
GetJob(w) ==
  /\ At(w, "job")
  /\ Become(w, [worker[w] EXCEPT
                  !.at = now,
                  !.pc = IF IsCurrent(worker[w].rev) THEN "lock" ELSE "stale"])
  /\ UNCHANGED <<store, started>>

(* _terminalize_stale, then delete_ready.                                  *)
Stale(w) ==
  /\ At(w, "stale")
  /\ CloseRun(Run(w), "skipped")
  /\ Goto(w, "staleReady")
  /\ UNCHANGED <<job, due, ready, lock, started>>

DropReady(w) ==
  /\ At(w, "staleReady") \/ At(w, "skipReady")
  /\ DeleteReady(Run(w))
  /\ Rest(w)
  /\ UNCHANGED <<job, due, runs, lock, started>>

(* acquire_lock, and which branch its answer selects.                      *)
AcquireLock(w) ==
  LET k == worker[w] IN
  /\ At(w, "lock")
  /\ \/ /\ Refuses(k.at)
        /\ IF lock.run = k.m THEN Rest(w) ELSE Goto(w, "skip")
        /\ UNCHANGED lock
     \/ /\ ~Refuses(k.at)
        /\ lock' = [state |-> "held", run |-> k.m, expires |-> k.at + Lease]
        /\ IF lock.state = "held"
             THEN Become(w, [k EXCEPT !.pc = "abandon", !.old = lock.run])
             ELSE Goto(w, "create")
  /\ UNCHANGED <<job, due, ready, runs, started>>

(* Mutant of RecordSkipped: a run that exists is taken to be recorded.     *)
RecordSkippedIfNew(w) ==
  /\ At(w, "skip")
  /\ CreateRun(Run(w), "skipped")
  /\ Goto(w, "skipDue")
  /\ UNCHANGED <<job, due, ready, lock, started>>

(* _record_skipped: create the run as skipped, or close the existing one.  *)
RecordSkipped(w) ==
  LET m == Run(w) IN
  /\ At(w, "skip")
  /\ IF Exists(m) THEN UpdateRun(m, "skipped", FALSE) ELSE CreateRun(m, "skipped")
  /\ Goto(w, "skipDue")
  /\ UNCHANGED <<job, due, ready, lock, started>>

WriteNextDue(w) ==
  /\ At(w, "skipDue") \/ At(w, "nextDue")
  /\ PutNextDue(worker[w].rev, Run(w))
  /\ IF At(w, "skipDue") THEN Goto(w, "skipReady")
     ELSE Become(w, [worker[w] EXCEPT !.pc = "check", !.attempt = 1])
  /\ UNCHANGED <<job, ready, runs, lock, started>>

(* Mutant of MarkAbandoned: the run of the expired lease is left alone.    *)
MarkAbandonedNever(w) ==
  /\ At(w, "abandon")
  /\ Goto(w, IF worker[w].old = Run(w) THEN "ready" ELSE "create")
  /\ UNCHANGED <<store, started>>

(* _mark_abandoned of the run whose lease expired.                         *)
MarkAbandoned(w) ==
  /\ At(w, "abandon")
  /\ CloseRun(worker[w].old, "failed")
  /\ Goto(w, IF worker[w].old = Run(w) THEN "ready" ELSE "create")
  /\ UNCHANGED <<job, due, ready, lock, started>>

(* Mutant of Existing: a run that left the queue is claimed again.         *)
ExistingResumed(r) == IF Done(r) THEN "ready" ELSE "claim"

(* What becomes of a run that create_run found in the store already.       *)
Existing(r) ==
  IF Done(r) THEN "ready" ELSE IF r.state \in Active THEN "close" ELSE "claim"

(* create_run(preparing).                                                  *)
CreateOwn(w) ==
  LET m == Run(w) IN
  /\ At(w, "create")
  /\ CreateRun(m, "preparing")
  /\ Goto(w, IF Exists(m) THEN Existing(runs[m]) ELSE "nextDue")
  /\ UNCHANGED <<job, due, ready, lock, started>>

(* A run some earlier activation already took from the queue.              *)
CloseOwn(w) ==
  /\ At(w, "close")
  /\ CloseRun(Run(w), "failed")
  /\ Goto(w, "ready")
  /\ UNCHANGED <<job, due, ready, lock, started>>

(* update_run(preparing); what it returns is not looked at again.          *)
Claim(w) ==
  /\ At(w, "claim")
  /\ WriteOwn(w, "preparing", FALSE, Goto(w, "nextDue"))
  /\ UNCHANGED <<job, due, ready, lock, started>>

-----------------------------------------------------------------------------
(* Worker: the attempts of _execute, and the Runtime (external).           *)

Cancelled(m) == Exists(m) /\ runs[m].cancel

(* is_cancel_requested, before each attempt.                               *)
CheckCancel(w) ==
  /\ At(w, "check")
  /\ IF Cancelled(Run(w))
       THEN Become(w, [worker[w] EXCEPT !.pc = "finish", !.out = "cancelled"])
       ELSE Goto(w, "attempt")
  /\ UNCHANGED <<store, started>>

Attempt(w) ==
  /\ At(w, "attempt")
  /\ WriteOwn(w, IF worker[w].attempt = 1 THEN "preparing" ELSE "retrying",
              worker[w].acked, Goto(w, "calling"))
  /\ UNCHANGED <<job, due, ready, lock, started>>

Starts(m) == started' = [started EXCEPT ![m] = @ + 1]

(* The Runtime answers the run_sse request: mark_acknowledged comes next.  *)
RuntimeAccepts(w) ==
  /\ At(w, "calling")
  /\ Starts(Run(w))
  /\ Goto(w, "ack")
  /\ UNCHANGED store

(* Mutant of CanRetry: one attempt too many.                               *)
CanRetryOnceMore(k) == ~k.acked /\ k.attempt <= Attempts

(* A RuntimeInvocationError that is not acknowledged: a connection that    *)
(* failed, or an HTTP error status.  502, 503, 504 and connection errors   *)
(* are retryable.                                                          *)
CanRetry(k) == ~k.acked /\ k.attempt < Attempts

RuntimeRefuses(w) ==
  LET k == worker[w] IN
  /\ At(w, "calling")
  /\ \/ CanRetry(k) /\ Goto(w, "retry")
     \/ Become(w, [k EXCEPT !.pc = "decide", !.out = "failed"])
  /\ UNCHANGED started \/ ("lateAck" \in Faults /\ Starts(k.m))
  /\ UNCHANGED store

(* The request was delivered and the answer lost: never retried.           *)
RuntimeSilent(w) ==
  /\ At(w, "calling")
  /\ Become(w, [worker[w] EXCEPT !.pc = "decide", !.out = "failed",
                                 !.acked = TRUE])
  /\ UNCHANGED started \/ Starts(Run(w))
  /\ UNCHANGED store

(* get_run, then update_run(running) unless the run is absent or terminal. *)
MarkAcknowledged(w) ==
  /\ At(w, "ack")
  /\ IF Exists(Run(w)) THEN UpdateRun(Run(w), "running", TRUE)
                       ELSE UNCHANGED runs
  /\ Goto(w, "streaming")
  /\ UNCHANGED <<job, due, ready, lock, started>>

(* _read_sse: the stream ends, reports an error or breaks, or the poll     *)
(* sees a cancellation.  The last two raise an acknowledged error.         *)
StreamEnds(w) ==
  /\ At(w, "streaming")
  /\ \/ Become(w, [worker[w] EXCEPT !.pc = "decide", !.out = "succeeded"])
     \/ Become(w, [worker[w] EXCEPT !.pc = "decide", !.out = "failed",
                                    !.acked = TRUE])
  /\ UNCHANGED <<store, started>>

PollCancel(w) ==
  /\ At(w, "streaming")
  /\ Cancelled(Run(w))
  /\ Become(w, [worker[w] EXCEPT !.pc = "decide", !.out = "failed",
                                 !.acked = TRUE])
  /\ UNCHANGED <<store, started>>

Retry(w) ==
  /\ At(w, "retry")
  /\ WriteOwn(w, "retrying", FALSE,
              Become(w, [worker[w] EXCEPT !.pc = "check", !.attempt = @ + 1]))
  /\ UNCHANGED <<job, due, ready, lock, started>>

(* is_cancel_requested once more, after the call.                          *)
Decide(w) ==
  /\ At(w, "decide")
  /\ Become(w, [worker[w] EXCEPT !.pc = "finish",
                  !.out = IF Cancelled(Run(w)) THEN "cancelled" ELSE @])
  /\ UNCHANGED <<store, started>>

Finish(w) ==
  LET k == worker[w] IN
  /\ At(w, "finish")
  /\ WriteOwn(w, k.out, k.acked \/ k.out = "succeeded", Goto(w, "verify"))
  /\ UNCHANGED <<job, due, ready, lock, started>>

(* "Runtime execution ended without a durable terminal run".               *)
Verify(w) ==
  /\ At(w, "verify")
  /\ Goto(w, IF Finished(Run(w)) THEN "ready" ELSE "handler")
  /\ UNCHANGED <<store, started>>

Ready(w) ==
  /\ At(w, "ready") \/ At(w, "handlerReady")
  /\ DeleteReady(Run(w))
  /\ Goto(w, "release")
  /\ UNCHANGED <<job, due, runs, lock, started>>

(* The durable failure boundary: an exception inside the try block.        *)
Handle(w) ==
  /\ At(w, "handler")
  /\ CloseRun(Run(w), "failed")
  /\ Goto(w, IF Exists(Run(w)) THEN "handlerReady" ELSE "release")
  /\ UNCHANGED <<job, due, ready, lock, started>>

Release(w) ==
  /\ At(w, "release")
  /\ ReleaseLock(Run(w))
  /\ Rest(w)
  /\ UNCHANGED <<job, due, ready, runs, started>>

WorkerStep(w) ==
  /\ \/ GetJob(w) \/ Stale(w) \/ DropReady(w) \/ AcquireLock(w)
     \/ RecordSkipped(w) \/ WriteNextDue(w) \/ MarkAbandoned(w)
     \/ CreateOwn(w) \/ CloseOwn(w) \/ Claim(w)
     \/ CheckCancel(w) \/ Attempt(w) \/ RuntimeAccepts(w) \/ RuntimeRefuses(w)
     \/ RuntimeSilent(w) \/ MarkAcknowledged(w) \/ StreamEnds(w)
     \/ PollCancel(w) \/ Retry(w) \/ Decide(w) \/ Finish(w) \/ Verify(w)
     \/ Ready(w) \/ Handle(w) \/ Release(w)
  /\ UNCHANGED <<now, scanner, client, scanned, faults, requests>>

StartWork(w, m) ==
  ListReady(w, m)
    /\ UNCHANGED <<now, scanner, client, scanned, faults, requests>>

-----------------------------------------------------------------------------
(* Worker: failures.                                                       *)

Fails(w, kind) ==
  /\ kind \in Faults /\ faults < MaxFaults
  /\ now + Lease <= Horizon       \* the clock lives to see the lease expire
  /\ faults' = faults + 1
  /\ UNCHANGED <<now, store, scanner, client, scanned, started, requests>>

(* The process is gone: nothing more of the activation runs.               *)
WorkerCrashes(w) ==
  /\ ~At(w, "idle")
  /\ Rest(w)
  /\ Fails(w, "crash")

(* CancelledError is not an Exception: only the finally block runs.        *)
WorkerShutDown(w) ==
  /\ worker[w].pc \in BeforeLock \cup InTry \cup {"handler", "handlerReady"}
  /\ IF worker[w].pc \in Holding THEN Goto(w, "release") ELSE Rest(w)
  /\ Fails(w, "shutdown")

(* A repository call raises.  Inside the executor it is a plain exception, *)
(* which ends the attempt as failed; inside the try block it reaches the   *)
(* handler; elsewhere it ends the activation.                              *)
StorageFails(w) ==
  /\ worker[w].pc \notin {"idle", "calling"}
  /\ CASE worker[w].pc \in {"ack", "streaming"} ->
            Become(w, [worker[w] EXCEPT !.pc = "finish", !.out = "failed"])
       [] worker[w].pc \in InTry \ Calling       -> Goto(w, "handler")
       [] worker[w].pc \in {"handler", "handlerReady"} -> Goto(w, "release")
       [] worker[w].pc \in BeforeLock \cup {"release"} -> Rest(w)
  /\ Fails(w, "storage")

-----------------------------------------------------------------------------
(* Studio requests: CronjobService.  at: the clock reading; rev: the       *)
(* revision read or saved; keys: what _delete_job listed.                  *)

ClientPcs == {"idle", "publish", "runDue", "runCreate", "list", "delJob",
              "delLock", "delRuns"}
Request == [pc : ClientPcs, at : Minutes, rev : 0..MaxRevision,
            keys : SUBSET Minutes, hasLock : BOOLEAN]
IdleRequest == [pc |-> "idle", at |-> 0, rev |-> 0, keys |-> {},
                hasLock |-> FALSE]

Serve(c, r)  == client' = [client EXCEPT ![c] = r]
Reply(c)     == Serve(c, IdleRequest)
Pending(c, pc) == client[c].pc = pc

Receive(c, kind) ==
  /\ Pending(c, "idle")
  /\ kind \in Requests /\ requests < MaxRequests
  /\ requests' = requests + 1

(* The job is saved, conditionally on what was read, then published after  *)
(* the clock reading taken for updated_at, between the read and the save.  *)
SaveJob(c, enabled) ==
  \E at \in job.at..now :
    /\ at = now \/ "slowClient" \in Faults
    /\ job.rev < MaxRevision
    /\ job' = [present |-> TRUE, enabled |-> enabled, rev |-> job.rev + 1,
               at |-> at]
    /\ IF enabled
         THEN Serve(c, [IdleRequest EXCEPT !.pc = "publish", !.at = at,
                                           !.rev = job.rev + 1])
         ELSE Reply(c)
    /\ UNCHANGED <<due, ready, runs, lock>>

Create(c) ==
  /\ Receive(c, "create")
  /\ ~job.present /\ job.rev = 0        \* a job id is never used twice
  /\ \E enabled \in BOOLEAN : SaveJob(c, enabled)

Edit(c) ==
  /\ Receive(c, "edit")
  /\ job.present
  /\ \E enabled \in BOOLEAN : SaveJob(c, enabled)

Enable(c) ==
  Receive(c, "enable") /\ job.present /\ ~job.enabled /\ SaveJob(c, TRUE)

Disable(c) ==
  Receive(c, "disable") /\ job.present /\ job.enabled /\ SaveJob(c, FALSE)

Publish(c) ==
  /\ Pending(c, "publish")
  /\ PutNextDue(client[c].rev, client[c].at)
  /\ Reply(c)
  /\ UNCHANGED <<job, ready, runs, lock, requests>>

(* Mutant of RunMinute: the minute being scanned.                          *)
RunMinuteNow(c) == client[c].at

(* The next UTC minute, after the clock reading of the request.            *)
RunMinute(c) == client[c].at + 1

(* request_run: the clock is read before the pointer is published.         *)
RequestRun(c) ==
  /\ Receive(c, "runNow")
  /\ job.present /\ job.enabled /\ now < Horizon
  /\ Serve(c, [IdleRequest EXCEPT !.pc = "runDue", !.at = now, !.rev = job.rev])
  /\ UNCHANGED store

PublishRunNow(c) ==
  /\ Pending(c, "runDue")
  /\ PutDue(RunMinute(c), client[c].rev)
  /\ Serve(c, [client[c] EXCEPT !.pc = "runCreate"])
  /\ UNCHANGED <<job, ready, runs, lock, requests>>

CreateQueued(c) ==
  /\ Pending(c, "runCreate")
  /\ CreateRun(RunMinute(c), "queued")
  /\ Reply(c)
  /\ UNCHANGED <<job, due, ready, lock, requests>>

(* cancel: refused once the run is terminal.                               *)
Cancel(c) ==
  /\ Receive(c, "cancel")
  /\ job.present
  /\ \E m \in Minutes :
       Open(m) /\ ~runs[m].cancel /\ runs' = [runs EXCEPT ![m].cancel = TRUE]
  /\ UNCHANGED <<job, due, ready, lock, client>>

(* delete: refused while a lease is unexpired; then the keys under the job *)
(* are listed and removed one by one in key order.                         *)
Delete(c) ==
  /\ Receive(c, "delete")
  /\ job.present /\ ~Refuses(now)
  /\ Serve(c, [IdleRequest EXCEPT !.pc = "list"])
  /\ UNCHANGED store

ListKeys(c) ==
  /\ Pending(c, "list")
  /\ IF job.present
       THEN Serve(c, [IdleRequest EXCEPT
                        !.pc = "delJob",
                        !.keys = {m \in Minutes : Exists(m)},
                        !.hasLock = lock.state # "none"])
       ELSE Reply(c)
  /\ UNCHANGED <<store, requests>>

DeleteJob(c) ==
  /\ Pending(c, "delJob")
  /\ job' = [job EXCEPT !.present = FALSE]
  /\ Serve(c, [client[c] EXCEPT !.pc = "delLock"])
  /\ UNCHANGED <<due, ready, runs, lock, requests>>

DeleteLock(c) ==
  /\ Pending(c, "delLock")
  /\ lock' = IF client[c].hasLock THEN NoLock ELSE lock
  /\ Serve(c, [client[c] EXCEPT !.pc = "delRuns"])
  /\ UNCHANGED <<job, due, ready, runs, requests>>

DeleteRuns(c) ==
  /\ Pending(c, "delRuns")
  /\ IF client[c].keys = {} THEN Reply(c) /\ UNCHANGED runs
     ELSE \E m \in client[c].keys :
            /\ runs' = [runs EXCEPT ![m] = NoRun]
            /\ Serve(c, [client[c] EXCEPT !.keys = @ \ {m}])
  /\ UNCHANGED <<job, due, ready, lock, requests>>

StartRequest(c) ==
  /\ \/ Create(c) \/ Edit(c) \/ Enable(c) \/ Disable(c) \/ RequestRun(c)
     \/ Cancel(c) \/ Delete(c)
  /\ UNCHANGED <<now, scanner, worker, scanned, started, faults>>

ClientStep(c) ==
  /\ \/ Publish(c) \/ PublishRunNow(c) \/ CreateQueued(c) \/ ListKeys(c)
     \/ DeleteJob(c) \/ DeleteLock(c) \/ DeleteRuns(c)
  /\ UNCHANGED <<now, scanner, worker, scanned, started, faults>>

(* The Studio restarts, or a call raises and the request is answered 5xx.  *)
ClientAborts(c) ==
  /\ {"crash", "storage"} \cap Faults # {} /\ faults < MaxFaults
  /\ ~Pending(c, "idle")
  /\ Reply(c)
  /\ faults' = faults + 1
  /\ UNCHANGED <<now, store, scanner, worker, scanned, started, requests>>

-----------------------------------------------------------------------------
(* The clock, and the specification.                                       *)

(* From the clock reading of an acquisition to the release of its lock.    *)
Leased(w) == At(w, "lock") \/ worker[w].pc \in Holding

(* How far the clock may run ahead of the processes, unless Faults says    *)
(* otherwise: each minute is scanned within it, a Studio request ends in   *)
(* the minute it starts, and a lease outlives its holder's work.           *)
MayTick ==
  /\ "slowScan" \in Faults \/ (/\ now \in scanned
                               /\ \A s \in Scanners : scanner[s].pc = "idle")
  /\ "slowClient" \in Faults \/ \A c \in Clients : Pending(c, "idle")
  /\ "overrun" \in Faults \/ \A w \in Workers :
                               Leased(w) => now + 1 < worker[w].at + Lease

Tick ==
  /\ now < Horizon
  /\ MayTick
  /\ now' = now + 1
  /\ UNCHANGED <<store, scanner, worker, client, scanned, started, faults,
                 requests>>

(* The bounded instance may stop once the clock has run out, every minute  *)
(* is scanned, the queue is drained and nothing is in progress.            *)
Quiet ==
  /\ now = Horizon
  /\ \A s \in Scanners : scanner[s].pc = "idle"
  /\ \A w \in Workers : At(w, "idle")
  /\ \A c \in Clients : Pending(c, "idle")
  /\ UNCHANGED vars

Init ==
  /\ now = 0
  /\ job = NoJob
  /\ due = [m \in Minutes |-> 0]
  /\ ready = [m \in Minutes |-> 0]
  /\ runs = [m \in Minutes |-> NoRun]
  /\ lock = NoLock
  /\ scanner = [s \in Scanners |-> IdleScan]
  /\ worker = [w \in Workers |-> IdleWork]
  /\ client = [c \in Clients |-> IdleRequest]
  /\ scanned = {}
  /\ started = [m \in Minutes |-> 0]
  /\ faults = 0
  /\ requests = 0

Next ==
  \/ \E s \in Scanners : StartScan(s) \/ ScanStep(s) \/ ScanAborts(s)
  \/ \E w \in Workers : \/ \E m \in Minutes : StartWork(w, m)
                        \/ WorkerStep(w)
                        \/ WorkerCrashes(w) \/ WorkerShutDown(w)
                        \/ StorageFails(w)
  \/ \E c \in Clients : StartRequest(c) \/ ClientStep(c) \/ ClientAborts(c)
  \/ Tick
  \/ Quiet

Spec == Init /\ [][Next]_vars

(* Coroutines run to their next await; the timers keep firing, and every   *)
(* pointer of the ready queue is in the batch of some later listing.       *)
Fairness ==
  /\ WF_vars(Tick)
  /\ \A s \in Scanners : WF_vars(StartScan(s)) /\ WF_vars(ScanStep(s))
  /\ \A w \in Workers : WF_vars(WorkerStep(w))
  /\ \A m \in Minutes : SF_vars(\E w \in Workers : StartWork(w, m))
  /\ \A c \in Clients : WF_vars(ClientStep(c))

FairSpec == Spec /\ Fairness

-----------------------------------------------------------------------------
(* Properties.                                                             *)

TypeOK ==
  /\ now \in Minutes
  /\ job \in [present : BOOLEAN, enabled : BOOLEAN, rev : 0..MaxRevision,
              at : Minutes]
  /\ due \in [Minutes -> 0..MaxRevision]
  /\ ready \in [Minutes -> 0..MaxRevision]
  /\ runs \in [Minutes -> Record \cup {NoRun}]
  /\ lock \in [state : {"none", "held", "released"}, run : Minutes,
               expires : 0..(Horizon + Lease)]
  /\ scanner \in [Scanners -> Scan]
  /\ worker \in [Workers -> Work]
  /\ client \in [Clients -> Request]
  /\ scanned \subseteq Minutes
  /\ started \in [Minutes -> Nat]
  /\ faults \in 0..MaxFaults
  /\ requests \in 0..MaxRequests

(* Two activations never use the Runtime for the same job at the same      *)
(* time: what the lock is for.                                             *)
MutualExclusion ==
  \A v, w \in Workers :
    worker[v].pc \in Calling /\ worker[w].pc \in Calling => v = w

(* Whoever works under the lock does so alone, within its lease, and the   *)
(* lock names its run: the reason why executions exclude each other.       *)
LeaseCoversHolder ==
  \A w \in Workers :
    /\ Leased(w) => worker[w].at <= now /\ now < worker[w].at + Lease
    /\ worker[w].pc \in Holding =>
         /\ lock = [state |-> "held", run |-> Run(w),
                    expires |-> worker[w].at + Lease]
         /\ \A v \in Workers : worker[v].pc \in Holding => v = w

(* The Runtime accepts each run at most once, whatever crashes, fails or   *)
(* is delivered twice: an occurrence is executed again by nobody.          *)
StartedAtMostOnce == \A m \in Minutes : started[m] <= 1

(* What the history shows of a run really happened: a success was produced *)
(* by the Runtime and acknowledged, a cancellation was asked for.          *)
OutcomesAreEarned ==
  \A m \in Minutes : Exists(m) =>
    /\ runs[m].state = "succeeded" => started[m] > 0 /\ runs[m].ack
    /\ runs[m].state = "cancelled" => runs[m].cancel

(* A run the history calls skipped was never given to the Runtime: both    *)
(* reasons recorded with "skipped" say that it did not execute.  The code   *)
(* does not keep this: the lock may change hands between the refusal and    *)
(* the record (see the README), so no run checks it.                        *)
SkippedNeverStarted ==
  \A m \in Minutes : Exists(m) /\ runs[m].state = "skipped" => started[m] = 0

(* The schedule never stops: every occurrence of the current revision that *)
(* came after it was saved, and whose minute was scanned, has a run.       *)
NoMissedOccurrence ==
  job.present /\ job.enabled =>
    \A m \in Occurrences[job.rev] :
      m > job.at /\ m \in scanned => Exists(m)

(* Every unfinished run will still be picked up: it is in the ready queue, *)
(* or its due pointer is in a minute that can still be scanned.            *)
NoOrphanRun ==
  \A m \in Minutes :
    Open(m) => ready[m] # 0 \/ (due[m] # 0 /\ m >= now /\ m \notin scanned)

(* Ready entries are deleted only after a terminal result is persisted.    *)
ReadyOutlivesRun ==
  [][\A m \in Minutes :
       ready[m] # 0 /\ ready'[m] = 0 => Finished(m)]_vars

(* Whoever writes it, every run object follows the life cycle that         *)
(* RunLifecycle promises its readers.                                      *)
Life(m) == INSTANCE RunLifecycle WITH run <- runs[m]
RunsFollowLifecycle ==
  /\ \A m \in Minutes : Life(m)!Init
  /\ [][\A m \in Minutes : Life(m)!Next \/ UNCHANGED runs[m]]_runs

(* Every queue entry is eventually consumed, and every run finishes, also  *)
(* when the activation that held the lease crashed.                        *)
ReadyDrains == \A m \in Minutes : ready[m] # 0 ~> ready[m] = 0
RunsFinish  == \A m \in Minutes : Open(m) ~> ~Open(m)

=============================================================================
