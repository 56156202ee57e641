--------------------------- MODULE CronRunsProofs ---------------------------
(***************************************************************************)
(* What CronDispatcher does to the runs of a job, for any number of        *)
(* processes and any schedule.                                             *)
(*                                                                         *)
(* Starts: each run is given to the Runtime at most once.  On top of       *)
(* exclusion this rests on the run object: it is created once, leaves the  *)
(* queue once, and never returns.                                          *)
(*                                                                         *)
(* Outcomes: what the history says of a run has happened.  This needs no   *)
(* exclusion, only that the runs of a job are not deleted.                 *)
(*                                                                         *)
(* Occurrences: the schedule never stops.  Until the pointer of the next   *)
(* occurrence is stored, somebody is about to store it, and the clock      *)
(* waits for them.  This excludes what ends a process between two steps of *)
(* the chain, and scans and requests that the clock overtakes.             *)
(*                                                                         *)
(* Queues: an entry leaves the ready queue only with a terminal run, and   *)
(* every open run is in a queue.                                           *)
(***************************************************************************)
EXTENDS CronDispatcherProofs, WellFoundedInduction

-----------------------------------------------------------------------------
(* Starts.                                                                   *)

(* A run that has left the queue, for good.                                  *)
Taken(m) == Exists(m) /\ runs[m].state # "queued"

(* Where an activation has yet to have its request accepted, and where it    *)
(* has already taken its run from the queue for that.                        *)
Taking    == {"nextDue", "check", "attempt", "calling", "retry"}
Unstarted == {"claim"} \cup Taking

WorkerStarts(w) ==
  /\ worker[w].pc \in Unstarted => started[Run(w)] = 0
  /\ worker[w].pc \in Taking => Taken(Run(w))

StartsInv ==
  /\ \A m \in Minutes : started[m] > 0 => Taken(m)
  /\ StartedAtMostOnce
  /\ \A w \in Workers : WorkerStarts(w)

-----------------------------------------------------------------------------
(* What a step may do to the run objects, as far as starting is concerned.   *)

KeepsTaken == \A m \in Minutes : Taken(m) => Taken(m)'

LEMMA CreateKeepsTaken ==
  ASSUME NEW m, NEW s, CreateRun(m, s) PROVE KeepsTaken
BY DEF CreateRun, KeepsTaken, Taken, Exists

LEMMA UpdateTakes ==
  ASSUME RunsType, NEW m \in Minutes, Exists(m), NEW s \in States \ {"queued"},
         NEW ack \in BOOLEAN, UpdateRun(m, s, ack)
  PROVE  KeepsTaken /\ Taken(m)'
<1>1. runs[m] \in Record
  BY DEF RunsType, Exists
<1>2. Updated(runs[m], s, ack) \in Record
      /\ Updated(runs[m], s, ack).state # "queued"
  BY <1>1 DEF Updated, Record, Done, Terminal
<1>3. Updated(runs[m], s, ack) # NoRun
  BY <1>2, NoRunAssumption
<1> QED BY <1>2, <1>3 DEF UpdateRun, KeepsTaken, Taken, Exists, RunsType

LEMMA CloseKeepsTaken ==
  ASSUME RunsType, NEW m \in Minutes, NEW s \in States \ {"queued"},
         CloseRun(m, s)
  PROVE  KeepsTaken
BY UpdateTakes DEF CloseRun, KeepsTaken, Taken, Exists

LEMMA SameRunsKeepTaken ==
  ASSUME UNCHANGED runs PROVE KeepsTaken
BY DEF KeepsTaken, Taken, Exists

(* A step of anyone that starts nothing, and leaves the workers alone.       *)
LEMMA BystanderKeepsStarts ==
  ASSUME StartsInv, WorkerType, KeepsTaken, UNCHANGED <<worker, started>>
  PROVE  StartsInv'
<1>1. \A w \in Workers : Run(w) \in Minutes
  BY WorkFields
<1>2. \A w \in Workers : WorkerStarts(w)'
  BY <1>1 DEF StartsInv, WorkerStarts, KeepsTaken, Run
<1> QED BY <1>2 DEF StartsInv, StartedAtMostOnce, KeepsTaken

(* A step of w that starts nothing: what holds of w after it is left to show.*)
LEMMA WorkerKeepsStarts ==
  ASSUME StartsInv, WorkerType, KeepsTaken, UNCHANGED started,
         NEW w \in Workers,
         \A v \in Workers \ {w} : worker'[v] = worker[v],
         WorkerStarts(w)'
  PROVE  StartsInv'
<1>1. ASSUME NEW v \in Workers \ {w} PROVE WorkerStarts(v)'
  <2>1. Run(v) \in Minutes /\ worker'[v] = worker[v]
    BY WorkFields
  <2>2. WorkerStarts(v)
    BY DEF StartsInv
  <2> QED BY <2>1, <2>2 DEF WorkerStarts, KeepsTaken, Run
<1> QED BY <1>1 DEF StartsInv, StartedAtMostOnce, KeepsTaken

LEMMA PassiveStep ==
  ASSUME StartsInv, WorkerType, KeepsTaken, UNCHANGED started,
         NEW w \in Workers,
         \A v \in Workers \ {w} : worker'[v] = worker[v],
         worker'[w].pc \notin Unstarted
  PROVE  StartsInv'
BY WorkerKeepsStarts DEF WorkerStarts, Unstarted

(* The Runtime accepts the run of w: nobody else was about to start it.      *)
LEMMA StartIsFirst ==
  ASSUME StartsInv, WorkerType, StartedType, LeaseCoversHolder,
         NEW w \in Workers, At(w, "calling"), Starts(Run(w)),
         UNCHANGED runs, Moves(w), worker'[w].pc \notin Unstarted
  PROVE  StartsInv'
<1>0. Run(w) \in Minutes /\ started[Run(w)] = 0 /\ Taken(Run(w))
  BY WorkFields DEF StartsInv, WorkerStarts, At, Unstarted, Taking
<1>1. started' = [started EXCEPT ![Run(w)] = 1]
  BY <1>0 DEF Starts, StartedType
<1>2. \A v \in Workers \ {w} : worker[v].pc \notin Unstarted
  BY PcFacts DEF LeaseCoversHolder, At, Unstarted, Taking
<1>3. \A m \in Minutes :
        started'[m] = IF m = Run(w) THEN 1 ELSE started[m]
  BY <1>0, <1>1 DEF StartedType
<1>4. KeepsTaken
  BY SameRunsKeepTaken
<1>5. ASSUME NEW m \in Minutes, started'[m] > 0 PROVE Taken(m)'
  <2>1. CASE m = Run(w)
    BY <1>0, <1>4, <2>1 DEF KeepsTaken
  <2>2. CASE m # Run(w)
    BY <1>3, <1>4, <1>5, <2>2 DEF StartsInv, KeepsTaken
  <2> QED BY <2>1, <2>2
<1>6. StartedAtMostOnce'
  <2> SUFFICES ASSUME NEW m \in Minutes PROVE started'[m] <= 1
    BY DEF StartedAtMostOnce
  <2>1. started[m] <= 1
    BY DEF StartsInv, StartedAtMostOnce
  <2>2. started'[m] = 1 \/ started'[m] = started[m]
    BY <1>3
  <2> QED BY <2>1, <2>2
<1>7. \A v \in Workers : WorkerStarts(v)'
  BY <1>2 DEF WorkerStarts, Moves, Taking, Unstarted
<1> QED BY <1>5, <1>6, <1>7 DEF StartsInv

-----------------------------------------------------------------------------
(* The steps of a worker.                                                    *)

LEMMA BecomeOnly ==
  ASSUME WorkerType, NEW w \in Workers, NEW r, Become(w, r)
  PROVE  /\ worker'[w] = r
         /\ \A v \in Workers \ {w} : worker'[v] = worker[v]
BY DEF WorkerType, Become

LEMMA GotoOnly ==
  ASSUME WorkerType, NEW w \in Workers, NEW pc, Goto(w, pc)
  PROVE  /\ worker'[w].pc = pc
         /\ worker'[w].m = worker[w].m
         /\ \A v \in Workers \ {w} : worker'[v] = worker[v]
<1>1. worker[w] \in Work
  BY DEF WorkerType
<1> QED BY <1>1 DEF WorkerType, Goto, Work

(* Steps after which w is not about to start anything.                       *)
PassiveSteps(w) ==
  \/ GetJob(w) \/ Stale(w) \/ DropReady(w) \/ AcquireLock(w)
  \/ RecordSkipped(w) \/ MarkAbandoned(w) \/ CloseOwn(w)
  \/ MarkAcknowledged(w) \/ StreamEnds(w) \/ PollCancel(w) \/ Decide(w)
  \/ Finish(w) \/ Verify(w) \/ Ready(w) \/ Handle(w) \/ Release(w)
  \/ (WriteNextDue(w) /\ At(w, "skipDue"))

LEMMA PassiveRuns ==
  ASSUME RunsType, WorkerType, NEW w \in Workers, PassiveSteps(w)
  PROVE  KeepsTaken /\ UNCHANGED started
<1>0. /\ Run(w) \in Minutes /\ worker[w].old \in Minutes
      /\ worker[w].out \in States \ {"queued"} /\ worker[w].acked \in BOOLEAN
      /\ {"skipped", "failed", "running"} \subseteq States \ {"queued"}
  BY WorkFields DEF States, Terminal, Active
<1>1. CASE \/ GetJob(w) \/ DropReady(w) \/ AcquireLock(w) \/ StreamEnds(w)
           \/ PollCancel(w) \/ Decide(w) \/ Verify(w) \/ Ready(w) \/ Release(w)
           \/ (WriteNextDue(w) /\ At(w, "skipDue"))
  BY <1>1, SameRunsKeepTaken
     DEF GetJob, DropReady, AcquireLock, StreamEnds, PollCancel, Decide, Verify,
         Ready, Release, WriteNextDue, store
<1>2. CASE Stale(w) \/ MarkAbandoned(w) \/ CloseOwn(w) \/ Handle(w)
  BY <1>0, <1>2, CloseKeepsTaken DEF Stale, MarkAbandoned, CloseOwn, Handle
<1>3. CASE RecordSkipped(w) \/ MarkAcknowledged(w) \/ Finish(w)
  BY <1>0, <1>3, CreateKeepsTaken, UpdateTakes, SameRunsKeepTaken
     DEF RecordSkipped, MarkAcknowledged, Finish, WriteOwn
<1> QED BY <1>1, <1>2, <1>3 DEF PassiveSteps

LEMMA PassivePc ==
  ASSUME WorkerType, NEW w \in Workers, PassiveSteps(w)
  PROVE  /\ worker'[w].pc \notin Unstarted
         /\ \A v \in Workers \ {w} : worker'[v] = worker[v]
<1> USE DEF Unstarted, Taking
<1>0. worker[w] \in Work
  BY DEF WorkerType
<1>1. ASSUME NEW pc \in WorkerPcs \ Unstarted, Goto(w, pc)
      PROVE  /\ worker'[w].pc \notin Unstarted
             /\ \A v \in Workers \ {w} : worker'[v] = worker[v]
  <2> HIDE DEF Unstarted, Taking
  <2> QED BY <1>1, GotoOnly
<1>2. CASE \/ Stale(w) \/ RecordSkipped(w) \/ CloseOwn(w)
           \/ MarkAcknowledged(w) \/ Verify(w) \/ Ready(w) \/ Handle(w)
           \/ MarkAbandoned(w) \/ (WriteNextDue(w) /\ At(w, "skipDue"))
  <2>1. \E pc \in WorkerPcs \ Unstarted : Goto(w, pc)
    BY <1>2, PcsAreWorkerPcs
       DEF Stale, RecordSkipped, CloseOwn, MarkAcknowledged, Verify, Ready,
           Handle, MarkAbandoned, WriteNextDue
  <2> QED BY <1>1, <2>1
<1>3. CASE GetJob(w) \/ StreamEnds(w) \/ PollCancel(w) \/ Decide(w)
  <2>1. CASE GetJob(w)
    <3> DEFINE r == [worker[w] EXCEPT
                       !.at = now,
                       !.pc = IF IsCurrent(worker[w].rev) THEN "lock"
                                                          ELSE "stale"]
    <3>1. r.pc \in {"lock", "stale"}
      BY <1>0 DEF Work
    <3>2. Become(w, r)
      BY <2>1 DEF GetJob
    <3> HIDE DEF r
    <3> QED BY <3>1, <3>2, BecomeOnly
  <2>2. CASE StreamEnds(w) \/ PollCancel(w)
    <3>1. \E r : Become(w, r) /\ r.pc = "decide"
      <4>1. [worker[w] EXCEPT !.pc = "decide", !.out = "succeeded"].pc = "decide"
        BY <1>0 DEF Work
      <4>2. [worker[w] EXCEPT !.pc = "decide", !.out = "failed",
                              !.acked = TRUE].pc = "decide"
        BY <1>0 DEF Work
      <4> QED BY <2>2, <4>1, <4>2 DEF StreamEnds, PollCancel
    <3> QED BY <3>1, BecomeOnly
  <2>3. CASE Decide(w)
    <3> DEFINE r == [worker[w] EXCEPT
                       !.pc = "finish",
                       !.out = IF Cancelled(Run(w)) THEN "cancelled" ELSE @]
    <3>1. r.pc = "finish"
      BY <1>0 DEF Work
    <3>2. Become(w, r)
      BY <2>3 DEF Decide
    <3> HIDE DEF r
    <3> QED BY <3>1, <3>2, BecomeOnly
  <2> QED BY <1>3, <2>1, <2>2, <2>3
<1>4. CASE DropReady(w) \/ Release(w) \/ AcquireLock(w)
  <2>1. CASE Rest(w)
    BY <2>1, RestMoves
  <2>2. CASE \E pc \in {"skip", "create"} : Goto(w, pc)
    BY <2>2, GotoOnly
  <2>3. CASE Become(w, [worker[w] EXCEPT !.pc = "abandon", !.old = lock.run])
    <3>1. [worker[w] EXCEPT !.pc = "abandon", !.old = lock.run].pc = "abandon"
      BY <1>0 DEF Work
    <3> HIDE DEF Unstarted, Taking
    <3>2. worker'[w].pc = "abandon"
      BY <2>3, <3>1, BecomeOnly
    <3> QED BY <2>3, <3>2, BecomeOnly DEF Unstarted, Taking
  <2> QED BY <1>4, <2>1, <2>2, <2>3 DEF DropReady, Release, AcquireLock
<1>5. CASE Finish(w)
  BY <1>5, GotoOnly DEF Finish, WriteOwn
<1> QED BY <1>1, <1>2, <1>3, <1>4, <1>5 DEF PassiveSteps

LEMMA WorkerStepStarts ==
  ASSUME "lateAck" \notin Faults, StartsInv, LeaseCoversHolder, StartedType,
         RunsType, WorkerType, WorkerType', NEW w \in Workers, WorkerStep(w)
  PROVE  StartsInv'
<1>0. worker[w] \in Work /\ Run(w) \in Minutes /\ WorkerStarts(w)
  BY WorkFields DEF StartsInv
<1>1. CASE PassiveSteps(w)
  BY <1>1, PassiveRuns, PassivePc, PassiveStep
(* What w has taken stays taken while it moves on towards its request.       *)
<1>2. ASSUME At(w, "claim") \/ worker[w].pc \in Taking, Moves(w),
             KeepsTaken, UNCHANGED started,
             Taken(Run(w))' \/ worker[w].pc \in Taking
      PROVE  StartsInv'
  <2>1. Run(w)' = Run(w) /\ started[Run(w)] = 0
    BY <1>0, <1>2 DEF WorkerStarts, Unstarted, At, Run, Moves
  <2>2. Taken(Run(w))'
    BY <1>0, <1>2, <2>1 DEF WorkerStarts, KeepsTaken, Taken, Exists
  <2>3. WorkerStarts(w)'
    BY <1>2, <2>1, <2>2 DEF WorkerStarts
  <2> QED BY <1>2, <2>3, WorkerKeepsStarts DEF Moves
<1>3. CASE CreateOwn(w)
  <2>1. KeepsTaken /\ UNCHANGED started
    BY <1>3, CreateKeepsTaken DEF CreateOwn
  <2>2. /\ \A v \in Workers \ {w} : worker'[v] = worker[v]
        /\ worker'[w].pc = IF Exists(Run(w)) THEN Existing(runs[Run(w)])
                                             ELSE "nextDue"
        /\ Run(w)' = Run(w)
    BY <1>3, GotoOnly DEF CreateOwn, Run
  <2>3. CASE Exists(Run(w)) /\ runs[Run(w)].state = "queued"
    <3>1. started[Run(w)] = 0
      BY <1>0, <2>3 DEF StartsInv, Taken, StartedType
    <3>2. worker'[w].pc = "claim"
      BY <2>2, <2>3 DEF Existing, Done, Terminal, Active
    <3>3. WorkerStarts(w)'
      BY <2>1, <2>2, <3>1, <3>2 DEF WorkerStarts, Taking
    <3> QED BY <2>1, <2>2, <3>3, WorkerKeepsStarts
  <2>4. CASE ~Exists(Run(w))
    <3>1. started[Run(w)] = 0
      BY <1>0, <2>4 DEF StartsInv, Taken, StartedType
    <3>2. Taken(Run(w))'
      <4>1. runs' = [runs EXCEPT ![Run(w)] = Fresh("preparing")]
        BY <1>3, <2>4 DEF CreateOwn, CreateRun
      <4>2. /\ Fresh("preparing") \in Record
            /\ Fresh("preparing").state = "preparing"
        BY FreshIsRecord DEF States, Active, Fresh
      <4>3. runs'[Run(w)] = Fresh("preparing")
        BY <1>0, <4>1 DEF RunsType
      <4>4. runs'[Run(w)] # NoRun /\ runs'[Run(w)].state = "preparing"
        BY <4>2, <4>3, NoRunAssumption
      <4> QED BY <2>2, <4>4 DEF Taken, Exists
    <3>3. WorkerStarts(w)'
      BY <2>1, <2>2, <3>1, <3>2 DEF WorkerStarts
    <3> QED BY <2>1, <2>2, <3>3, WorkerKeepsStarts
  <2>5. CASE Exists(Run(w)) /\ runs[Run(w)].state # "queued"
    <3>1. runs[Run(w)].state \in States
      BY <1>0, <2>5 DEF RunsType, Exists, Record
    <3>2. worker'[w].pc \in {"ready", "close"}
      BY <2>2, <2>5, <3>1 DEF Existing, Done, States
    <3>3. worker'[w].pc \notin Unstarted
      BY <3>2 DEF Unstarted, Taking
    <3> QED BY <2>1, <2>2, <3>3, PassiveStep
  <2> QED BY <2>3, <2>4, <2>5
<1>4. ASSUME NEW s \in States \ {"queued"}, NEW ack \in BOOLEAN, NEW next,
             WriteOwn(w, s, ack, next), next => Moves(w), UNCHANGED started,
             At(w, "claim") \/ worker[w].pc \in Taking
      PROVE  StartsInv'
  <2>1. CASE Exists(Run(w))
    <3>1. KeepsTaken /\ Taken(Run(w))' /\ Moves(w)
      <4>1. UpdateRun(Run(w), s, ack) /\ next
        BY <1>4, <2>1 DEF WriteOwn
      <4>2. Run(w)' = Run(w)
        BY <1>4, <4>1 DEF Moves, Run
      <4>3. PICK m \in Minutes : m = Run(w)
        BY <1>0
      <4>4. KeepsTaken /\ Taken(m)'
        BY <2>1, <4>1, <4>3, UpdateTakes, <1>4
      <4> QED BY <1>4, <4>1, <4>2, <4>3, <4>4 DEF Taken, Exists
    <3> QED BY <1>2, <1>4, <3>1
  <2>2. CASE ~Exists(Run(w))
    <3>1. UNCHANGED runs /\ Goto(w, "handler")
      BY <1>4, <2>2 DEF WriteOwn
    <3>2. worker'[w].pc \notin Unstarted
      BY <3>1, GotoOnly DEF Unstarted, Taking
    <3> QED BY <1>4, <3>1, <3>2, GotoOnly, SameRunsKeepTaken, PassiveStep
  <2> QED BY <2>1, <2>2
<1>5. CASE Claim(w) \/ Attempt(w) \/ Retry(w)
  <2>1. /\ {"preparing", "retrying"} \subseteq States \ {"queued"}
        /\ worker[w].acked \in BOOLEAN /\ FALSE \in BOOLEAN
    BY WorkFields DEF States, Terminal, Active
  <2>2. Goto(w, "nextDue") => Moves(w)
    BY GotoMoves
  <2>3. Goto(w, "calling") => Moves(w)
    BY GotoMoves
  <2>4. Become(w, [worker[w] EXCEPT !.pc = "check", !.attempt = @ + 1])
          => Moves(w)
    BY <1>0, BecomeMoves DEF Work
  <2>5. UNCHANGED started /\ (At(w, "claim") \/ worker[w].pc \in Taking)
    BY <1>5 DEF Claim, Attempt, Retry, At, Taking
  <2>6. CASE Claim(w)
    BY <1>4, <2>1, <2>2, <2>5, <2>6 DEF Claim
  <2>7. CASE Attempt(w)
    BY <1>4, <2>1, <2>3, <2>5, <2>7 DEF Attempt
  <2>8. CASE Retry(w)
    BY <1>4, <2>1, <2>4, <2>5, <2>8 DEF Retry
  <2> QED BY <1>5, <2>6, <2>7, <2>8
<1>6. CASE (WriteNextDue(w) /\ At(w, "nextDue")) \/ CheckCancel(w)
  <2>1. UNCHANGED <<runs, started>> /\ worker[w].pc \in Taking
    BY <1>6 DEF WriteNextDue, CheckCancel, At, Taking, store
  <2>2. HolderStep(w)
    BY <1>6, PcFacts DEF HolderStep, At
  <2> QED BY <1>2, <2>1, <2>2, HolderStepMoves, SameRunsKeepTaken
<1>7. CASE RuntimeRefuses(w)
  <2>1. UNCHANGED <<runs, started>> /\ worker[w].pc \in Taking
    BY <1>7 DEF RuntimeRefuses, At, Taking, store
  <2> QED BY <1>2, <1>7, <2>1, HolderStepMoves, SameRunsKeepTaken DEF HolderStep
<1>8. CASE RuntimeAccepts(w) \/ RuntimeSilent(w)
  <2>1. Moves(w) /\ UNCHANGED runs
    BY <1>8, HolderStepMoves DEF HolderStep, RuntimeAccepts, RuntimeSilent, store
  <2>2. worker'[w].pc \in {"ack", "decide"}
    <3>1. [worker[w] EXCEPT !.pc = "decide", !.out = "failed",
                            !.acked = TRUE].pc = "decide"
      BY <1>0 DEF Work
    <3> QED BY <1>8, <3>1, GotoOnly, BecomeOnly
            DEF RuntimeAccepts, RuntimeSilent
  <2>3. worker'[w].pc \notin Unstarted
    BY <2>2 DEF Unstarted, Taking
  <2>4. At(w, "calling") /\ (UNCHANGED started \/ Starts(Run(w)))
    BY <1>8 DEF RuntimeAccepts, RuntimeSilent
  <2>5. CASE Starts(Run(w))
    BY <2>1, <2>3, <2>4, <2>5, StartIsFirst
  <2>6. CASE UNCHANGED started
    BY <2>1, <2>3, <2>6, SameRunsKeepTaken, PassiveStep DEF Moves
  <2> QED BY <2>4, <2>5, <2>6
<1>9. WriteNextDue(w) => At(w, "skipDue") \/ At(w, "nextDue")
  BY DEF WriteNextDue
<1> QED BY <1>1, <1>3, <1>5, <1>6, <1>7, <1>8, <1>9
        DEF WorkerStep, PassiveSteps

-----------------------------------------------------------------------------
(* Everyone else: the scanner and the Studio create queued runs and set      *)
(* flags, failures only move workers away from what they were about to do.   *)

LEMMA RequestsKeepTaken ==
  ASSUME RunsType, "delete" \notin Requests, NEW c \in Clients, StartRequest(c)
  PROVE  KeepsTaken
<1>1. ~Delete(c)
  BY DEF Delete, Receive
<1>2. CASE Cancel(c)
  <2>1. PICK m \in Minutes :
          Open(m) /\ runs' = [runs EXCEPT ![m].cancel = TRUE]
    BY <1>2 DEF Cancel
  <2>2. runs[m] \in Record
    BY <2>1 DEF Open, Exists, RunsType
  <2>3. /\ [runs[m] EXCEPT !.cancel = TRUE] \in Record
        /\ [runs[m] EXCEPT !.cancel = TRUE].state = runs[m].state
    BY <2>2 DEF Record
  <2> QED BY <2>1, <2>3, NoRunAssumption DEF KeepsTaken, Taken, Exists, RunsType
<1>3. CASE ~Cancel(c)
  <2>1. UNCHANGED runs
    BY <1>1, <1>3 DEF StartRequest, Create, Edit, Enable, Disable, SaveJob,
                      RequestRun, store
  <2> QED BY <2>1, SameRunsKeepTaken
<1> QED BY <1>2, <1>3

LEMMA FailureIsPassive ==
  ASSUME StartsInv, WorkerType, NEW w \in Workers,
         WorkerCrashes(w) \/ WorkerShutDown(w) \/ StorageFails(w)
  PROVE  StartsInv'
<1>0. worker[w] \in Work
  BY DEF WorkerType
<1>1. UNCHANGED <<runs, started>>
  BY DEF WorkerCrashes, WorkerShutDown, StorageFails, Fails, store
<1>2. \/ Rest(w)
      \/ \E pc \in {"handler", "release"} : Goto(w, pc)
      \/ Become(w, [worker[w] EXCEPT !.pc = "finish", !.out = "failed"])
  BY <1>0 DEF WorkerCrashes, WorkerShutDown, StorageFails, Work, WorkerPcs,
              Holding, InTry, Calling, BeforeLock
<1>3. [worker[w] EXCEPT !.pc = "finish", !.out = "failed"].pc = "finish"
  BY <1>0 DEF Work
<1>4. /\ worker'[w].pc \in {"idle", "handler", "release", "finish"}
      /\ \A v \in Workers \ {w} : worker'[v] = worker[v]
  BY <1>2, <1>3, RestMoves, GotoOnly, BecomeOnly
<1>5. worker'[w].pc \notin Unstarted
  BY <1>4 DEF Unstarted, Taking
<1> QED BY <1>1, <1>4, <1>5, SameRunsKeepTaken, PassiveStep

FullInv == ExclusionInv /\ StartsInv

LEMMA FullInit == Init => FullInv
<1> SUFFICES ASSUME Init PROVE StartsInv
  BY ExclusionInit DEF FullInv
<1>1. \A w \in Workers : worker[w].pc = "idle"
  BY DEF Init, IdleWork
<1>2. \A m \in Minutes : started[m] = 0
  BY DEF Init
<1> QED BY <1>1, <1>2
        DEF StartsInv, WorkerStarts, StartedAtMostOnce, Unstarted, Taking

LEMMA FullStep ==
  ASSUME "overrun" \notin Faults, "delete" \notin Requests,
         "lateAck" \notin Faults
  PROVE  FullInv /\ [Next]_vars => FullInv'
<1> SUFFICES ASSUME FullInv, [Next]_vars PROVE StartsInv'
  BY ExclusionStep DEF FullInv
<1>0. /\ StartsInv /\ LeaseCoversHolder /\ NotDeleting /\ TypeInv' /\ StartedType
      /\ RunsType /\ WorkerType /\ WorkerType'
  BY TypeStep, TypeInvParts
     DEF FullInv, ExclusionInv, StoreType, TypeInv, TypeOK, WorkerType
<1>1. ASSUME NEW s \in Scanners, StartScan(s) \/ ScanStep(s) \/ ScanAborts(s)
      PROVE  StartsInv'
  <2>1. UNCHANGED <<worker, started>>
    BY <1>1 DEF StartScan, ScanStep, ScanAborts
  <2>2. UNCHANGED runs \/ CreateRun(scanner[s].m, "queued")
    BY <1>1 DEF StartScan, ListDue, ScanStep, ScanJob, ScanReady, ScanRun,
                ScanDue, ScanAborts, store
  <2> QED BY <1>0, <2>1, <2>2, SameRunsKeepTaken, CreateKeepsTaken,
             BystanderKeepsStarts
<1>2. ASSUME NEW w \in Workers, NEW m \in Minutes, StartWork(w, m)
      PROVE  StartsInv'
  <2>1. [IdleWork EXCEPT !.pc = "job", !.m = m, !.rev = ready[m]].pc = "job"
    BY DEF IdleWork
  <2>2. worker'[w].pc \notin Unstarted
    BY <1>0, <1>2, <2>1, BecomeOnly DEF StartWork, ListReady, Unstarted, Taking
  <2> QED BY <1>0, <1>2, <2>2, BecomeOnly, SameRunsKeepTaken, PassiveStep
          DEF StartWork, ListReady, store
<1>3. ASSUME NEW w \in Workers, WorkerStep(w) PROVE StartsInv'
  BY <1>0, <1>3, WorkerStepStarts
<1>4. ASSUME NEW w \in Workers,
             WorkerCrashes(w) \/ WorkerShutDown(w) \/ StorageFails(w)
      PROVE  StartsInv'
  BY <1>0, <1>4, FailureIsPassive
<1>5. ASSUME NEW c \in Clients, StartRequest(c) PROVE StartsInv'
  BY <1>0, <1>5, RequestsKeepTaken, BystanderKeepsStarts DEF StartRequest
<1>6. ASSUME NEW c \in Clients, ClientStep(c) PROVE StartsInv'
  <2>1. UNCHANGED runs \/ CreateRun(RunMinute(c), "queued")
    BY <1>0, <1>6 DEF ClientStep, Publish, PublishRunNow, CreateQueued, ListKeys,
                      DeleteJob, DeleteLock, DeleteRuns, Pending, NotDeleting
  <2> QED BY <1>0, <1>6, <2>1, SameRunsKeepTaken, CreateKeepsTaken,
             BystanderKeepsStarts DEF ClientStep
<1>7. ASSUME (\E c \in Clients : ClientAborts(c)) \/ Tick \/ UNCHANGED vars
      PROVE  StartsInv'
  <2>1. UNCHANGED <<runs, worker, started>>
    BY <1>7 DEF ClientAborts, Tick, vars, store
  <2> QED BY <1>0, <2>1, SameRunsKeepTaken, BystanderKeepsStarts
<1> QED BY <1>1, <1>2, <1>3, <1>4, <1>5, <1>6, <1>7 DEF Next, Quiet

(* Each run is accepted by the Runtime at most once, whatever crashes, is    *)
(* shut down, fails, is listed or scanned twice, is edited or cancelled.     *)
THEOREM StartsOnce ==
  ASSUME "overrun" \notin Faults, "delete" \notin Requests,
         "lateAck" \notin Faults
  PROVE  Spec => []StartedAtMostOnce
<1>1. FullInv => StartedAtMostOnce
  BY DEF FullInv, StartsInv
<1> QED BY <1>1, FullInit, FullStep, PTL DEF Spec

-----------------------------------------------------------------------------
(* Outcomes.  What an activation is about to persist has happened: a stream  *)
(* was opened by a start, and a cancellation was seen in the run, where it   *)
(* stays as long as runs are not deleted.                                    *)

Earned(r, starts) ==
  /\ r.state = "succeeded" => starts > 0 /\ r.ack
  /\ r.state = "cancelled" => r.cancel

WorkerEarned(w) ==
  /\ worker[w].pc \in {"ack", "streaming"} => started[Run(w)] > 0
  /\ worker[w].pc \in {"decide", "finish"} /\ worker[w].out = "succeeded" =>
       started[Run(w)] > 0
  /\ At(w, "decide") => worker[w].out # "cancelled"
  /\ At(w, "finish") /\ worker[w].out = "cancelled" => Cancelled(Run(w))

EarnedInv == OutcomesAreEarned /\ \A w \in Workers : WorkerEarned(w)

(* A change of the runs that keeps cancellations and leaves every outcome    *)
(* earned.                                                                   *)
Earns ==
  /\ \A m \in Minutes : Cancelled(m) => Cancelled(m)'
  /\ \A m \in Minutes : runs'[m] # NoRun => Earned(runs'[m], started[m])

LEMMA SameRunsEarn ==
  ASSUME EarnedInv, UNCHANGED runs PROVE Earns
BY DEF EarnedInv, OutcomesAreEarned, Earns, Earned, Cancelled, Exists

LEMMA CreateEarns ==
  ASSUME EarnedInv, RunsType, NEW n, NEW s \in {"queued", "preparing", "skipped"},
         CreateRun(n, s)
  PROVE  Earns
<1>1. \A m \in Minutes : runs'[m] = runs[m]
                         \/ (~Exists(m) /\ runs'[m] = Fresh(s))
  BY DEF CreateRun, RunsType
<1>2. Fresh(s).state \notin {"succeeded", "cancelled"}
  BY DEF Fresh
<1> QED BY <1>1, <1>2
        DEF EarnedInv, OutcomesAreEarned, Earns, Earned, Cancelled, Exists

LEMMA UpdateEarns ==
  ASSUME EarnedInv, RunsType, NEW n \in Minutes, Exists(n),
         NEW s \in States \ {"queued"}, NEW ack \in BOOLEAN, UpdateRun(n, s, ack),
         s = "succeeded" => started[n] > 0 /\ ack,
         s = "cancelled" => Cancelled(n)
  PROVE  Earns
<1>0. runs[n] \in Record /\ Earned(runs[n], started[n])
  BY DEF RunsType, Exists, EarnedInv, OutcomesAreEarned, Earned
<1>1. PICK a \in BOOLEAN : a = (runs[n].ack \/ ack)
  OBVIOUS
<1> DEFINE r == [runs[n] EXCEPT !.state = s, !.ack = a]
<1>2. r \in Record /\ r.state = s /\ r.ack = a /\ r.cancel = runs[n].cancel
  BY <1>0 DEF Record
<1>3. Updated(runs[n], s, ack) = runs[n] \/ Updated(runs[n], s, ack) = r
  BY <1>1 DEF Updated
<1> HIDE DEF r
<1>4. s = "succeeded" => a
  BY <1>1
<1>5. Earned(r, started[n])
  BY <1>2, <1>4 DEF Earned, Cancelled
<1>6. runs'[n] \in {runs[n], r} /\ \A m \in Minutes \ {n} : runs'[m] = runs[m]
  BY <1>3 DEF UpdateRun, RunsType
<1>7. r # NoRun
  BY <1>2, NoRunAssumption
<1> QED BY <1>0, <1>2, <1>5, <1>6, <1>7
        DEF EarnedInv, OutcomesAreEarned, Earns, Earned, Cancelled, Exists

LEMMA CloseEarns ==
  ASSUME EarnedInv, RunsType, NEW n \in Minutes, NEW s \in {"failed", "skipped"},
         CloseRun(n, s)
  PROVE  Earns
BY UpdateEarns, SameRunsEarn DEF CloseRun, States, Terminal, Active

LEMMA StartedGrows ==
  ASSUME StartedType, NEW n \in Minutes, UNCHANGED started \/ Starts(n)
  PROVE  /\ \A m \in Minutes : started[m] > 0 => started'[m] > 0
         /\ Starts(n) => started'[n] > 0
BY DEF StartedType, Starts

(* What is left to show of a step of w.                                      *)
LEMMA WorkerKeepsEarned ==
  ASSUME EarnedInv, WorkerType, Earns, NEW w \in Workers,
         \A m \in Minutes : started[m] > 0 => started'[m] > 0,
         \A v \in Workers \ {w} : worker'[v] = worker[v],
         WorkerEarned(w)'
  PROVE  EarnedInv'
<1>1. ASSUME NEW v \in Workers \ {w} PROVE WorkerEarned(v)'
  <2>1. Run(v) \in Minutes /\ worker'[v] = worker[v] /\ WorkerEarned(v)
    BY WorkFields DEF EarnedInv
  <2> QED BY <2>1 DEF WorkerEarned, Earns, Run, At
<1>2. OutcomesAreEarned'
  BY DEF Earns, Earned, OutcomesAreEarned, Exists
<1> QED BY <1>1, <1>2 DEF EarnedInv

LEMMA BystanderKeepsEarned ==
  ASSUME EarnedInv, WorkerType, Earns, UNCHANGED <<worker, started>>
  PROVE  EarnedInv'
<1>1. ASSUME NEW v \in Workers PROVE WorkerEarned(v)'
  <2>1. Run(v) \in Minutes /\ WorkerEarned(v)
    BY WorkFields DEF EarnedInv
  <2> QED BY <2>1 DEF WorkerEarned, Earns, Run, At
<1> QED BY <1>1 DEF EarnedInv, Earns, Earned, OutcomesAreEarned, Exists

(* Where an activation has nothing to answer for.                            *)
Answering == {"ack", "streaming", "decide", "finish"}

LEMMA SilentStep ==
  ASSUME EarnedInv, WorkerType, Earns, NEW w \in Workers, UNCHANGED started,
         \A v \in Workers \ {w} : worker'[v] = worker[v],
         worker'[w].pc \notin Answering
  PROVE  EarnedInv'
BY WorkerKeepsEarned DEF WorkerEarned, Answering, At

LEMMA WorkerStepEarns ==
  ASSUME EarnedInv, RunsType, WorkerType, NEW w \in Workers, WorkerStep(w)
  PROVE  Earns
<1>0. /\ Run(w) \in Minutes /\ worker[w].old \in Minutes
      /\ worker[w].out \in States \ {"queued"} /\ worker[w].acked \in BOOLEAN
      /\ {"skipped", "failed", "preparing", "running", "retrying"}
           \subseteq States \ {"queued"}
  BY WorkFields DEF States, Terminal, Active
<1>1. CASE UNCHANGED runs
  BY <1>1, SameRunsEarn
<1>2. CASE Stale(w) \/ MarkAbandoned(w) \/ CloseOwn(w) \/ Handle(w)
  BY <1>0, <1>2, CloseEarns DEF Stale, MarkAbandoned, CloseOwn, Handle
<1>3. ASSUME Exists(Run(w)), NEW ack \in BOOLEAN,
             NEW s \in {"skipped", "preparing", "running", "retrying"},
             UpdateRun(Run(w), s, ack)
      PROVE  Earns
  <2>1. s \in States \ {"queued"} /\ s # "succeeded" /\ s # "cancelled"
    BY <1>0
  <2> QED BY <1>0, <1>3, <2>1, UpdateEarns
<1>4. CASE RecordSkipped(w) \/ CreateOwn(w)
  BY <1>3, <1>4, CreateEarns DEF RecordSkipped, CreateOwn
<1>5. CASE MarkAcknowledged(w) \/ Claim(w) \/ Attempt(w) \/ Retry(w)
  BY <1>0, <1>1, <1>3, <1>5 DEF MarkAcknowledged, Claim, Attempt, Retry, WriteOwn
<1>6. CASE Finish(w)
  <2>1. PICK ack \in BOOLEAN : ack = (worker[w].acked \/ worker[w].out = "succeeded")
    OBVIOUS
  <2>2. worker[w].out = "succeeded" => started[Run(w)] > 0 /\ ack
    <3>1. worker[w].out = "succeeded" => started[Run(w)] > 0
      BY <1>6 DEF Finish, At, EarnedInv, WorkerEarned
    <3>2. worker[w].out = "succeeded" => ack
      BY <2>1
    <3> QED BY <3>1, <3>2
  <2>3. worker[w].out = "cancelled" => Cancelled(Run(w))
    BY <1>6 DEF Finish, EarnedInv, WorkerEarned
  <2>4. CASE Exists(Run(w))
    <3>1. UpdateRun(Run(w), worker[w].out, ack)
      BY <1>6, <2>1, <2>4 DEF Finish, WriteOwn
    <3> QED BY <1>0, <2>2, <2>3, <2>4, <3>1, UpdateEarns
  <2> QED BY <1>1, <1>6, <2>4 DEF Finish, WriteOwn
<1> QED BY <1>1, <1>2, <1>4, <1>5, <1>6
        DEF WorkerStep, GetJob, DropReady, AcquireLock, WriteNextDue, CheckCancel,
            RuntimeAccepts, RuntimeRefuses, RuntimeSilent, StreamEnds, PollCancel,
            Decide, Verify, Ready, Release, store

LEMMA WorkerStepKeepsEarned ==
  ASSUME EarnedInv, RunsType, WorkerType, StartedType, NEW w \in Workers,
         WorkerStep(w)
  PROVE  EarnedInv'
<1>0. worker[w] \in Work /\ Run(w) \in Minutes /\ Earns /\ WorkerEarned(w)
  BY WorkFields, WorkerStepEarns DEF EarnedInv
<1>1. ASSUME NEW pc \in WorkerPcs \ Answering, Goto(w, pc), UNCHANGED started
      PROVE  EarnedInv'
  BY <1>0, <1>1, GotoOnly, SilentStep
<1>2. ASSUME NEW r, r.pc \notin Answering, Become(w, r), UNCHANGED started
      PROVE  EarnedInv'
  BY <1>0, <1>2, BecomeOnly, SilentStep
<1>3. ASSUME Rest(w), UNCHANGED started PROVE EarnedInv'
  <2>1. worker'[w].pc \notin Answering
    BY <1>3, RestMoves DEF Answering
  <2> QED BY <1>0, <1>3, <2>1, RestMoves, SilentStep
<1>4. CASE \/ Stale(w) \/ RecordSkipped(w) \/ CloseOwn(w) \/ CreateOwn(w)
           \/ Verify(w) \/ Ready(w) \/ Handle(w) \/ MarkAbandoned(w)
           \/ Claim(w) \/ Attempt(w) \/ Finish(w)
  <2>1. \E pc \in WorkerPcs \ Answering : Goto(w, pc)
    BY <1>4, PcsAreWorkerPcs
       DEF Stale, RecordSkipped, CloseOwn, CreateOwn, Existing, Verify, Ready,
           Handle, MarkAbandoned, Claim, Attempt, Finish, WriteOwn, Answering
  <2>2. UNCHANGED started
    BY <1>4 DEF Stale, RecordSkipped, CloseOwn, CreateOwn, Verify, Ready,
                Handle, MarkAbandoned, Claim, Attempt, Finish, store
  <2> QED BY <1>1, <2>1, <2>2
<1>5. CASE GetJob(w) \/ DropReady(w) \/ AcquireLock(w) \/ Release(w)
  <2>1. UNCHANGED started
    BY <1>5 DEF GetJob, DropReady, AcquireLock, Release
  <2>2. CASE Rest(w)
    BY <1>3, <2>1, <2>2
  <2>3. CASE \E pc \in {"skip", "create"} : Goto(w, pc)
    BY <1>1, <2>1, <2>3, PcsAreWorkerPcs DEF Answering
  <2>4. CASE Become(w, [worker[w] EXCEPT !.pc = "abandon", !.old = lock.run])
    <3>1. [worker[w] EXCEPT !.pc = "abandon", !.old = lock.run].pc \notin Answering
      BY <1>0 DEF Work, Answering
    <3> QED BY <1>2, <2>1, <2>4, <3>1
  <2>5. CASE GetJob(w)
    <3> DEFINE r == [worker[w] EXCEPT
                       !.at = now,
                       !.pc = IF IsCurrent(worker[w].rev) THEN "lock"
                                                          ELSE "stale"]
    <3>1. r.pc \notin Answering
      BY <1>0 DEF Work, Answering
    <3>2. Become(w, r)
      BY <2>5 DEF GetJob
    <3> HIDE DEF r
    <3> QED BY <1>2, <2>1, <3>1, <3>2
  <2> QED BY <1>5, <2>2, <2>3, <2>4, <2>5 DEF DropReady, AcquireLock, Release
<1>6. CASE WriteNextDue(w) \/ Retry(w)
  <2>1. UNCHANGED started
    BY <1>6 DEF WriteNextDue, Retry
  <2>2. CASE \E pc \in {"skipReady", "handler"} : Goto(w, pc)
    BY <1>1, <2>1, <2>2, PcsAreWorkerPcs DEF Answering
  <2>3. CASE \E a : Become(w, [worker[w] EXCEPT !.pc = "check", !.attempt = a])
    <3>1. PICK a : Become(w, [worker[w] EXCEPT !.pc = "check", !.attempt = a])
      BY <2>3
    <3>2. [worker[w] EXCEPT !.pc = "check", !.attempt = a].pc \notin Answering
      BY <1>0 DEF Work, Answering
    <3> QED BY <1>2, <2>1, <3>1, <3>2
  <2> QED BY <1>6, <2>2, <2>3 DEF WriteNextDue, Retry, WriteOwn
(* The steps that lead to an outcome.                                        *)
<1>7. ASSUME NEW r \in Work, Become(w, r), r.m = worker[w].m, WorkerEarned(w)',
             UNCHANGED started \/ Starts(Run(w))
      PROVE  EarnedInv'
  BY <1>0, <1>7, BecomeOnly, StartedGrows, WorkerKeepsEarned
<1>8. CASE CheckCancel(w)
  <2>1. UNCHANGED <<started, runs>>
    BY <1>8 DEF CheckCancel, store
  <2>2. CASE Cancelled(Run(w))
    <3> DEFINE r == [worker[w] EXCEPT !.pc = "finish", !.out = "cancelled"]
    <3>1. Become(w, r)
      BY <1>8, <2>2 DEF CheckCancel
    <3>2. /\ r \in Work /\ r.m = worker[w].m /\ r.pc = "finish"
          /\ r.out = "cancelled"
      BY <1>0, PcsAreWorkerPcs DEF Work
    <3> HIDE DEF r
    <3>3. WorkerEarned(w)'
      BY <2>1, <2>2, <3>1, <3>2, BecomeOnly
         DEF WorkerEarned, Run, At, Cancelled, Exists
    <3> QED BY <1>7, <2>1, <3>1, <3>2, <3>3
  <2>3. CASE ~Cancelled(Run(w))
    BY <1>1, <1>8, <2>1, <2>3, PcsAreWorkerPcs DEF CheckCancel, Answering
  <2> QED BY <2>2, <2>3
<1>9. CASE RuntimeAccepts(w)
  <2>1. Starts(Run(w)) /\ Goto(w, "ack")
    BY <1>9 DEF RuntimeAccepts
  <2>2. /\ worker'[w].pc = "ack" /\ Run(w)' = Run(w) /\ started'[Run(w)] > 0
        /\ \A v \in Workers \ {w} : worker'[v] = worker[v]
        /\ \A m \in Minutes : started[m] > 0 => started'[m] > 0
    BY <1>0, <2>1, GotoOnly, StartedGrows DEF Run
  <2>3. WorkerEarned(w)'
    BY <2>2 DEF WorkerEarned, At
  <2> QED BY <1>0, <2>2, <2>3, WorkerKeepsEarned
<1>10. CASE MarkAcknowledged(w)
  <2>1. UNCHANGED started /\ Goto(w, "streaming") /\ started[Run(w)] > 0
    BY <1>0, <1>10 DEF MarkAcknowledged, At, WorkerEarned
  <2>2. /\ worker'[w].pc = "streaming" /\ Run(w)' = Run(w)
        /\ \A v \in Workers \ {w} : worker'[v] = worker[v]
    BY <2>1, GotoOnly DEF Run
  <2>3. WorkerEarned(w)'
    BY <2>1, <2>2 DEF WorkerEarned, At
  <2> QED BY <1>0, <2>1, <2>2, <2>3, WorkerKeepsEarned
<1>11. ASSUME NEW out \in {"succeeded", "failed"}, NEW acked \in BOOLEAN,
              Become(w, [worker[w] EXCEPT !.pc = "decide", !.out = out,
                                          !.acked = acked]),
              UNCHANGED started \/ Starts(Run(w)),
              out = "succeeded" => started[Run(w)] > 0
       PROVE  EarnedInv'
  <2> DEFINE r == [worker[w] EXCEPT !.pc = "decide", !.out = out, !.acked = acked]
  <2>1. r \in Work /\ r.m = worker[w].m /\ r.pc = "decide" /\ r.out = out
    BY <1>0, PcsAreWorkerPcs DEF Work
  <2>2. Become(w, r)
    BY <1>11
  <2> HIDE DEF r
  <2>3. WorkerEarned(w)'
    BY <1>0, <1>11, <2>1, <2>2, BecomeOnly, StartedGrows DEF WorkerEarned, Run, At
  <2> QED BY <1>7, <1>11, <2>1, <2>2, <2>3
<1>12. [worker[w] EXCEPT !.pc = "decide", !.out = "succeeded"]
         = [worker[w] EXCEPT !.pc = "decide", !.out = "succeeded",
                             !.acked = worker[w].acked]
       /\ [worker[w] EXCEPT !.pc = "decide", !.out = "failed"]
         = [worker[w] EXCEPT !.pc = "decide", !.out = "failed",
                             !.acked = worker[w].acked]
       /\ worker[w].acked \in BOOLEAN
  BY <1>0 DEF Work
<1>13. CASE StreamEnds(w) \/ PollCancel(w) \/ RuntimeSilent(w)
  <2>1. UNCHANGED started \/ Starts(Run(w))
    BY <1>13 DEF StreamEnds, PollCancel, RuntimeSilent
  <2>2. CASE Become(w, [worker[w] EXCEPT !.pc = "decide", !.out = "failed",
                                         !.acked = TRUE])
    BY <1>11, <2>1, <2>2
  <2>3. CASE StreamEnds(w)
             /\ Become(w, [worker[w] EXCEPT !.pc = "decide", !.out = "succeeded"])
    <3>1. started[Run(w)] > 0
      BY <1>0, <2>3 DEF StreamEnds, At, WorkerEarned
    <3> QED BY <1>11, <1>12, <2>1, <2>3, <3>1
  <2> QED BY <1>13, <2>2, <2>3 DEF StreamEnds, PollCancel, RuntimeSilent
<1>14. CASE RuntimeRefuses(w)
  <2>1. UNCHANGED started \/ Starts(Run(w))
    BY <1>14 DEF RuntimeRefuses, Run
  <2>2. CASE Goto(w, "retry")
    <3>1. /\ worker'[w].pc = "retry"
          /\ \A v \in Workers \ {w} : worker'[v] = worker[v]
      BY <2>2, GotoOnly
    <3>2. WorkerEarned(w)'
      BY <3>1 DEF WorkerEarned, At
    <3> QED BY <1>0, <2>1, <3>1, <3>2, StartedGrows, WorkerKeepsEarned
  <2>3. CASE Become(w, [worker[w] EXCEPT !.pc = "decide", !.out = "failed"])
    BY <1>11, <1>12, <2>1, <2>3
  <2> QED BY <1>14, <2>2, <2>3 DEF RuntimeRefuses
<1>15. CASE Decide(w)
  <2> DEFINE out == IF Cancelled(Run(w)) THEN "cancelled" ELSE worker[w].out
             r == [worker[w] EXCEPT !.pc = "finish", !.out = out]
  <2>1. UNCHANGED <<started, runs>> /\ At(w, "decide")
    BY <1>15 DEF Decide, store
  <2>2. Become(w, r)
    BY <1>15 DEF Decide
  <2>3. out \in {"succeeded", "failed", "cancelled"}
    BY <1>0 DEF Work
  <2>4. /\ out = "cancelled" => Cancelled(Run(w))
        /\ out = "succeeded" => started[Run(w)] > 0
    BY <1>0, <2>1 DEF WorkerEarned, At
  <2> HIDE DEF out
  <2>5. r \in Work /\ r.m = worker[w].m /\ r.pc = "finish" /\ r.out = out
    BY <1>0, <2>3, PcsAreWorkerPcs DEF Work
  <2> HIDE DEF r
  <2>6. WorkerEarned(w)'
    BY <2>1, <2>2, <2>4, <2>5, BecomeOnly
       DEF WorkerEarned, Run, At, Cancelled, Exists
  <2> QED BY <1>7, <2>1, <2>2, <2>5, <2>6
<1> QED BY <1>4, <1>5, <1>6, <1>8, <1>9, <1>10, <1>13, <1>14, <1>15 DEF WorkerStep

LEMMA FailureKeepsEarned ==
  ASSUME EarnedInv, WorkerType, NEW w \in Workers,
         WorkerCrashes(w) \/ WorkerShutDown(w) \/ StorageFails(w)
  PROVE  EarnedInv'
<1>0. worker[w] \in Work /\ WorkerEarned(w)
  BY DEF WorkerType, EarnedInv
<1>1. UNCHANGED <<runs, started>> /\ Earns
  <2>1. UNCHANGED <<runs, started>>
    BY DEF WorkerCrashes, WorkerShutDown, StorageFails, Fails, store
  <2> QED BY <2>1, SameRunsEarn
<1>2. \/ Rest(w)
      \/ \E pc \in {"handler", "release"} : Goto(w, pc)
      \/ Become(w, [worker[w] EXCEPT !.pc = "finish", !.out = "failed"])
  BY <1>0 DEF WorkerCrashes, WorkerShutDown, StorageFails, Work, WorkerPcs,
              Holding, InTry, Calling, BeforeLock
<1>3. CASE Become(w, [worker[w] EXCEPT !.pc = "finish", !.out = "failed"])
  <2> DEFINE r == [worker[w] EXCEPT !.pc = "finish", !.out = "failed"]
  <2>1. r.pc = "finish" /\ r.out = "failed"
    BY <1>0 DEF Work
  <2>2. Become(w, r)
    BY <1>3
  <2> HIDE DEF r
  <2>3. /\ worker'[w] = r
        /\ \A v \in Workers \ {w} : worker'[v] = worker[v]
    BY <2>2, BecomeOnly
  <2>4. WorkerEarned(w)'
    BY <2>1, <2>3 DEF WorkerEarned, At
  <2> QED BY <1>1, <2>3, <2>4, WorkerKeepsEarned
<1>4. CASE Rest(w) \/ \E pc \in {"handler", "release"} : Goto(w, pc)
  <2>1. /\ worker'[w].pc \in {"idle", "handler", "release"}
        /\ \A v \in Workers \ {w} : worker'[v] = worker[v]
    BY <1>4, RestMoves, GotoOnly
  <2> QED BY <1>1, <2>1, SilentStep DEF Answering
<1> QED BY <1>2, <1>3, <1>4

LEMMA RequestsEarn ==
  ASSUME EarnedInv, RunsType, "delete" \notin Requests, NEW c \in Clients,
         StartRequest(c)
  PROVE  Earns
<1>1. ~Delete(c)
  BY DEF Delete, Receive
<1>2. CASE Cancel(c)
  <2>1. PICK m \in Minutes :
          Open(m) /\ runs' = [runs EXCEPT ![m].cancel = TRUE]
    BY <1>2 DEF Cancel
  <2>2. runs[m] \in Record /\ Earned(runs[m], started[m])
    BY <2>1 DEF Open, Exists, RunsType, EarnedInv, OutcomesAreEarned, Earned
  <2> DEFINE r == [runs[m] EXCEPT !.cancel = TRUE]
  <2>3. /\ r \in Record /\ r.state = runs[m].state
        /\ r.cancel = TRUE /\ r.ack = runs[m].ack
    BY <2>2 DEF Record
  <2>4. runs'[m] = r /\ \A n \in Minutes \ {m} : runs'[n] = runs[n]
    BY <2>1 DEF RunsType
  <2> HIDE DEF r
  <2>5. r # NoRun /\ Earned(r, started[m])
    BY <2>2, <2>3, NoRunAssumption DEF Earned
  <2> QED BY <2>3, <2>4, <2>5
          DEF EarnedInv, OutcomesAreEarned, Earns, Earned, Cancelled, Exists
<1>3. CASE ~Cancel(c)
  <2>1. UNCHANGED runs
    BY <1>1, <1>3 DEF StartRequest, Create, Edit, Enable, Disable, SaveJob,
                      RequestRun, store
  <2> QED BY <2>1, SameRunsEarn
<1> QED BY <1>2, <1>3

LEMMA RequestsKeepRuns ==
  ASSUME "delete" \notin Requests, ClientType, NotDeleting, NEW c \in Clients,
         StartRequest(c)
  PROVE  NotDeleting'
<1>1. ~Delete(c)
  BY DEF Delete, Receive
<1>2. \A at : [IdleRequest EXCEPT !.pc = "publish", !.at = at,
                                  !.rev = job.rev + 1].pc = "publish"
  BY DEF IdleRequest
<1>3. [IdleRequest EXCEPT !.pc = "runDue", !.at = now, !.rev = job.rev].pc
        = "runDue"
  BY DEF IdleRequest
<1>4. IdleRequest.pc = "idle"
  BY DEF IdleRequest
<1>5. \A enabled : SaveJob(c, enabled) =>
        \E r : Serve(c, r) /\ r.pc \in {"idle", "publish"}
  BY <1>2, <1>4 DEF SaveJob, Reply
<1>6. \/ UNCHANGED client
      \/ \E r : Serve(c, r) /\ r.pc \in {"idle", "publish", "runDue"}
  BY <1>1, <1>3, <1>5
     DEF StartRequest, Create, Edit, Enable, Disable, RequestRun, Cancel
<1> QED BY <1>6 DEF Serve, NotDeleting, ClientType

OutcomeInv == TypeInv /\ NotDeleting /\ EarnedInv

LEMMA OutcomeInit == Init => OutcomeInv
<1> SUFFICES ASSUME Init PROVE NotDeleting /\ EarnedInv
  BY TypeInit DEF OutcomeInv
<1>1. \A w \in Workers : worker[w].pc = "idle"
  BY DEF Init, IdleWork
<1>2. \A m \in Minutes : ~Exists(m)
  BY DEF Init, Exists
<1>3. NotDeleting
  BY DEF Init, NotDeleting, IdleRequest
<1> QED BY <1>1, <1>2, <1>3
        DEF EarnedInv, WorkerEarned, OutcomesAreEarned, At

LEMMA OutcomeStep ==
  ASSUME "delete" \notin Requests
  PROVE  OutcomeInv /\ [Next]_vars => OutcomeInv'
<1> SUFFICES ASSUME OutcomeInv, [Next]_vars PROVE NotDeleting' /\ EarnedInv'
  BY TypeStep DEF OutcomeInv
<1>0. /\ EarnedInv /\ NotDeleting /\ StartedType /\ RunsType /\ WorkerType
      /\ ClientType
  BY TypeInvParts DEF OutcomeInv, StoreType, TypeInv, TypeOK
<1>1. ASSUME NEW s \in Scanners, StartScan(s) \/ ScanStep(s) \/ ScanAborts(s)
      PROVE  NotDeleting' /\ EarnedInv'
  <2>1. UNCHANGED <<worker, client, started>>
    BY <1>1 DEF StartScan, ScanStep, ScanAborts
  <2>2. UNCHANGED runs \/ CreateRun(scanner[s].m, "queued")
    BY <1>1 DEF StartScan, ListDue, ScanStep, ScanJob, ScanReady, ScanRun,
                ScanDue, ScanAborts, store
  <2>3. Earns
    BY <1>0, <2>2, SameRunsEarn, CreateEarns
  <2> QED BY <1>0, <2>1, <2>3, BystanderKeepsEarned DEF NotDeleting
<1>2. ASSUME NEW w \in Workers, NEW m \in Minutes, StartWork(w, m)
      PROVE  NotDeleting' /\ EarnedInv'
  <2>1. [IdleWork EXCEPT !.pc = "job", !.m = m, !.rev = ready[m]].pc = "job"
    BY DEF IdleWork
  <2>2. /\ worker'[w].pc \notin Answering
        /\ \A v \in Workers \ {w} : worker'[v] = worker[v]
    BY <1>0, <1>2, <2>1, BecomeOnly DEF StartWork, ListReady, Answering
  <2>3. UNCHANGED <<runs, started, client>>
    BY <1>2 DEF StartWork, ListReady, store
  <2> QED BY <1>0, <2>2, <2>3, SameRunsEarn, SilentStep DEF NotDeleting
<1>3. ASSUME NEW w \in Workers, WorkerStep(w) PROVE NotDeleting' /\ EarnedInv'
  BY <1>0, <1>3, WorkerStepKeepsEarned DEF WorkerStep, NotDeleting
<1>4. ASSUME NEW w \in Workers,
             WorkerCrashes(w) \/ WorkerShutDown(w) \/ StorageFails(w)
      PROVE  NotDeleting' /\ EarnedInv'
  <2>1. UNCHANGED client
    BY <1>4 DEF WorkerCrashes, WorkerShutDown, StorageFails, Fails
  <2> QED BY <1>0, <1>4, <2>1, FailureKeepsEarned DEF NotDeleting
<1>5. ASSUME NEW c \in Clients, StartRequest(c) PROVE NotDeleting' /\ EarnedInv'
  BY <1>0, <1>5, RequestsEarn, RequestsKeepRuns, BystanderKeepsEarned
     DEF StartRequest
<1>6. ASSUME NEW c \in Clients, ClientStep(c) PROVE NotDeleting' /\ EarnedInv'
  <2>1. Publish(c) \/ PublishRunNow(c) \/ CreateQueued(c)
    BY <1>0, <1>6 DEF ClientStep, ListKeys, DeleteJob, DeleteLock, DeleteRuns,
                      Pending, NotDeleting
  <2>2. UNCHANGED <<worker, started>>
    BY <1>6 DEF ClientStep
  <2>3. UNCHANGED runs \/ CreateRun(RunMinute(c), "queued")
    BY <2>1 DEF Publish, PublishRunNow, CreateQueued
  <2>4. NotDeleting'
    BY <1>0, <2>1 DEF Publish, PublishRunNow, CreateQueued, Serve, Reply,
                      IdleRequest, NotDeleting, ClientType, Request
  <2> QED BY <1>0, <2>2, <2>3, <2>4, SameRunsEarn, CreateEarns,
             BystanderKeepsEarned
<1>7. ASSUME NEW c \in Clients, ClientAborts(c) PROVE NotDeleting' /\ EarnedInv'
  <2>1. UNCHANGED <<runs, worker, started>>
    BY <1>7 DEF ClientAborts, store
  <2>2. NotDeleting'
    BY <1>0, <1>7
       DEF ClientAborts, Reply, Serve, IdleRequest, NotDeleting, ClientType
  <2> QED BY <1>0, <2>1, <2>2, SameRunsEarn, BystanderKeepsEarned
<1>8. ASSUME Tick \/ UNCHANGED vars PROVE NotDeleting' /\ EarnedInv'
  <2>1. UNCHANGED <<runs, worker, client, started>>
    BY <1>8 DEF Tick, vars, store
  <2> QED BY <1>0, <2>1, SameRunsEarn, BystanderKeepsEarned DEF NotDeleting
<1> QED BY <1>1, <1>2, <1>3, <1>4, <1>5, <1>6, <1>7, <1>8 DEF Next, Quiet

(* An outcome in the history was earned, whatever crashes, overruns its      *)
(* lease or is delivered late: "succeeded" was produced by a stream that the *)
(* Runtime opened and acknowledged, "cancelled" was asked for in the Studio. *)
(* Deleting a job removes the flag a running activation has already read.    *)
THEOREM OutcomesEarned ==
  ASSUME "delete" \notin Requests
  PROVE  Spec => []OutcomesAreEarned
<1>1. OutcomeInv => OutcomesAreEarned
  BY DEF OutcomeInv, EarnedInv
<1> QED BY <1>1, OutcomeInit, OutcomeStep, PTL DEF Spec

-----------------------------------------------------------------------------
(* Occurrences.                                                              *)

Live        == job.present /\ job.enabled
Scanning(s) == scanner[s].pc # "idle"
Obliged(m)  == Live /\ m \in Occurrences[job.rev] /\ m > job.at

(* What a pointer, or whoever holds it, may say: a revision that was saved,  *)
(* and of the current one only minutes after it was.                         *)
Fits(r, m) == r <= job.rev /\ (r = job.rev /\ r > 0 => m > job.at)

PointersFit == \A m \in Minutes : Fits(due[m], m) /\ Fits(ready[m], m)

ActorsFit ==
  /\ \A w \in Workers : Fits(worker[w].rev, Run(w))
  /\ \A s \in Scanners : Fits(scanner[s].rev, scanner[s].m)
  /\ \A c \in Clients : client[c].pc \in {"publish", "runDue"} =>
       client[c].at = now /\ Fits(client[c].rev, now + 1)

OnTime ==
  /\ job.at <= now
  /\ \A m \in scanned : m <= now
  /\ \A m \in Minutes : ready[m] # 0 => m <= now
  /\ \A s \in Scanners : Scanning(s) => scanner[s].m = now

(* A job that is being deleted is gone for good before its runs are.         *)
GoneInv ==
  /\ job.present => job.rev > 0
  /\ \A c \in Clients :
       /\ client[c].pc \in {"delJob", "delLock", "delRuns"} => job.rev > 0
       /\ client[c].pc \in {"delLock", "delRuns"} => ~job.present

(* Where the current revision has a pointer for this minute, everyone who    *)
(* scans it has that pointer.                                                *)
MinuteInv ==
  /\ \A s \in Scanners :
       Scanning(s) /\ scanner[s].rev = job.rev /\ job.rev > 0 =>
         due[now] = job.rev
  /\ Live /\ job.at < now /\ due[now] = job.rev =>
       /\ ready[now] \in {0, job.rev}
       /\ \A s \in Scanners : Scanning(s) => scanner[s].rev = job.rev

KeptOccurrences ==
  /\ \A m \in Minutes : Obliged(m) /\ m <= now => due[m] = job.rev
  /\ \A m \in scanned : Obliged(m) => Exists(m)
  /\ \A s \in Scanners :
       scanner[s].pc = "due" /\ Live /\ scanner[s].rev = job.rev =>
         Exists(scanner[s].m)

(* Somebody is about to store the pointer of the next occurrence.            *)
Promised ==
  \/ \E c \in Clients : client[c].pc = "publish" /\ client[c].rev = job.rev
  \/ \E s \in Scanners : Scanning(s) /\ scanner[s].rev = job.rev
  \/ Obliged(now) /\ now \notin scanned

ChainInv ==
  Live /\ NextTime(job.rev, now) # 0 =>
    due[NextTime(job.rev, now)] = job.rev \/ Promised

ScheduleInv ==
  /\ TypeInv /\ PointersFit /\ ActorsFit /\ OnTime /\ GoneInv
  /\ MinuteInv /\ KeptOccurrences /\ ChainInv

-----------------------------------------------------------------------------
(* The next occurrence is the least of the later ones.                       *)

LEMMA LeastMinute ==
  ASSUME NEW S \in SUBSET Nat, S # {}
  PROVE  \E m \in S : \A k \in S : m <= k
<1>1. PICK R : IsWellFoundedOn(R, Nat)
               /\ \A x, y \in Nat : <<y, x>> \in R <=> y < x
  <2>1. \A x, y \in Nat : <<y, x>> \in OpToRel(<, Nat) <=> y < x
    BY DEF OpToRel
  <2> QED BY <2>1, NatLessThanWellFounded, Zenon
<1>2. PICK x \in S : \A y \in S : ~(<<y, x>> \in R)
  BY <1>1, WFMin
<1>3. ASSUME NEW k \in S PROVE x <= k
  <2>1. x \in Nat /\ k \in Nat
    OBVIOUS
  <2>2. ~(k < x)
    BY <1>1, <1>2, <2>1, Zenon
  <2> QED BY <2>1, <2>2
<1> QED BY <1>3

LEMMA NextTimeIsNext ==
  ASSUME NEW r \in Revisions, NEW m \in Nat
  PROVE  \/ /\ NextTime(r, m) = 0
            /\ \A o \in Occurrences[r] : o <= m
         \/ /\ NextTime(r, m) \in Occurrences[r]
            /\ NextTime(r, m) > m
            /\ \A o \in Occurrences[r] : o > m => NextTime(r, m) <= o
<1> DEFINE later == {o \in Occurrences[r] : o > m}
<1>1. Occurrences[r] \subseteq Minutes \ {0} /\ Minutes \subseteq Nat
  BY BoundsAssumption, OccurrencesAssumption DEF Minutes
<1>2. CASE later = {}
  <2>1. NextTime(r, m) = 0
    BY <1>2 DEF NextTime
  <2>2. \A o \in Occurrences[r] : o \in Nat /\ ~(o > m)
    BY <1>1, <1>2
  <2> QED BY <2>1, <2>2
<1>3. CASE later # {}
  <2>1. later \in SUBSET Nat
    BY <1>1
  <2>2. \E o \in later : \A p \in later : o <= p
    BY <1>3, <2>1, LeastMinute
  <2>3. /\ NextTime(r, m) \in later
        /\ \A p \in later : NextTime(r, m) <= p
    BY <1>3, <2>2 DEF NextTime
  <2> QED BY <2>3
<1> QED BY <1>2, <1>3

LEMMA OccurrenceType ==
  ASSUME NEW r \in Revisions, NEW m \in Occurrences[r]
  PROVE  m \in Minutes /\ m \in Nat /\ m # 0
BY BoundsAssumption, OccurrencesAssumption DEF Minutes

-----------------------------------------------------------------------------
(* What a step does to the due pointers: newer revisions replace older ones, *)
(* and the current revision's pointers appear at its occurrences or later.   *)

Raises ==
  \A n \in Minutes :
    \/ due'[n] = due[n]
    \/ /\ due'[n] > due[n] /\ Fits(due'[n], n)
       /\ due'[n] = job.rev =>
            n > now \/ (job.rev \in Revisions /\ n \in Occurrences[job.rev])

LEMMA PutDueMoves ==
  ASSUME DueType, NEW r \in 0..MaxRevision, NEW n, PutDue(n, r)
  PROVE  /\ \A m \in Minutes : \/ due'[m] = due[m]
                               \/ m = n /\ due'[m] = r /\ r > due[m]
         /\ n \in Minutes => due'[n] >= r
BY DEF DueType, PutDue

LEMMA PutNextDueMoves ==
  ASSUME DueType, NEW r \in 0..MaxRevision, NEW m \in Minutes, PutNextDue(r, m)
  PROVE  /\ \A n \in Minutes :
              \/ due'[n] = due[n]
              \/ /\ r \in Revisions /\ n \in Occurrences[r] /\ n > m
                 /\ due'[n] = r /\ r > due[n]
         /\ r \in Revisions /\ NextTime(r, m) # 0 => due'[NextTime(r, m)] >= r
<1>1. CASE NextTime(r, m) = 0
  BY <1>1 DEF PutNextDue
<1>2. CASE NextTime(r, m) # 0
  <2>1. PutDue(NextTime(r, m), r)
    BY <1>2 DEF PutNextDue
  <2>2. CASE r \in Revisions
    <3>1. NextTime(r, m) \in Occurrences[r] /\ NextTime(r, m) > m
      BY <1>2, <2>2, NextTimeIsNext DEF Minutes
    <3>2. NextTime(r, m) \in Minutes
      BY <2>2, <3>1, OccurrenceType
    <3> QED BY <2>1, <2>2, <3>1, <3>2, PutDueMoves
  <2>3. CASE r \notin Revisions
    <3>1. r = 0
      BY <2>3 DEF Revisions
    <3>2. \A n \in Minutes : due'[n] = due[n]
      BY <2>1, <3>1, PutDueMoves DEF DueType
    <3> QED BY <2>3, <3>2
  <2> QED BY <2>2, <2>3
<1> QED BY <1>1, <1>2

LEMMA NextDueRaises ==
  ASSUME DueType, JobType, NEW r \in 0..MaxRevision, NEW m \in Minutes,
         PutNextDue(r, m), Fits(r, m + 1)
  PROVE  Raises
<1> SUFFICES ASSUME NEW n \in Minutes, due'[n] # due[n]
             PROVE  /\ due'[n] > due[n] /\ Fits(due'[n], n)
                    /\ due'[n] = job.rev =>
                         n > now \/ (job.rev \in Revisions
                                     /\ n \in Occurrences[job.rev])
  BY DEF Raises
<1>1. /\ r \in Revisions /\ n \in Occurrences[r] /\ n > m
      /\ due'[n] = r /\ r > due[n]
  BY PutNextDueMoves
<1>2. Fits(r, n)
  BY <1>1 DEF Fits, Minutes, JobType
<1> QED BY <1>1, <1>2

LEMMA ScheduleTypes ==
  ASSUME ScheduleInv
  PROVE  /\ StoreType /\ JobType /\ DueType /\ ReadyType /\ RunsType
         /\ ScannerType /\ WorkerType /\ ClientType
         /\ now \in Minutes /\ now \in Nat /\ scanned \subseteq Minutes
         /\ job.rev \in 0..MaxRevision /\ job.rev \in Nat /\ job.at \in Nat
         /\ job.present \in BOOLEAN /\ job.enabled \in BOOLEAN
         /\ job.rev > 0 => job.rev \in Revisions
         /\ \A m \in Minutes : m \in Nat /\ due[m] \in Nat /\ ready[m] \in Nat
<1>1. /\ StoreType /\ ScannerType /\ WorkerType /\ ClientType
      /\ now \in Minutes
  BY TypeInvParts DEF ScheduleInv, CountersType
<1>2. JobType /\ DueType /\ ReadyType /\ RunsType
  BY <1>1 DEF StoreType
<1>3. /\ job.rev \in 0..MaxRevision /\ job.at \in Minutes
      /\ job.present \in BOOLEAN /\ job.enabled \in BOOLEAN
  BY <1>2 DEF JobType
<1>4. \A m \in Minutes : m \in Nat /\ due[m] \in Nat /\ ready[m] \in Nat
  BY <1>2, BoundsAssumption DEF Minutes, DueType, ReadyType
<1>5. scanned \subseteq Minutes
  BY <1>1 DEF ScannerType
<1>6. /\ job.rev \in Nat /\ job.at \in Nat /\ now \in Nat
      /\ job.rev > 0 => job.rev \in Revisions
  BY <1>1, <1>3, BoundsAssumption DEF Minutes, Revisions
<1> QED BY <1>1, <1>2, <1>3, <1>4, <1>5, <1>6

(* A step that is nobody's scan and leaves the job and the clock.            *)
LEMMA OthersKeep ==
  ASSUME ScheduleInv, DueType', ReadyType', UNCHANGED <<now, scanner, scanned>>,
         job'.rev = job.rev, job'.at = job.at, Live' => Live,
         Raises, \A m \in Minutes : ready'[m] \in {0, ready[m]},
         Live => \A m \in Minutes : Exists(m) => Exists(m)',
         \/ \A c \in Clients :
              client[c].pc = "publish" /\ client[c].rev = job.rev =>
                client'[c].pc = "publish" /\ client'[c].rev = client[c].rev
         \/ job.rev \in Revisions /\ NextTime(job.rev, now) # 0 =>
              due'[NextTime(job.rev, now)] = job.rev
  PROVE  PointersFit' /\ OnTime' /\ MinuteInv' /\ KeptOccurrences' /\ ChainInv'
<1>0. /\ PointersFit /\ OnTime /\ MinuteInv /\ KeptOccurrences /\ ChainInv
      /\ GoneInv /\ ActorsFit
  BY DEF ScheduleInv
<1> USE ScheduleTypes
<1>1. \A r \in Nat : \A m : Fits(r, m)' <=> Fits(r, m)
  BY DEF Fits
<1>2. PointersFit'
  <2>1. ASSUME NEW m \in Minutes PROVE Fits(due'[m], m) /\ Fits(ready'[m], m)
    <3>1. Fits(due'[m], m)
      BY <1>0 DEF PointersFit, Raises
    <3>2. Fits(0, m)
      BY DEF Fits
    <3> QED BY <1>0, <3>1, <3>2 DEF PointersFit
  <2>2. \A m \in Minutes : due'[m] \in Nat /\ ready'[m] \in Nat
    BY BoundsAssumption DEF DueType, ReadyType
  <2> QED BY <1>1, <2>1, <2>2 DEF PointersFit
<1>3. OnTime'
  BY <1>0 DEF OnTime, Scanning
<1>4. ASSUME NEW m \in Minutes, Live, m <= now, due'[m] = job.rev
      PROVE  due[m] = job.rev
  <2>1. CASE due'[m] # due[m]
    <3>1. Obliged(m)
      BY <1>0, <1>4, <2>1 DEF Obliged, Raises, Fits, GoneInv, Live
    <3> QED BY <1>0, <1>4, <3>1 DEF KeptOccurrences
  <2> QED BY <1>4, <2>1
<1>5. ASSUME NEW m \in Minutes, due[m] = job.rev PROVE due'[m] = job.rev
  <2>1. due'[m] \in Nat
    BY BoundsAssumption DEF DueType
  <2>2. due'[m] > due[m] => due'[m] <= job.rev
    BY DEF Raises, Fits
  <2> QED BY <1>5, <2>1, <2>2 DEF Raises
<1>6. \A m \in Minutes : Obliged(m)' => Obliged(m)
  BY DEF Obliged
<1>7. MinuteInv'
  <2>1. \A s \in Scanners :
          Scanning(s)' /\ scanner'[s].rev = job'.rev /\ job'.rev > 0 =>
            due'[now'] = job'.rev
    BY <1>0, <1>5 DEF MinuteInv, Scanning
  <2>2. ASSUME Live', job'.at < now', due'[now'] = job'.rev
        PROVE  /\ ready'[now'] \in {0, job'.rev}
               /\ \A s \in Scanners : Scanning(s)' => scanner'[s].rev = job'.rev
    <3>1. due[now] = job.rev /\ Live /\ job.at < now
      BY <1>4, <2>2
    <3> QED BY <1>0, <3>1 DEF MinuteInv, Scanning
  <2> QED BY <2>1, <2>2 DEF MinuteInv
<1>8. KeptOccurrences'
  <2>1. \A m \in Minutes : Obliged(m)' /\ m <= now' => due'[m] = job'.rev
    BY <1>0, <1>5, <1>6 DEF KeptOccurrences
  <2>2. \A m \in scanned' : Obliged(m)' => Exists(m)'
    BY <1>0, <1>6 DEF KeptOccurrences, Obliged
  <2>3. \A s \in Scanners :
          scanner'[s].pc = "due" /\ Live' /\ scanner'[s].rev = job'.rev =>
            Exists(scanner[s].m)'
    BY <1>0, ScanFields DEF KeptOccurrences
  <2> QED BY <2>1, <2>2, <2>3 DEF KeptOccurrences
<1>9. ChainInv'
  <2> SUFFICES ASSUME Live', NextTime(job.rev, now) # 0
               PROVE  due'[NextTime(job.rev, now)] = job.rev \/ Promised'
    BY DEF ChainInv, NextTime
  <2>1. Live /\ job.rev \in Revisions
    BY <1>0 DEF GoneInv, Live
  <2>2. NextTime(job.rev, now) \in Minutes
    BY <2>1, NextTimeIsNext, OccurrenceType
  <2>3. CASE due[NextTime(job.rev, now)] = job.rev
    BY <1>5, <2>2, <2>3
  <2>4. CASE Promised
    <3>1. Obliged(now) => Obliged(now)'
      BY <2>1 DEF Obliged
    <3>2. CASE Obliged(now) /\ now \notin scanned
      BY <3>1, <3>2 DEF Promised
    <3>3. CASE \E s \in Scanners : Scanning(s) /\ scanner[s].rev = job.rev
      BY <3>3 DEF Promised, Scanning
    <3>4. CASE \E c \in Clients : client[c].pc = "publish"
                                  /\ client[c].rev = job.rev
      BY <2>1, <3>4 DEF Promised
    <3> QED BY <2>4, <3>2, <3>3, <3>4 DEF Promised
  <2> QED BY <1>0, <2>1, <2>3, <2>4 DEF ChainInv
<1> QED BY <1>2, <1>3, <1>7, <1>8, <1>9

(* A worker keeps the pointer it executes until it rests.                    *)
PointerKept(w) ==
  /\ \/ worker'[w].m = worker[w].m /\ worker'[w].rev = worker[w].rev
     \/ worker'[w].pc = "idle" /\ worker'[w].m = 0 /\ worker'[w].rev = 0
  /\ \A v \in Workers \ {w} : worker'[v] = worker[v]

LEMMA GotoKeepsPointer ==
  ASSUME WorkerType, NEW w \in Workers, NEW pc, Goto(w, pc)
  PROVE  PointerKept(w)
<1>1. worker[w] \in Work
  BY DEF WorkerType
<1> QED BY <1>1 DEF WorkerType, Goto, Work, PointerKept

LEMMA BecomeKeepsPointer ==
  ASSUME WorkerType, NEW w \in Workers, NEW r, Become(w, r),
         r.m = worker[w].m, r.rev = worker[w].rev
  PROVE  PointerKept(w)
BY DEF WorkerType, Become, PointerKept

LEMMA RestKeepsPointer ==
  ASSUME WorkerType, NEW w \in Workers, Rest(w) PROVE PointerKept(w)
<1>1. IdleWork.pc = "idle" /\ IdleWork.m = 0 /\ IdleWork.rev = 0
  BY DEF IdleWork
<1> HIDE DEF IdleWork
<1> QED BY <1>1 DEF WorkerType, Rest, Become, PointerKept

LEMMA WorkerKeepsPointer ==
  ASSUME WorkerType, NEW w \in Workers, WorkerStep(w) PROVE PointerKept(w)
<1>0. worker[w] \in Work
  BY DEF WorkerType
<1>1. CASE \/ Stale(w) \/ RecordSkipped(w) \/ CloseOwn(w) \/ CreateOwn(w)
           \/ Verify(w) \/ Ready(w) \/ Handle(w) \/ MarkAbandoned(w)
           \/ Claim(w) \/ Attempt(w) \/ Finish(w) \/ RuntimeAccepts(w)
           \/ MarkAcknowledged(w)
  BY <1>1, GotoKeepsPointer
     DEF Stale, RecordSkipped, CloseOwn, CreateOwn, Verify, Ready, Handle,
         MarkAbandoned, Claim, Attempt, Finish, WriteOwn, RuntimeAccepts,
         MarkAcknowledged
<1>2. CASE DropReady(w) \/ Release(w)
  BY <1>2, RestKeepsPointer DEF DropReady, Release
<1>3. CASE GetJob(w)
  BY <1>0, <1>3, BecomeKeepsPointer DEF GetJob, Work
<1>4. CASE AcquireLock(w)
  BY <1>0, <1>4, BecomeKeepsPointer, GotoKeepsPointer, RestKeepsPointer
     DEF AcquireLock, Work
<1>5. CASE WriteNextDue(w) \/ Retry(w)
  BY <1>0, <1>5, BecomeKeepsPointer, GotoKeepsPointer
     DEF WriteNextDue, Retry, WriteOwn, Work
<1>6. CASE CheckCancel(w)
  BY <1>0, <1>6, BecomeKeepsPointer, GotoKeepsPointer DEF CheckCancel, Work
<1>7. CASE RuntimeRefuses(w)
  BY <1>0, <1>7, BecomeKeepsPointer, GotoKeepsPointer DEF RuntimeRefuses, Work
<1>8. CASE RuntimeSilent(w) \/ StreamEnds(w) \/ PollCancel(w)
  BY <1>0, <1>8, BecomeKeepsPointer
     DEF RuntimeSilent, StreamEnds, PollCancel, Work
<1>9. CASE Decide(w)
  BY <1>0, <1>9, BecomeKeepsPointer DEF Decide, Work
<1> QED BY <1>1, <1>2, <1>3, <1>4, <1>5, <1>6, <1>7, <1>8, <1>9 DEF WorkerStep

LEMMA FitsLater ==
  ASSUME JobType, NEW r \in 0..MaxRevision, NEW m \in Minutes, Fits(r, m)
  PROVE  Fits(r, m + 1)
BY BoundsAssumption DEF Fits, JobType, Minutes

LEMMA SameDueRaises == UNCHANGED due => Raises
BY DEF Raises

(* What the actors hold still fits when one of them changes.                 *)
LEMMA WorkersFit ==
  ASSUME ScheduleInv, NEW w \in Workers, PointerKept(w),
         UNCHANGED <<now, job, scanner, client>>
  PROVE  ActorsFit' /\ GoneInv'
<1>0. ActorsFit /\ GoneInv
  BY DEF ScheduleInv
<1>1. Fits(0, 0)
  BY ScheduleTypes DEF Fits
<1>2. ASSUME NEW v \in Workers PROVE Fits(worker'[v].rev, worker'[v].m)
  BY <1>0, <1>1 DEF ActorsFit, PointerKept, Run
<1> QED BY <1>0, <1>2 DEF ActorsFit, GoneInv, Fits, Run

LEMMA WorkerKeepsSchedule ==
  ASSUME ScheduleInv, TypeInv', NEW w \in Workers, WorkerStep(w)
  PROVE  ScheduleInv'
<1> USE ScheduleTypes
<1>1. /\ UNCHANGED <<now, job, scanner, client, scanned>>
      /\ UNCHANGED due \/ PutNextDue(worker[w].rev, Run(w))
      /\ UNCHANGED ready \/ DeleteReady(Run(w))
  BY DEF WorkerStep, GetJob, Stale, DropReady, AcquireLock, RecordSkipped,
         WriteNextDue, MarkAbandoned, CreateOwn, CloseOwn, Claim, CheckCancel,
         Attempt, RuntimeAccepts, RuntimeRefuses, RuntimeSilent,
         MarkAcknowledged, StreamEnds, PollCancel, Retry, Decide, Finish, Verify,
         Ready, Handle, Release, store
<1>2. ActorsFit /\ DueType' /\ ReadyType'
  BY DEF ScheduleInv, TypeInv, TypeOK, DueType, ReadyType
<1>3. ActorsFit' /\ GoneInv'
  BY <1>1, WorkerKeepsPointer, WorkersFit
<1>4. \A m \in Minutes : Exists(m) => Exists(m)'
  BY WorkerStepRuns DEF RunStays
<1>5. Raises
  BY <1>1, <1>2, SameDueRaises, NextDueRaises, FitsLater, WorkFields
     DEF ActorsFit
<1>6. \A m \in Minutes : ready'[m] \in {0, ready[m]}
  BY <1>1 DEF DeleteReady, ReadyType
<1>7. Live' => Live
  BY <1>1 DEF Live
<1> QED BY <1>1, <1>2, <1>3, <1>4, <1>5, <1>6, <1>7, OthersKeep DEF ScheduleInv

(* An activation is listed, crashes, is shut down or meets a failed call.    *)
LEMMA ActivationKeepsSchedule ==
  ASSUME ScheduleInv, TypeInv', NEW w \in Workers,
         \/ \E m \in Minutes : StartWork(w, m)
         \/ WorkerCrashes(w) \/ WorkerShutDown(w) \/ StorageFails(w)
  PROVE  ScheduleInv'
<1> USE ScheduleTypes
<1>0. /\ ActorsFit /\ PointersFit /\ GoneInv /\ DueType' /\ ReadyType'
      /\ UNCHANGED <<now, store, scanner, client, scanned>>
  <2>1. UNCHANGED <<now, store, scanner, client, scanned>>
    BY DEF StartWork, ListReady, WorkerCrashes, WorkerShutDown, StorageFails,
           Fails
  <2>2. DueType' /\ ReadyType'
    BY DEF TypeInv, TypeOK, DueType, ReadyType
  <2> QED BY <2>1, <2>2 DEF ScheduleInv
<1>1. ActorsFit' /\ GoneInv'
  <2>1. ASSUME NEW m \in Minutes, StartWork(w, m) PROVE ActorsFit' /\ GoneInv'
    <3> DEFINE r == [IdleWork EXCEPT !.pc = "job", !.m = m, !.rev = ready[m]]
    <3>1. r.m = m /\ r.rev = ready[m]
      BY DEF IdleWork
    <3>2. Become(w, r)
      BY <2>1 DEF StartWork, ListReady
    <3> HIDE DEF r
    <3>3. \A v \in Workers : Fits(worker'[v].rev, worker'[v].m)
      BY <1>0, <3>1, <3>2, BecomeOnly DEF ActorsFit, PointersFit, Run
    <3> QED BY <1>0, <3>3 DEF ActorsFit, GoneInv, Fits, Run, store
  <2>2. CASE WorkerCrashes(w) \/ WorkerShutDown(w) \/ StorageFails(w)
    <3>1. worker[w] \in Work
      BY DEF WorkerType
    <3>2. \/ Rest(w) \/ \E pc : Goto(w, pc)
          \/ Become(w, [worker[w] EXCEPT !.pc = "finish", !.out = "failed"])
      BY <2>2, <3>1 DEF WorkerCrashes, WorkerShutDown, StorageFails, Work,
                        WorkerPcs, Holding, InTry, Calling, BeforeLock
    <3>3. PointerKept(w)
      BY <3>1, <3>2, RestKeepsPointer, GotoKeepsPointer, BecomeKeepsPointer
         DEF Work
    <3> QED BY <1>0, <3>3, WorkersFit DEF store
  <2> QED BY <2>1, <2>2
<1>2. UNCHANGED <<due, ready, job, runs>>
  BY <1>0 DEF store
<1>3. /\ \A m \in Minutes : Exists(m) => Exists(m)'
      /\ Live' => Live
  BY <1>2 DEF Exists, Live
<1> QED BY <1>0, <1>1, <1>2, <1>3, SameDueRaises, OthersKeep DEF ScheduleInv

-----------------------------------------------------------------------------
(* Studio requests.                                                          *)

LEMMA ClientsFit ==
  ASSUME ScheduleInv, NEW c \in Clients, NEW r, Serve(c, r),
         UNCHANGED <<now, worker, scanner>>,
         job'.rev = job.rev, job'.at = job.at, job'.present => job.present,
         r.pc \in {"publish", "runDue"} => r.at = now /\ Fits(r.rev, now + 1),
         r.pc \in {"delJob", "delLock", "delRuns"} => job.rev > 0,
         r.pc \in {"delLock", "delRuns"} => ~job'.present
  PROVE  ActorsFit' /\ GoneInv'
<1>0. ActorsFit /\ GoneInv /\ ClientType
  BY ScheduleTypes DEF ScheduleInv
<1>1. client'[c] = r /\ \A d \in Clients \ {c} : client'[d] = client[d]
  BY <1>0 DEF Serve, ClientType
<1>2. ASSUME NEW d \in Clients, client'[d].pc \in {"publish", "runDue"}
      PROVE  client'[d].at = now /\ Fits(client'[d].rev, now + 1)
  BY <1>0, <1>1, <1>2 DEF ActorsFit
<1>3. ActorsFit'
  BY <1>0, <1>2 DEF ActorsFit, Fits, Run
<1>4. GoneInv'
  BY <1>0, <1>1 DEF GoneInv
<1> QED BY <1>3, <1>4

LEMMA IdleIsIdle == IdleRequest.pc = "idle"
BY DEF IdleRequest

(* A save starts a revision that has no pointer yet, and promises one.       *)
LEMMA SaveKeepsSchedule ==
  ASSUME ScheduleInv, TypeInv', "slowClient" \notin Faults, NEW c \in Clients,
         client[c].pc = "idle", job.present \/ job.rev = 0,
         NEW enabled \in BOOLEAN, SaveJob(c, enabled),
         UNCHANGED <<now, scanner, worker, scanned>>
  PROVE  ScheduleInv'
<1> USE ScheduleTypes
<1>0. /\ PointersFit /\ OnTime /\ MinuteInv /\ KeptOccurrences /\ ChainInv
      /\ GoneInv /\ ActorsFit
  BY DEF ScheduleInv
<1> DEFINE r == [IdleRequest EXCEPT !.pc = "publish", !.at = now,
                                    !.rev = job.rev + 1]
<1>1. /\ job' = [present |-> TRUE, enabled |-> enabled, rev |-> job.rev + 1,
                 at |-> now]
      /\ job.rev < MaxRevision
      /\ enabled => Serve(c, r)
      /\ ~enabled => Serve(c, IdleRequest)
      /\ UNCHANGED <<due, ready, runs>>
  BY DEF SaveJob, Reply
<1>2. r.pc = "publish" /\ r.at = now /\ r.rev = job.rev + 1
  BY DEF IdleRequest
<1> HIDE DEF r
<1>3. /\ job'.rev = job.rev + 1 /\ job'.at = now /\ job'.present
      /\ job'.enabled = enabled
  BY <1>1
<1>4. \A n \in Nat : \A m : Fits(n, m) => Fits(n, m)'
  BY <1>3 DEF Fits
<1>5. PointersFit'
  <2>1. \A m \in Minutes : Fits(due[m], m)' /\ Fits(ready[m], m)'
    BY <1>0, <1>1, <1>4 DEF PointersFit
  <2> QED BY <2>1 DEF PointersFit
<1>6. client' = [client EXCEPT ![c] = IF enabled THEN r ELSE IdleRequest]
  BY <1>1 DEF Serve
<1>7. /\ \A d \in Clients \ {c} : client'[d] = client[d]
      /\ client'[c] = IF enabled THEN r ELSE IdleRequest
  BY <1>6 DEF ClientType
<1>8. ActorsFit'
  <2>1. \A w \in Workers : worker[w].rev \in Nat
    BY WorkFields, BoundsAssumption
  <2>2. \A w \in Workers : Fits(worker[w].rev, Run(w))'
    BY <1>0, <1>3, <2>1 DEF ActorsFit, Fits, Run
  <2>3. \A s \in Scanners : scanner[s].rev \in Nat
    BY ScanFields, BoundsAssumption
  <2>4. \A s \in Scanners : Fits(scanner[s].rev, scanner[s].m)'
    BY <1>0, <1>3, <2>3 DEF ActorsFit, Fits
  <2>5. ASSUME NEW d \in Clients, client'[d].pc \in {"publish", "runDue"}
        PROVE  /\ client'[d].at = now
               /\ client'[d].rev <= job'.rev
               /\ now + 1 > job'.at
    <3>1. CASE d = c
      BY <1>2, <1>3, <1>7, <2>5, <3>1, IdleIsIdle
    <3>2. CASE d # c
      <4>1. client[d].rev \in Nat
        BY ClientFields, BoundsAssumption
      <4> QED BY <1>0, <1>3, <1>7, <2>5, <3>2, <4>1 DEF ActorsFit, Fits
    <3> QED BY <3>1, <3>2
  <2>6. \A d \in Clients : client'[d].pc \in {"publish", "runDue"} =>
          client'[d].at = now' /\ Fits(client[d].rev, now + 1)'
    BY <2>5 DEF Fits
  <2> QED BY <2>2, <2>4, <2>6 DEF ActorsFit
<1>9. GoneInv'
  BY <1>0, <1>2, <1>3, <1>7, IdleIsIdle DEF GoneInv
<1>10. OnTime'
  BY <1>0, <1>1, <1>3 DEF OnTime, Scanning
<1>11. \A m \in Minutes : ~(Obliged(m)' /\ m <= now)
  BY <1>3 DEF Obliged
<1>12. MinuteInv'
  <2>1. \A s \in Scanners : scanner[s].rev # job'.rev
    <3>1. \A s \in Scanners : scanner[s].rev \in Nat /\ scanner[s].rev <= job.rev
      BY <1>0, ScanFields, BoundsAssumption DEF ActorsFit, Fits
    <3> QED BY <1>3, <3>1
  <2> QED BY <1>3, <2>1 DEF MinuteInv, Scanning
<1>13. KeptOccurrences'
  <2>1. \A s \in Scanners : scanner[s].rev # job'.rev
    <3>1. \A s \in Scanners : scanner[s].rev \in Nat /\ scanner[s].rev <= job.rev
      BY <1>0, ScanFields, BoundsAssumption DEF ActorsFit, Fits
    <3> QED BY <1>3, <3>1
  <2> QED BY <1>0, <1>11, <2>1 DEF KeptOccurrences, OnTime
<1>14. ChainInv'
  <2>1. Live' => Promised'
    BY <1>2, <1>3, <1>7 DEF Live, Promised
  <2> QED BY <2>1 DEF ChainInv
<1> QED BY <1>5, <1>8, <1>9, <1>10, <1>12, <1>13, <1>14 DEF ScheduleInv

LEMMA StoreTypesLater ==
  ASSUME TypeInv' PROVE DueType' /\ ReadyType' /\ RunsType'
BY DEF TypeInv, TypeOK, DueType, ReadyType, RunsType

(* A request that neither touches the pointers nor ends a promise.           *)
LEMMA RequestKeepsSchedule ==
  ASSUME ScheduleInv, TypeInv', ActorsFit', GoneInv',
         NEW c \in Clients, NEW r, Serve(c, r), client[c].pc # "publish",
         UNCHANGED <<now, due, ready, scanner, scanned>>,
         job'.rev = job.rev, job'.at = job.at, Live' => Live,
         Live => \A m \in Minutes : Exists(m) => Exists(m)'
  PROVE  ScheduleInv'
<1>1. \A d \in Clients : d # c => client'[d] = client[d]
  BY ScheduleTypes DEF Serve, ClientType
<1>2. \A d \in Clients : client[d].pc = "publish" /\ client[d].rev = job.rev =>
        client'[d].pc = "publish" /\ client'[d].rev = client[d].rev
  BY <1>1
<1>3. Raises /\ \A m \in Minutes : ready'[m] \in {0, ready[m]}
  BY SameDueRaises
<1> QED BY <1>2, <1>3, StoreTypesLater, OthersKeep DEF ScheduleInv

LEMMA StartRequestKeepsSchedule ==
  ASSUME ScheduleInv, TypeInv', "slowClient" \notin Faults, NEW c \in Clients,
         StartRequest(c)
  PROVE  ScheduleInv'
<1> USE ScheduleTypes
<1>0. /\ ActorsFit /\ OnTime /\ GoneInv
      /\ UNCHANGED <<now, scanner, worker, scanned>>
  BY DEF ScheduleInv, StartRequest
<1>1. ASSUME NEW enabled \in BOOLEAN, SaveJob(c, enabled), client[c].pc = "idle",
             job.present \/ job.rev = 0
      PROVE  ScheduleInv'
  BY <1>0, <1>1, SaveKeepsSchedule
<1>2. CASE Create(c) \/ Edit(c) \/ Enable(c) \/ Disable(c)
  BY <1>1, <1>2 DEF Create, Edit, Enable, Disable, Receive, Pending
<1>3. CASE RequestRun(c)
  <2> DEFINE r == [IdleRequest EXCEPT !.pc = "runDue", !.at = now, !.rev = job.rev]
  <2>1. r.pc = "runDue" /\ r.at = now /\ r.rev = job.rev
    BY DEF IdleRequest
  <2>2. Serve(c, r)
    BY <1>3 DEF RequestRun
  <2> HIDE DEF r
  <2>3. Fits(job.rev, now + 1)
    BY <1>0 DEF Fits, OnTime
  <2>4. UNCHANGED <<job, due, ready, runs>> /\ client[c].pc = "idle"
    BY <1>3 DEF RequestRun, Receive, Pending, store
  <2>5. ActorsFit' /\ GoneInv'
    BY <1>0, <2>1, <2>2, <2>3, <2>4, ClientsFit
  <2>6. (Live' => Live) /\ \A m \in Minutes : Exists(m) => Exists(m)'
    BY <2>4 DEF Live, Exists
  <2> QED BY <1>0, <2>2, <2>4, <2>5, <2>6, RequestKeepsSchedule
<1>4. CASE Delete(c)
  <2> DEFINE r == [IdleRequest EXCEPT !.pc = "list"]
  <2>1. r.pc = "list"
    BY DEF IdleRequest
  <2>2. Serve(c, r)
    BY <1>4 DEF Delete
  <2> HIDE DEF r
  <2>4. UNCHANGED <<job, due, ready, runs>> /\ client[c].pc = "idle"
    BY <1>4 DEF Delete, Receive, Pending, store
  <2>5. ActorsFit' /\ GoneInv'
    BY <1>0, <2>1, <2>2, <2>4, ClientsFit
  <2>6. (Live' => Live) /\ \A m \in Minutes : Exists(m) => Exists(m)'
    BY <2>4 DEF Live, Exists
  <2> QED BY <1>0, <2>2, <2>4, <2>5, <2>6, RequestKeepsSchedule
<1>5. CASE Cancel(c)
  <2>1. PICK m \in Minutes :
          Open(m) /\ runs' = [runs EXCEPT ![m].cancel = TRUE]
    BY <1>5 DEF Cancel
  <2>2. runs[m] \in Record
    BY <2>1 DEF Open, Exists, RunsType
  <2>3. [runs[m] EXCEPT !.cancel = TRUE] \in Record
    BY <2>2 DEF Record
  <2>4. \A n \in Minutes : Exists(n) => Exists(n)'
    BY <2>1, <2>3, NoRunAssumption DEF Exists, RunsType
  <2>5. UNCHANGED <<job, due, ready, client>>
    BY <1>5 DEF Cancel
  <2>6. ActorsFit' /\ GoneInv' /\ (Live' => Live)
    BY <1>0, <2>5 DEF ActorsFit, GoneInv, Fits, Run, Live
  <2> QED BY <1>0, <2>4, <2>5, <2>6, SameDueRaises, StoreTypesLater, OthersKeep
          DEF ScheduleInv
<1> QED BY <1>2, <1>3, <1>4, <1>5 DEF StartRequest

LEMMA ClientStepKeepsSchedule ==
  ASSUME ScheduleInv, TypeInv', NEW c \in Clients, ClientStep(c)
  PROVE  ScheduleInv'
<1> USE ScheduleTypes
<1>0. /\ ActorsFit /\ OnTime /\ GoneInv /\ client[c] \in Request
      /\ UNCHANGED <<now, scanner, worker, scanned>>
      /\ client[c].rev \in 0..MaxRevision /\ client[c].rev \in Nat
  BY ClientFields, BoundsAssumption DEF ScheduleInv, ClientStep
<1>1. CASE Publish(c)
  <2>1. /\ client[c].pc = "publish" /\ client[c].at = now
        /\ Fits(client[c].rev, now + 1)
    BY <1>0, <1>1 DEF Publish, Pending, ActorsFit
  <2>2. PutNextDue(client[c].rev, now) /\ UNCHANGED <<job, ready, runs>>
    BY <1>1, <2>1 DEF Publish
  <2>3. Raises
    BY <1>0, <2>1, <2>2, NextDueRaises
  <2>4. Serve(c, IdleRequest)
    BY <1>1 DEF Publish, Reply
  <2>5. ActorsFit' /\ GoneInv'
    BY <1>0, <2>2, <2>4, ClientsFit, IdleIsIdle
  <2>6. \A d \in Clients \ {c} : client'[d] = client[d]
    BY <2>4 DEF Serve, ClientType
  <2>7. CASE client[c].rev # job.rev
    <3>1. \A d \in Clients :
            client[d].pc = "publish" /\ client[d].rev = job.rev =>
              client'[d].pc = "publish" /\ client'[d].rev = client[d].rev
      BY <2>6, <2>7
    <3>2. (Live' => Live) /\ \A m \in Minutes : Exists(m) => Exists(m)'
      BY <2>2 DEF Live, Exists
    <3>3. \A m \in Minutes : ready'[m] \in {0, ready[m]}
      BY <2>2
    <3> QED BY <1>0, <2>2, <2>3, <2>5, <3>1, <3>2, <3>3, StoreTypesLater,
               OthersKeep DEF ScheduleInv
  <2>8. CASE client[c].rev = job.rev
    <3>1. ASSUME job.rev \in Revisions, NextTime(job.rev, now) # 0
          PROVE  due'[NextTime(job.rev, now)] = job.rev
      <4> DEFINE n == NextTime(job.rev, now)
      <4>1. n \in Minutes
        BY <3>1, NextTimeIsNext, OccurrenceType
      <4>2. due'[n] >= job.rev
        BY <2>2, <2>8, <3>1, PutNextDueMoves
      <4>3. due'[n] = due[n] \/ due'[n] = job.rev
        BY <2>2, <2>8, <4>1, PutNextDueMoves
      <4>4. due[n] <= job.rev
        BY <4>1 DEF ScheduleInv, PointersFit, Fits
      <4> HIDE DEF n
      <4>5. due[n] \in Nat
        BY <4>1
      <4> QED BY <4>2, <4>3, <4>4, <4>5 DEF n
    <3>2. (Live' => Live) /\ \A m \in Minutes : Exists(m) => Exists(m)'
      BY <2>2 DEF Live, Exists
    <3>3. \A m \in Minutes : ready'[m] \in {0, ready[m]}
      BY <2>2
    <3> QED BY <1>0, <2>2, <2>3, <2>5, <3>1, <3>2, <3>3, StoreTypesLater,
               OthersKeep DEF ScheduleInv
  <2> QED BY <2>7, <2>8
<1>2. CASE PublishRunNow(c)
  <2>1. /\ client[c].pc = "runDue" /\ client[c].at = now
        /\ Fits(client[c].rev, now + 1)
    BY <1>0, <1>2 DEF PublishRunNow, Pending, ActorsFit
  <2>2. PutDue(now + 1, client[c].rev) /\ UNCHANGED <<job, ready, runs>>
    BY <1>2, <2>1 DEF PublishRunNow, RunMinute
  <2>3. Raises
    <3>1. \A m \in Minutes : \/ due'[m] = due[m]
                             \/ /\ m = now + 1 /\ due'[m] = client[c].rev
                                /\ client[c].rev > due[m]
      BY <1>0, <2>2, PutDueMoves
    <3> QED BY <1>0, <2>1, <3>1 DEF Raises
  <2> DEFINE r == [client[c] EXCEPT !.pc = "runCreate"]
  <2>4. Serve(c, r)
    BY <1>2 DEF PublishRunNow
  <2>5. r.pc = "runCreate"
    BY <1>0 DEF Request
  <2> HIDE DEF r
  <2>6. ActorsFit' /\ GoneInv'
    BY <1>0, <2>2, <2>4, <2>5, ClientsFit
  <2>7. \A d \in Clients \ {c} : client'[d] = client[d]
    BY <2>4 DEF Serve, ClientType
  <2>8. \A d \in Clients :
          client[d].pc = "publish" /\ client[d].rev = job.rev =>
            client'[d].pc = "publish" /\ client'[d].rev = client[d].rev
    BY <2>1, <2>7
  <2>9. (Live' => Live) /\ \A m \in Minutes : Exists(m) => Exists(m)'
    BY <2>2 DEF Live, Exists
  <2>10. \A m \in Minutes : ready'[m] \in {0, ready[m]}
    BY <2>2
  <2> QED BY <1>0, <2>2, <2>3, <2>6, <2>8, <2>9, <2>10, StoreTypesLater,
             OthersKeep DEF ScheduleInv
<1>3. CASE CreateQueued(c) \/ ListKeys(c) \/ DeleteLock(c)
  <2>1. /\ UNCHANGED <<job, due, ready>> /\ client[c].pc # "publish"
        /\ UNCHANGED runs \/ CreateRun(RunMinute(c), "queued")
    BY <1>3 DEF CreateQueued, ListKeys, DeleteLock, Pending, store
  <2>2. \E r : /\ Serve(c, r)
               /\ r.pc \in {"idle", "delJob", "delRuns"}
               /\ r.pc \in {"delJob", "delRuns"} => job.rev > 0
               /\ r.pc = "delRuns" => ~job.present
    <3>1. CASE CreateQueued(c)
      BY <3>1, IdleIsIdle DEF CreateQueued, Reply
    <3>2. CASE ListKeys(c)
      <4> DEFINE q == [IdleRequest EXCEPT !.pc = "delJob",
                                          !.keys = {m \in Minutes : Exists(m)},
                                          !.hasLock = lock.state # "none"]
      <4>1. q.pc = "delJob"
        BY DEF IdleRequest
      <4>2. CASE job.present
        BY <1>0, <3>2, <4>1, <4>2 DEF ListKeys, GoneInv
      <4>3. CASE ~job.present
        BY <3>2, <4>3, IdleIsIdle DEF ListKeys, Reply
      <4> QED BY <4>2, <4>3
    <3>3. CASE DeleteLock(c)
      <4>1. [client[c] EXCEPT !.pc = "delRuns"].pc = "delRuns"
        BY <1>0 DEF Request
      <4>2. job.rev > 0 /\ ~job.present
        BY <1>0, <3>3 DEF DeleteLock, Pending, GoneInv
      <4> QED BY <3>3, <4>1, <4>2 DEF DeleteLock
    <3> QED BY <1>3, <3>1, <3>2, <3>3
  <2>3. \A m \in Minutes : Exists(m) => Exists(m)'
    BY <2>1, CreateRunMoves, SameRunsMove DEF RunStays
  <2>4. Live' => Live
    BY <2>1 DEF Live
  <2>5. ActorsFit' /\ GoneInv'
    BY <1>0, <2>1, <2>2, ClientsFit
  <2> QED BY <1>0, <2>1, <2>2, <2>3, <2>4, <2>5, RequestKeepsSchedule
<1>4. CASE DeleteJob(c)
  <2> DEFINE r == [client[c] EXCEPT !.pc = "delLock"]
  <2>1. Serve(c, r) /\ r.pc = "delLock"
    BY <1>0, <1>4 DEF DeleteJob, Request
  <2> HIDE DEF r
  <2>2. /\ job'.rev = job.rev /\ job'.at = job.at /\ ~job'.present
        /\ UNCHANGED <<due, ready, runs>> /\ client[c].pc # "publish"
        /\ job.rev > 0
    BY <1>0, <1>4 DEF DeleteJob, JobType, Pending, GoneInv
  <2>3. ActorsFit' /\ GoneInv'
    BY <1>0, <2>1, <2>2, ClientsFit
  <2>4. (Live' => Live) /\ \A m \in Minutes : Exists(m) => Exists(m)'
    BY <2>2 DEF Live, Exists
  <2> QED BY <1>0, <2>1, <2>2, <2>3, <2>4, RequestKeepsSchedule
<1>5. CASE DeleteRuns(c)
  <2>1. /\ UNCHANGED <<job, due, ready>> /\ client[c].pc = "delRuns"
        /\ job.rev > 0 /\ ~job.present
    BY <1>0, <1>5 DEF DeleteRuns, Pending, GoneInv
  <2>2. \E r : Serve(c, r) /\ r.pc \in {"idle", "delRuns"}
    <3>1. \A m : [client[c] EXCEPT !.keys = @ \ {m}].pc = "delRuns"
      BY <1>0, <2>1 DEF Request
    <3> QED BY <1>5, <3>1, IdleIsIdle DEF DeleteRuns, Reply
  <2>3. ~Live /\ (Live' => Live)
    BY <2>1 DEF Live
  <2>4. ActorsFit' /\ GoneInv'
    BY <1>0, <2>1, <2>2, ClientsFit
  <2> QED BY <1>0, <2>1, <2>2, <2>3, <2>4, RequestKeepsSchedule
<1> QED BY <1>1, <1>2, <1>3, <1>4, <1>5 DEF ClientStep

-----------------------------------------------------------------------------
(* The scanner.                                                              *)

NextIsDue == job.rev \in Revisions /\ NextTime(job.rev, now) # 0 =>
               due[NextTime(job.rev, now)] = job.rev

(* Live, and the current revision has a pointer for this minute.             *)
DueNow == Live /\ job.at < now /\ due[now] = job.rev

(* A step of a scan, by what it does to its own pointer k.                   *)
LEMMA ScanKeeps ==
  ASSUME ScheduleInv, TypeInv', UNCHANGED <<now, job, worker, client>>, Raises,
         NEW s \in Scanners, NEW k, scanner'[s] = k, k.rev \in Nat,
         Fits(k.rev, k.m), \A t \in Scanners \ {s} : scanner'[t] = scanner[t],
         k.pc # "idle" =>
           /\ k.m = now
           /\ k.rev = job.rev /\ job.rev > 0 => due[now] = job.rev
           /\ DueNow => k.rev = job.rev,
         k.pc = "due" /\ Live /\ k.rev = job.rev => Exists(k.m)',
         \A m \in scanned' : m = now \/ m \in scanned,
         \A m \in scanned : m \in scanned',
         now \in scanned' /\ now \notin scanned /\ Obliged(now) =>
           Exists(now)' /\ NextIsDue',
         \A m \in Minutes :
           \/ ready'[m] = ready[m]
           \/ /\ m = now /\ Fits(ready'[m], m)
              /\ DueNow => ready'[m] = job.rev,
         \A m \in Minutes : Exists(m) => Exists(m)',
         Live /\ Scanning(s) /\ scanner[s].rev = job.rev =>
           (k.pc # "idle" /\ k.rev = job.rev) \/ NextIsDue'
  PROVE  ScheduleInv'
<1> USE ScheduleTypes
<1>0. /\ PointersFit /\ OnTime /\ MinuteInv /\ KeptOccurrences /\ ChainInv
      /\ GoneInv /\ ActorsFit /\ DueType' /\ ReadyType' /\ now' = now
      /\ job' = job
  BY StoreTypesLater DEF ScheduleInv
<1>1. \A m \in Minutes : Obliged(m)' <=> Obliged(m)
  BY <1>0 DEF Obliged, Live
<1>2. ASSUME NEW m \in Minutes, due[m] = job.rev PROVE due'[m] = job.rev
  <2>1. due'[m] \in Nat
    BY <1>0, BoundsAssumption DEF DueType
  <2>2. due'[m] > due[m] => due'[m] <= job.rev
    BY DEF Raises, Fits
  <2> QED BY <1>2, <2>1, <2>2 DEF Raises
<1>3. ASSUME NEW m \in Minutes, Live, m <= now, due'[m] = job.rev
      PROVE  due[m] = job.rev
  <2>1. CASE due'[m] # due[m]
    <3>1. Obliged(m)
      BY <1>0, <1>3, <2>1 DEF Obliged, Raises, Fits, GoneInv, Live
    <3> QED BY <1>0, <1>3, <3>1 DEF KeptOccurrences
  <2> QED BY <1>3, <2>1
<1>4. PointersFit'
  <2>1. ASSUME NEW m \in Minutes PROVE Fits(due'[m], m) /\ Fits(ready'[m], m)
    BY <1>0 DEF PointersFit, Raises
  <2> QED BY <1>0, <2>1 DEF PointersFit, Fits
<1>5. ActorsFit'
  <2>1. \A t \in Scanners : Fits(scanner'[t].rev, scanner'[t].m)
    BY <1>0 DEF ActorsFit
  <2> QED BY <1>0, <2>1 DEF ActorsFit, Fits, Run
<1>6. OnTime'
  BY <1>0 DEF OnTime, Scanning
<1>7. GoneInv'
  BY <1>0 DEF GoneInv
<1>8. MinuteInv'
  <2>1. \A t \in Scanners :
          Scanning(t)' /\ scanner'[t].rev = job'.rev /\ job'.rev > 0 =>
            due'[now'] = job'.rev
    BY <1>0, <1>2 DEF MinuteInv, Scanning
  <2>2. ASSUME Live', job'.at < now', due'[now'] = job'.rev
        PROVE  /\ ready'[now'] \in {0, job'.rev}
               /\ \A t \in Scanners : Scanning(t)' => scanner'[t].rev = job'.rev
    <3>1. DueNow
      BY <1>0, <1>3, <2>2 DEF DueNow, Live
    <3> QED BY <1>0, <3>1 DEF MinuteInv, Scanning, DueNow
  <2> QED BY <2>1, <2>2 DEF MinuteInv
<1>9. KeptOccurrences'
  <2>1. \A m \in Minutes : Obliged(m)' /\ m <= now' => due'[m] = job'.rev
    BY <1>0, <1>1, <1>2 DEF KeptOccurrences
  <2>2. \A m \in scanned' : Obliged(m)' => Exists(m)'
    BY <1>0, <1>1 DEF KeptOccurrences
  <2>3. ASSUME NEW t \in Scanners, scanner'[t].pc = "due", Live',
               scanner'[t].rev = job'.rev
        PROVE  \A m : m = scanner'[t].m => Exists(m)'
    <3>1. CASE t = s
      BY <1>0, <2>3, <3>1 DEF Live, Exists
    <3>2. CASE t # s
      BY <1>0, <2>3, <3>2, ScanFields DEF KeptOccurrences, Live
    <3> QED BY <3>1, <3>2
  <2> QED BY <2>1, <2>2, <2>3 DEF KeptOccurrences, Exists
<1>10. ChainInv'
  <2> SUFFICES ASSUME Live', NextTime(job.rev, now) # 0
               PROVE  due'[NextTime(job.rev, now)] = job.rev \/ Promised'
    BY <1>0 DEF ChainInv, NextTime
  <2>1. Live /\ job.rev \in Revisions
    BY <1>0 DEF GoneInv, Live
  <2>2. NextTime(job.rev, now) \in Minutes
    BY <2>1, NextTimeIsNext, OccurrenceType
  <2>3. CASE due[NextTime(job.rev, now)] = job.rev
    BY <1>2, <2>2, <2>3
  <2>4. CASE NextIsDue'
    BY <1>0, <2>1, <2>4 DEF NextIsDue, NextTime
  <2>5. CASE \E c \in Clients : client[c].pc = "publish"
                                /\ client[c].rev = job.rev
    BY <1>0, <2>5 DEF Promised
  <2>6. CASE Obliged(now) /\ now \notin scanned
    <3>1. CASE now \in scanned'
      BY <2>4, <2>6, <3>1
    <3>2. CASE now \notin scanned'
      BY <1>0, <1>1, <2>6, <3>2 DEF Promised
    <3> QED BY <3>1, <3>2
  <2>7. ASSUME NEW t \in Scanners, Scanning(t), scanner[t].rev = job.rev
        PROVE  NextIsDue' \/ Promised'
    <3>1. CASE t = s
      BY <1>0, <2>1, <2>7, <3>1 DEF Promised, Scanning
    <3>2. CASE t # s
      BY <1>0, <2>7, <3>2 DEF Promised, Scanning
    <3> QED BY <3>1, <3>2
  <2> QED BY <1>0, <2>1, <2>3, <2>4, <2>5, <2>6, <2>7 DEF ChainInv, Promised
<1> QED BY <1>4, <1>5, <1>6, <1>7, <1>8, <1>9, <1>10 DEF ScheduleInv

(* What a scan of the current minute knows.                                  *)
LEMMA ScanFacts ==
  ASSUME ScheduleInv, NEW s \in Scanners, Scanning(s)
  PROVE  /\ scanner[s].m = now /\ scanner[s].rev \in Nat
         /\ scanner[s].rev \in 0..MaxRevision /\ Fits(scanner[s].rev, now)
         /\ DueNow => scanner[s].rev = job.rev /\ ready[now] \in {0, job.rev}
         /\ Obliged(now) => DueNow
         /\ Live /\ scanner[s].rev = job.rev => DueNow
<1> USE ScheduleTypes
<1>0. OnTime /\ MinuteInv /\ KeptOccurrences /\ GoneInv /\ ActorsFit
  BY DEF ScheduleInv
<1>1. /\ scanner[s].m = now /\ scanner[s].rev \in 0..MaxRevision
      /\ Fits(scanner[s].rev, now)
  BY <1>0, ScanFields DEF OnTime, ActorsFit
<1>2. scanner[s].rev \in Nat
  BY <1>1, BoundsAssumption
<1>3. DueNow => scanner[s].rev = job.rev /\ ready[now] \in {0, job.rev}
  BY <1>0 DEF DueNow, MinuteInv
<1>4. Obliged(now) => DueNow
  BY <1>0 DEF Obliged, DueNow, KeptOccurrences
<1>5. Live /\ scanner[s].rev = job.rev => DueNow
  BY <1>0, <1>1 DEF DueNow, MinuteInv, GoneInv, Live, Fits
<1> QED BY <1>1, <1>2, <1>3, <1>4, <1>5

LEMMA IdleScanFits ==
  ASSUME JobType
  PROVE  /\ IdleScan.pc = "idle" /\ IdleScan.rev = 0 /\ 0 \in Nat
         /\ Fits(IdleScan.rev, IdleScan.m)
BY DEF IdleScan, Fits, JobType

LEMMA ScanGoesOn ==
  ASSUME ScannerType, NEW s \in Scanners, NEW pc \in ScannerPcs, ScanTo(s, pc)
  PROVE  /\ scanner'[s].pc = pc /\ scanner'[s].m = scanner[s].m
         /\ scanner'[s].rev = scanner[s].rev /\ UNCHANGED scanned
         /\ \A t \in Scanners \ {s} : scanner'[t] = scanner[t]
<1>1. scanner[s] \in Scan
  BY DEF ScannerType
<1> QED BY <1>1 DEF ScannerType, ScanTo, Scan

LEMMA ScanStops ==
  ASSUME ScannerType, NEW s \in Scanners, ScanEnds(s)
  PROVE  /\ scanner'[s] = IdleScan
         /\ scanned' = scanned \cup {scanner[s].m}
         /\ \A t \in Scanners \ {s} : scanner'[t] = scanner[t]
BY DEF ScannerType, ScanEnds

(* A scan that ends early, having found nothing of the current revision.     *)
LEMMA ScanGivesUp ==
  ASSUME ScheduleInv, TypeInv', NEW s \in Scanners, Scanning(s), ScanEnds(s), ~DueNow,
         UNCHANGED <<now, store, worker, client>>
  PROVE  ScheduleInv'
<1> USE ScheduleTypes
<1>1. /\ scanner[s].m = now /\ ~Obliged(now)
      /\ ~(Live /\ scanner[s].rev = job.rev)
  BY ScanFacts
<1>2. UNCHANGED <<job, due, ready, runs>>
  BY DEF store
<1>3. Raises /\ \A m \in Minutes : Exists(m) => Exists(m)'
  BY <1>2, SameDueRaises DEF Exists
<1> QED BY <1>1, <1>2, <1>3, ScanStops, IdleScanFits, ScanKeeps

LEMMA ScannerKeepsSchedule ==
  ASSUME ScheduleInv, TypeInv', NEW s \in Scanners, StartScan(s) \/ ScanStep(s)
  PROVE  ScheduleInv'
<1> USE ScheduleTypes
<1>0. /\ UNCHANGED <<now, job, worker, client>> /\ GoneInv /\ KeptOccurrences
      /\ PointersFit
  BY DEF StartScan, ListDue, ScanStep, ScanJob, ScanReady, ScanRun, ScanDue, store,
         ScheduleInv
<1>1. \A pc \in {"job", "ready", "run", "due"} : pc \in ScannerPcs /\ pc # "idle"
  BY DEF ScannerPcs
<1>2. CASE StartScan(s) /\ due[now] = 0
  <2>1. /\ UNCHANGED scanner /\ scanned' = scanned \cup {now}
        /\ UNCHANGED <<job, due, ready, runs>> /\ ~Scanning(s)
    BY <1>2 DEF StartScan, ListDue, Scanning, store
  <2>2. ~Obliged(now)
    BY <1>0, <1>2 DEF KeptOccurrences, Obliged, GoneInv, Live
  <2>3. Raises /\ \A m \in Minutes : Exists(m) => Exists(m)'
    BY <2>1, SameDueRaises DEF Exists
  <2>4. scanner[s].rev \in Nat /\ Fits(scanner[s].rev, scanner[s].m)
    BY ScanFields, BoundsAssumption DEF ScheduleInv, ActorsFit
  <2> QED BY <1>0, <2>1, <2>2, <2>3, <2>4, ScanKeeps DEF Scanning
<1>3. CASE StartScan(s) /\ due[now] # 0
  <2> DEFINE k == [pc |-> "job", m |-> now, rev |-> due[now]]
  <2>1. /\ scanner' = [scanner EXCEPT ![s] = k] /\ UNCHANGED scanned
        /\ UNCHANGED <<job, due, ready, runs>> /\ ~Scanning(s)
    BY <1>3 DEF StartScan, ListDue, Scanning, store
  <2>2. k.pc = "job" /\ k.m = now /\ k.rev = due[now]
    OBVIOUS
  <2> HIDE DEF k
  <2>3. scanner'[s] = k /\ \A t \in Scanners \ {s} : scanner'[t] = scanner[t]
    BY <2>1 DEF ScannerType
  <2>4. k.rev \in Nat /\ Fits(k.rev, k.m)
    BY <1>0, <2>2 DEF PointersFit
  <2>5. Raises /\ \A m \in Minutes : Exists(m) => Exists(m)'
    BY <2>1, SameDueRaises DEF Exists
  <2>6. DueNow => k.rev = job.rev
    BY <2>2 DEF DueNow
  <2> QED BY <1>0, <2>1, <2>2, <2>3, <2>4, <2>5, <2>6, ScanKeeps
<1>4. ASSUME Scanning(s), NEW pc \in {"ready", "run", "due"}, ScanTo(s, pc), Raises,
             \A m \in Minutes : Exists(m) => Exists(m)',
             pc = "due" => runs'[scanner[s].m] # NoRun,
             \A m \in Minutes :
               \/ ready'[m] = ready[m]
               \/ m = scanner[s].m /\ ready'[m] = scanner[s].rev
      PROVE  ScheduleInv'
  <2>1. /\ scanner[s].m = now /\ scanner[s].rev \in Nat
        /\ Fits(scanner[s].rev, now)
        /\ DueNow => scanner[s].rev = job.rev
        /\ scanner[s].rev = job.rev /\ job.rev > 0 => due[now] = job.rev
    BY <1>4, ScanFacts DEF ScheduleInv, MinuteInv
  <2>2. /\ scanner'[s].pc = pc /\ scanner'[s].m = now
        /\ scanner'[s].rev = scanner[s].rev /\ UNCHANGED scanned
        /\ \A t \in Scanners \ {s} : scanner'[t] = scanner[t]
    BY <1>1, <1>4, <2>1, ScanGoesOn
  <2>3. PICK k : k = scanner'[s]
    OBVIOUS
  <2>4. k.pc = "due" => Exists(k.m)'
    BY <1>4, <2>1, <2>2, <2>3 DEF Exists
  <2> QED BY <1>0, <1>1, <1>4, <2>1, <2>2, <2>3, <2>4, ScanKeeps
<1>5. CASE ScanJob(s) /\ UNCHANGED <<now, worker, client>>
  <2>1. Scanning(s) /\ UNCHANGED store
    BY <1>5 DEF ScanJob, Scanning
  <2>2. UNCHANGED <<due, ready, runs>>
    BY <2>1 DEF store
  <2>3. CASE IsCurrent(scanner[s].rev)
    <3>1. ScanTo(s, "ready")
      BY <1>5, <2>3 DEF ScanJob
    <3>2. Raises /\ \A m \in Minutes : Exists(m) => Exists(m)'
      BY <2>2, SameDueRaises DEF Exists
    <3> QED BY <1>4, <2>1, <2>2, <3>1, <3>2
  <2>4. CASE ~IsCurrent(scanner[s].rev)
    <3>1. ~DueNow
      BY <2>1, <2>4, ScanFacts DEF IsCurrent, DueNow, Live
    <3>2. ScanEnds(s)
      BY <1>5, <2>4 DEF ScanJob
    <3> QED BY <1>5, <2>1, <3>1, <3>2, ScanGivesUp
  <2> QED BY <2>3, <2>4
<1>6. CASE ScanReady(s) /\ UNCHANGED <<now, worker, client>>
  <2>1. Scanning(s) /\ UNCHANGED <<due, runs>>
    BY <1>6 DEF ScanReady, Scanning
  <2>2. scanner[s].m = now
    BY <2>1, ScanFacts
  <2>3. CASE ready[now] \in {0, scanner[s].rev}
    <3>1. /\ ScanTo(s, "run")
          /\ ready' = [ready EXCEPT ![now] = scanner[s].rev]
      BY <1>6, <2>2, <2>3 DEF ScanReady
    <3>2. Raises /\ \A m \in Minutes : Exists(m) => Exists(m)'
      BY <2>1, SameDueRaises DEF Exists
    <3>3. \A m \in Minutes :
            \/ ready'[m] = ready[m]
            \/ m = scanner[s].m /\ ready'[m] = scanner[s].rev
      BY <2>2, <3>1 DEF ReadyType
    <3> QED BY <1>4, <2>1, <3>1, <3>2, <3>3
  <2>4. CASE ready[now] \notin {0, scanner[s].rev}
    <3>1. ~DueNow
      BY <2>1, <2>4, ScanFacts
    <3>2. ScanEnds(s) /\ UNCHANGED store
      BY <1>6, <2>2, <2>4 DEF ScanReady, store
    <3> QED BY <1>6, <2>1, <3>1, <3>2, ScanGivesUp
  <2> QED BY <2>3, <2>4
<1>7. CASE ScanRun(s) /\ UNCHANGED <<now, worker, client>>
  <2>1. /\ Scanning(s) /\ UNCHANGED <<due, ready>> /\ ScanTo(s, "due")
        /\ CreateRun(scanner[s].m, "queued") /\ scanner[s].m \in Minutes
    BY <1>7, ScanFields DEF ScanRun, Scanning
  <2>2. \A m \in Minutes : Exists(m) => Exists(m)'
    BY <2>1, CreateRunMoves DEF RunStays
  <2>3. runs'[scanner[s].m] # NoRun
    <3>1. Fresh("queued") # NoRun
      BY FreshIsRecord, NoRunAssumption DEF States, Active
    <3> QED BY <2>1, <3>1 DEF CreateRun, Exists, RunsType
  <2> QED BY <1>4, <2>1, <2>2, <2>3, SameDueRaises
<1>8. CASE ScanDue(s) /\ UNCHANGED <<now, worker, client>>
  <2>1. /\ Scanning(s) /\ UNCHANGED <<ready, runs>> /\ ScanEnds(s)
        /\ PutNextDue(scanner[s].rev, scanner[s].m) /\ scanner[s].pc = "due"
    BY <1>8 DEF ScanDue, Scanning
  <2>2. /\ scanner[s].m = now /\ Fits(scanner[s].rev, now)
        /\ scanner[s].rev \in 0..MaxRevision
        /\ Obliged(now) => DueNow
        /\ DueNow => scanner[s].rev = job.rev
    BY <2>1, ScanFacts
  <2>3. PutNextDue(scanner[s].rev, now)
    BY <2>1, <2>2
  <2>4. Raises
    BY <2>2, <2>3, FitsLater, NextDueRaises
  <2>5. scanner[s].rev = job.rev => NextIsDue'
    <3> SUFFICES ASSUME scanner[s].rev = job.rev, job.rev \in Revisions,
                        NextTime(job.rev, now) # 0
                 PROVE  due'[NextTime(job.rev, now)] = job.rev
      BY <1>0 DEF NextIsDue, NextTime
    <3> DEFINE n == NextTime(job.rev, now)
    <3>1. n \in Minutes
      BY NextTimeIsNext, OccurrenceType
    <3>2. due'[n] >= job.rev
      BY <2>3, PutNextDueMoves
    <3>3. due'[n] = due[n] \/ due'[n] = job.rev
      BY <2>3, <3>1, PutNextDueMoves
    <3>4. due[n] <= job.rev /\ due[n] \in Nat
      BY <1>0, <3>1 DEF PointersFit, Fits
    <3> HIDE DEF n
    <3>5. due'[n] = job.rev
      BY <3>2, <3>3, <3>4
    <3> QED BY <3>5 DEF n
  <2>6. Live /\ scanner[s].rev = job.rev => Exists(now)'
    BY <1>0, <2>1, <2>2 DEF KeptOccurrences, Exists
  <2>7. \A m \in Minutes : Exists(m) => Exists(m)'
    BY <2>1 DEF Exists
  <2>8. Obliged(now) => Exists(now)' /\ NextIsDue'
    BY <2>2, <2>5, <2>6 DEF DueNow
  <2>9. /\ scanner'[s] = IdleScan /\ scanned' = scanned \cup {now}
        /\ \A t \in Scanners \ {s} : scanner'[t] = scanner[t]
    BY <2>1, <2>2, ScanStops
  <2> QED BY <1>0, <2>1, <2>4, <2>5, <2>7, <2>8, <2>9, IdleScanFits, ScanKeeps
<1> QED BY <1>2, <1>3, <1>5, <1>6, <1>7, <1>8 DEF StartScan, ScanStep

LEMMA TickKeepsSchedule ==
  ASSUME ScheduleInv, TypeInv', {"slowScan", "slowClient"} \cap Faults = {}, Tick
  PROVE  ScheduleInv'
<1> USE ScheduleTypes
<1>0. /\ PointersFit /\ OnTime /\ MinuteInv /\ KeptOccurrences /\ ChainInv
      /\ GoneInv /\ ActorsFit
  BY DEF ScheduleInv
<1>1. /\ now \in scanned /\ \A s \in Scanners : scanner[s].pc = "idle"
      /\ \A c \in Clients : client[c].pc = "idle"
      /\ now' = now + 1 /\ now' \in Minutes
      /\ UNCHANGED <<job, due, ready, runs, scanner, worker, client, scanned>>
  BY DEF Tick, MayTick, Pending, store, TypeInv, TypeOK
<1>2. \A r : \A m : Fits(r, m)' <=> Fits(r, m)
  BY <1>1 DEF Fits
<1>3. PointersFit' /\ ActorsFit' /\ GoneInv'
  BY <1>0, <1>1, <1>2 DEF PointersFit, ActorsFit, GoneInv, Fits, Run
<1>4. OnTime' /\ \A s \in Scanners : ~Scanning(s)'
  BY <1>0, <1>1 DEF OnTime, Scanning
<1>5. ready[now'] = 0 /\ now' \notin scanned
  BY <1>0, <1>1 DEF OnTime
<1>6. MinuteInv'
  BY <1>1, <1>4, <1>5 DEF MinuteInv
<1>7. ~Promised
  BY <1>1 DEF Promised, Scanning
<1>8. ASSUME Obliged(now') PROVE due[now'] = job.rev
  <2>1. Live /\ job.rev \in Revisions /\ now' \in Occurrences[job.rev]
    BY <1>0, <1>8 DEF Obliged, GoneInv, Live
  <2>2. NextTime(job.rev, now) = now'
    <3>1. /\ NextTime(job.rev, now) \in Occurrences[job.rev]
          /\ NextTime(job.rev, now) > now /\ NextTime(job.rev, now) <= now'
      BY <1>1, <2>1, NextTimeIsNext
    <3>2. NextTime(job.rev, now) \in Nat
      BY <2>1, <3>1, OccurrenceType
    <3> QED BY <1>1, <3>1, <3>2
  <2>3. now' # 0
    BY <1>1
  <2> QED BY <1>0, <1>7, <2>1, <2>2, <2>3 DEF ChainInv
<1>9. KeptOccurrences'
  <2>1. \A m \in Minutes : Obliged(m)' <=> Obliged(m)
    BY <1>1 DEF Obliged, Live
  <2>2. \A m \in Minutes : Obliged(m) /\ m <= now' => due[m] = job.rev
    BY <1>0, <1>1, <1>8 DEF KeptOccurrences
  <2>3. \A m \in scanned : Obliged(m) => Exists(m)'
    BY <1>0, <1>1 DEF KeptOccurrences, Exists
  <2>4. \A s \in Scanners : scanner'[s].pc # "due"
    BY <1>1
  <2> QED BY <1>1, <2>1, <2>2, <2>3, <2>4 DEF KeptOccurrences
<1>10. ChainInv'
  <2> DEFINE n == NextTime(job.rev, now + 1)
  <2> SUFFICES ASSUME Live, n # 0 PROVE due[n] = job.rev \/ Promised'
    BY <1>1 DEF ChainInv, Live, NextTime
  <2>1. job.rev \in Revisions
    BY <1>0 DEF GoneInv, Live
  <2>2. CASE now' \in Occurrences[job.rev]
    <3>1. Obliged(now)'
      BY <1>0, <1>1, <2>2 DEF Obliged, OnTime, Live
    <3> QED BY <1>1, <1>5, <3>1 DEF Promised
  <2>3. CASE now' \notin Occurrences[job.rev]
    <3>1. /\ n \in Occurrences[job.rev] /\ n > now + 1
          /\ \A o \in Occurrences[job.rev] : o > now + 1 => n <= o
      BY <2>1, NextTimeIsNext
    <3>2. \A o \in Occurrences[job.rev] : o \in Nat /\ o # now + 1
      BY <1>1, <2>1, <2>3, OccurrenceType
    <3> HIDE DEF n
    <3>3. /\ NextTime(job.rev, now) \in Occurrences[job.rev]
          /\ NextTime(job.rev, now) > now
          /\ \A o \in Occurrences[job.rev] : o > now => NextTime(job.rev, now) <= o
      BY <2>1, <3>1, <3>2, NextTimeIsNext
    <3>4. NextTime(job.rev, now) = n
      BY <3>1, <3>2, <3>3
    <3>5. n # 0
      BY <3>1, <3>2
    <3> QED BY <1>0, <1>7, <3>4, <3>5 DEF ChainInv
  <2> QED BY <2>2, <2>3
<1> QED BY <1>3, <1>4, <1>6, <1>9, <1>10 DEF ScheduleInv

LEMMA ScheduleInit == Init => ScheduleInv
<1> SUFFICES ASSUME Init PROVE ScheduleInv
  OBVIOUS
<1>1. TypeInv
  BY TypeInit
<1>2. /\ now = 0 /\ job.rev = 0 /\ job.at = 0 /\ job.present = FALSE
      /\ scanned = {}
      /\ \A m \in Minutes : due[m] = 0 /\ ready[m] = 0
      /\ \A s \in Scanners : scanner[s].pc = "idle" /\ scanner[s].rev = 0
      /\ \A w \in Workers : worker[w].rev = 0
      /\ \A c \in Clients : client[c].pc = "idle"
  BY DEF Init, NoJob, IdleScan, IdleWork, IdleRequest
<1>3. ~Live /\ \A m : Fits(0, m)
  BY <1>2 DEF Live, Fits
<1>4. PointersFit /\ ActorsFit /\ OnTime /\ GoneInv
  BY <1>2, <1>3 DEF PointersFit, ActorsFit, OnTime, GoneInv, Scanning
<1>5. MinuteInv /\ KeptOccurrences /\ ChainInv
  BY <1>2, <1>3 DEF MinuteInv, KeptOccurrences, ChainInv, Obliged, Scanning
<1> QED BY <1>1, <1>4, <1>5 DEF ScheduleInv

LEMMA ScheduleStep ==
  ASSUME {"crash", "storage", "slowScan", "slowClient"} \cap Faults = {}
  PROVE  ScheduleInv /\ [Next]_vars => ScheduleInv'
<1> SUFFICES ASSUME ScheduleInv, [Next]_vars PROVE ScheduleInv'
  OBVIOUS
<1>0. TypeInv'
  BY TypeStep DEF ScheduleInv
<1>1. ASSUME NEW s \in Scanners, StartScan(s) \/ ScanStep(s) \/ ScanAborts(s)
      PROVE  ScheduleInv'
  <2>1. ~ScanAborts(s)
    BY DEF ScanAborts
  <2> QED BY <1>0, <1>1, <2>1, ScannerKeepsSchedule
<1>2. ASSUME NEW w \in Workers,
             \/ (\E m \in Minutes : StartWork(w, m)) \/ WorkerStep(w)
             \/ WorkerCrashes(w) \/ WorkerShutDown(w) \/ StorageFails(w)
      PROVE  ScheduleInv'
  BY <1>0, <1>2, ActivationKeepsSchedule, WorkerKeepsSchedule
<1>3. ASSUME NEW c \in Clients,
             StartRequest(c) \/ ClientStep(c) \/ ClientAborts(c)
      PROVE  ScheduleInv'
  <2>1. ~ClientAborts(c) /\ "slowClient" \notin Faults
    BY DEF ClientAborts
  <2> QED BY <1>0, <1>3, <2>1, StartRequestKeepsSchedule, ClientStepKeepsSchedule
<1>4. CASE Tick
  BY <1>0, <1>4, TickKeepsSchedule
<1>5. CASE UNCHANGED vars
  <2>1. UNCHANGED <<now, job, due, ready, runs, scanner, worker, client, scanned>>
    BY <1>5 DEF vars, store
  <2>2. /\ PointersFit' /\ ActorsFit' /\ OnTime' /\ GoneInv' /\ MinuteInv'
        /\ KeptOccurrences'
    BY <2>1 DEF ScheduleInv, PointersFit, ActorsFit, OnTime, GoneInv, MinuteInv,
       KeptOccurrences, Obliged, Live, Fits, Scanning, Exists, Run
  <2>3. ChainInv'
    BY <2>1 DEF ScheduleInv, ChainInv, Promised, Obliged, Live, NextTime, Scanning
  <2> QED BY <1>0, <2>2, <2>3 DEF ScheduleInv
<1> QED BY <1>1, <1>2, <1>3, <1>4, <1>5 DEF Next, Quiet

(* The schedule never stops: while no process dies and the scans and the     *)
(* requests keep up with the clock, every occurrence of the current revision *)
(* whose minute was scanned has its run, whatever is edited meanwhile.       *)
THEOREM NoOccurrenceIsMissed ==
  ASSUME {"crash", "storage", "slowScan", "slowClient"} \cap Faults = {}
  PROVE  Spec => []NoMissedOccurrence
<1>1. ScheduleInv => NoMissedOccurrence
  BY DEF ScheduleInv, KeptOccurrences, NoMissedOccurrence, Obliged, Live
<1> QED BY <1>1, ScheduleInit, ScheduleStep, PTL DEF Spec

-----------------------------------------------------------------------------
(* Queues.  Entries leave the ready queue only for good, and no open run is  *)
(* outside the queues.  This excludes what the code does not survive here:   *)
(* a job whose revision changes, a lease that expires with its holder at     *)
(* work or dead, and, for the open runs, scans that come too late.           *)

(* Still in the ready queue, or nothing is left to do.                       *)
Kept(m) == ready[m] # 0 \/ Finished(m)

(* Where an activation is about to delete its entry.                         *)
Settling == {"ready", "handlerReady", "skipDue", "skipReady"}

QueueJob ==
  /\ job.present => job.rev # 0
  /\ \A m \in Minutes : /\ due[m] # 0 => IsCurrent(due[m])
                        /\ ready[m] # 0 => IsCurrent(ready[m])

QueueScan(s) ==
  /\ scanner[s].pc # "idle" => IsCurrent(scanner[s].rev)
  /\ scanner[s].pc \in {"run", "due"} => Kept(scanner[s].m)

QueueWork(w) ==
  LET k == worker[w] IN
  k.pc # "idle" =>
    /\ IsCurrent(k.rev) /\ Kept(k.m)
    /\ k.pc \notin {"stale", "staleReady", "abandon"}
    /\ k.pc = "close" => Exists(k.m)
    /\ k.pc \in Settling => Finished(k.m)

QueueRequest(c) == client[c].pc # "idle" => IsCurrent(client[c].rev)

(* Nobody leaves the lock behind, so a lease never expires.                  *)
LockHeld == lock.state = "held" => \E w \in Workers : worker[w].pc \in Holding

QueueInv ==
  /\ ExclusionInv /\ QueueJob /\ LockHeld
  /\ \A s \in Scanners : QueueScan(s)
  /\ \A w \in Workers : QueueWork(w)
  /\ \A c \in Clients : QueueRequest(c)

LEMMA QueueTypes ==
  ASSUME QueueInv
  PROVE  /\ TypeInv /\ StoreType /\ JobType /\ DueType /\ ReadyType /\ RunsType
         /\ LockType /\ ScannerType /\ WorkerType /\ ClientType
         /\ NotDeleting /\ LeaseCoversHolder
         /\ now \in Minutes
BY TypeInvParts DEF QueueInv, ExclusionInv, StoreType, CountersType

(* What a step may do to the shared objects.                                 *)
DueMoves   == \A m \in Minutes : due'[m] # due[m] => IsCurrent(due'[m])
ReadyMoves == \A m \in Minutes : ready'[m] # ready[m] =>
                IsCurrent(ready'[m]) \/ (ready'[m] = 0 /\ Finished(m))
RunsSettle == \A m \in Minutes : /\ Exists(m) => Exists(m)'
                                 /\ Finished(m) => Finished(m)'
JobMoves   == job' = job \/ (~job.present /\ job'.rev # 0)
Tame       == DueMoves /\ ReadyMoves /\ RunsSettle /\ JobMoves

LEMMA StaysSettles ==
  ASSUME RunsType, \A m \in Minutes : RunStays(m)
  PROVE  RunsSettle
<1> SUFFICES ASSUME NEW m \in Minutes, Finished(m) PROVE Finished(m)'
  BY DEF RunsSettle, RunStays
<1>1. runs[m] \in Record /\ runs[m] # NoRun /\ Done(runs[m]) /\ Exists(m)'
  BY DEF Finished, Exists, RunsType, RunStays
<1>2. \/ runs'[m] = runs[m]
      \/ runs'[m] = [runs[m] EXCEPT !.cancel = TRUE]
  BY <1>1, LifeNext DEF RunStays, RunMoves, Exists
<1>3. Done(runs'[m])
  BY <1>1, <1>2 DEF Done, Record
<1> QED BY <1>1, <1>3 DEF Finished

(* A tame step keeps what is current and what is kept.                       *)
LEMMA TameKeeps ==
  ASSUME QueueInv, Tame
  PROVE  /\ QueueJob'
         /\ \A r : IsCurrent(r) => IsCurrent(r)' /\ r # 0
         /\ \A m \in Minutes : Kept(m) => Kept(m)'
         /\ \A m \in Minutes : due[m] # 0 => due'[m] # 0
<1>0. QueueJob /\ DueMoves /\ ReadyMoves /\ RunsSettle /\ JobMoves
  BY DEF QueueInv, Tame
<1>1. \A r : IsCurrent(r) => job.present /\ r = job.rev /\ r # 0 /\ IsCurrent(r)'
  BY <1>0 DEF QueueJob, IsCurrent, JobMoves
<1>2. \A m \in Minutes : due[m] # 0 => due'[m] # 0
  BY <1>0, <1>1 DEF DueMoves
<1>3. ASSUME NEW m \in Minutes, Kept(m) PROVE Kept(m)'
  BY <1>0, <1>1, <1>3 DEF Kept, ReadyMoves, RunsSettle
<1>4. ASSUME NEW m \in Minutes
      PROVE  /\ due'[m] # 0 => /\ job'.present /\ job'.enabled
                               /\ job'.rev = due'[m]
             /\ ready'[m] # 0 => /\ job'.present /\ job'.enabled
                                 /\ job'.rev = ready'[m]
  <2>1. due'[m] # 0 => IsCurrent(due'[m])
    BY <1>0 DEF QueueJob, DueMoves
  <2>2. ready'[m] # 0 => IsCurrent(ready'[m])
    BY <1>0 DEF QueueJob, ReadyMoves
  <2> QED BY <1>0, <2>1, <2>2 DEF IsCurrent, JobMoves
<1>5. job'.present => job'.rev # 0
  BY <1>0 DEF QueueJob, JobMoves
<1>6. QueueJob'
  BY <1>4, <1>5 DEF QueueJob, IsCurrent
<1> QED BY <1>1, <1>2, <1>3, <1>6

(* Who does not move keeps what it knows.                                    *)
LEMMA StillKnow ==
  ASSUME QueueInv, Tame
  PROVE  /\ \A s \in Scanners : scanner'[s] = scanner[s] => QueueScan(s)'
         /\ \A w \in Workers : worker'[w] = worker[w] => QueueWork(w)'
         /\ \A c \in Clients : client'[c] = client[c] => QueueRequest(c)'
<1>0. \A m \in Minutes : /\ Exists(m) => Exists(m)'
                         /\ Finished(m) => Finished(m)'
                         /\ Kept(m) => Kept(m)'
  BY TameKeeps DEF Tame, RunsSettle
<1>1. \A r : IsCurrent(r) => IsCurrent(r)'
  BY TameKeeps
<1>2. ASSUME NEW s \in Scanners, scanner'[s] = scanner[s] PROVE QueueScan(s)'
  <2>1. QueueScan(s) /\ scanner[s].m \in Minutes
    BY QueueTypes, ScanFields DEF QueueInv
  <2> QED BY <1>0, <1>1, <1>2, <2>1 DEF QueueScan, IsCurrent, Kept, Finished, Exists
<1>3. ASSUME NEW w \in Workers, worker'[w] = worker[w] PROVE QueueWork(w)'
  <2>1. QueueWork(w) /\ worker[w].m \in Minutes
    BY QueueTypes, WorkFields DEF QueueInv, Run
  <2> QED BY <1>0, <1>1, <1>3, <2>1 DEF QueueWork, IsCurrent, Kept, Finished, Exists
<1>4. ASSUME NEW c \in Clients, client'[c] = client[c] PROVE QueueRequest(c)'
  BY <1>1, <1>4 DEF QueueInv, QueueRequest, IsCurrent
<1> QED BY <1>2, <1>3, <1>4

(* Writes of the repository methods.                                         *)
LEMMA CloseFinishes ==
  ASSUME RunsType, NEW m \in Minutes, Exists(m), NEW s \in Terminal,
         CloseRun(m, s) \/ UpdateRun(m, s, FALSE)
  PROVE  Finished(m)'
<1>1. runs[m] \in Record
  BY DEF Exists, RunsType
<1>2. runs'[m] = Updated(runs[m], s, FALSE)
  BY DEF CloseRun, UpdateRun, RunsType
<1>3. Done(Updated(runs[m], s, FALSE)) /\ Updated(runs[m], s, FALSE) \in Record
  BY <1>1, FreshIsRecord DEF Updated, Done, Record, States
<1> QED BY <1>2, <1>3, NoRunAssumption DEF Finished, Exists

LEMMA SkipFinishes ==
  ASSUME RunsType, NEW m \in Minutes, ~Exists(m), CreateRun(m, "skipped")
  PROVE  Finished(m)'
<1>1. "skipped" \in States
  BY DEF States, Terminal
<1>2. runs'[m] = Fresh("skipped") /\ Fresh("skipped") \in Record
  BY <1>1, FreshIsRecord DEF CreateRun, RunsType
<1>3. Done(Fresh("skipped"))
  BY DEF Done, Fresh, Terminal
<1> QED BY <1>2, <1>3, NoRunAssumption DEF Finished, Exists

LEMMA PutDueIsTame ==
  ASSUME DueType, NEW r \in 0..MaxRevision, IsCurrent(r), NEW n, PutDue(n, r)
  PROVE  DueMoves
BY PutDueMoves DEF DueMoves

LEMMA PutNextDueIsTame ==
  ASSUME DueType, NEW r \in 0..MaxRevision, IsCurrent(r), NEW m \in Minutes,
         PutNextDue(r, m)
  PROVE  DueMoves
BY PutNextDueMoves DEF DueMoves

LEMMA DeleteReadyIsTame ==
  ASSUME ReadyType, NEW m \in Minutes, Finished(m), DeleteReady(m)
  PROVE  ReadyMoves
BY DEF ReadyType, DeleteReady, ReadyMoves

(* A lease in use is refused by everyone: the clock waits for its holder.    *)
LEMMA HeldIsRefused ==
  ASSUME QueueInv, NEW w \in Workers, At(w, "lock"), lock.state = "held"
  PROVE  Refuses(worker[w].at)
<1>1. PICK v \in Workers : worker[v].pc \in Holding
  BY DEF QueueInv, LockHeld
<1>2. /\ lock.expires = worker[v].at + Lease
      /\ now < worker[v].at + Lease /\ worker[w].at <= now
  BY <1>1, QueueTypes DEF LeaseCoversHolder, Leased, Run
<1>3. worker[v].at \in Nat /\ worker[w].at \in Nat /\ now \in Nat
  BY QueueTypes, WorkFields DEF Minutes
<1> QED BY <1>2, <1>3, LeaseAssumption DEF Refuses

(* A worker's step is tame.                                                  *)
LEMMA WorkerIsTame ==
  ASSUME QueueInv, NEW w \in Workers, WorkerStep(w)
  PROVE  Tame
<1> USE QueueTypes
<1>0. /\ Run(w) \in Minutes /\ worker[w].rev \in 0..MaxRevision
      /\ QueueWork(w) /\ UNCHANGED job
  BY WorkFields
     DEF QueueInv, WorkerStep, GetJob, Stale, DropReady, AcquireLock,
         RecordSkipped, WriteNextDue, MarkAbandoned, CreateOwn, CloseOwn, Claim,
         CheckCancel, Attempt, RuntimeAccepts, RuntimeRefuses, RuntimeSilent,
         MarkAcknowledged, StreamEnds, PollCancel, Retry, Decide, Finish, Verify,
         Ready, Handle, Release, store
<1>1. RunsSettle
  BY WorkerStepRuns, StaysSettles
<1>2. DueMoves
  <2>1. CASE WriteNextDue(w)
    BY <1>0, <2>1, PutNextDueIsTame DEF WriteNextDue, QueueWork, At
  <2>2. CASE UNCHANGED due
    BY <2>2 DEF DueMoves
  <2> QED BY <2>1, <2>2
     DEF WorkerStep, GetJob, Stale, DropReady, AcquireLock,
         RecordSkipped, MarkAbandoned, CreateOwn, CloseOwn, Claim,
         CheckCancel, Attempt, RuntimeAccepts, RuntimeRefuses, RuntimeSilent,
         MarkAcknowledged, StreamEnds, PollCancel, Retry, Decide, Finish, Verify,
         Ready, Handle, Release, store
<1>3. ReadyMoves
  <2>1. CASE DropReady(w) \/ Ready(w)
    <3>1. Finished(Run(w)) /\ DeleteReady(Run(w))
      BY <1>0, <2>1 DEF DropReady, Ready, QueueWork, At, Run, Settling
    <3> QED BY <1>0, <3>1, DeleteReadyIsTame
  <2>2. CASE UNCHANGED ready
    BY <2>2 DEF ReadyMoves
  <2> QED BY <2>1, <2>2
     DEF WorkerStep, GetJob, Stale, AcquireLock,
         RecordSkipped, WriteNextDue, MarkAbandoned, CreateOwn, CloseOwn, Claim,
         CheckCancel, Attempt, RuntimeAccepts, RuntimeRefuses, RuntimeSilent,
         MarkAcknowledged, StreamEnds, PollCancel, Retry, Decide, Finish, Verify,
         Handle, Release, store
<1> QED BY <1>0, <1>1, <1>2, <1>3 DEF Tame, JobMoves

(* Where a step leaves w, and what it knows there.                           *)
Knows(w) ==
  /\ worker'[w].pc \notin {"stale", "staleReady", "abandon"}
  /\ worker'[w].pc = "close" => Exists(Run(w))'
  /\ worker'[w].pc \in Settling => Finished(Run(w))'

Plain == {"lock", "create", "skip", "idle", "claim", "nextDue", "check",
          "attempt", "calling", "retry", "ack", "streaming", "decide", "finish",
          "verify", "handler", "release"}

LEMMA PlainKnows ==
  ASSUME NEW w \in Workers, worker'[w].pc \in Plain
  PROVE  Knows(w)
BY DEF Knows, Plain, Settling

LEMMA SettlingKnows ==
  ASSUME NEW w \in Workers, NEW m, worker'[w].m = m,
         worker'[w].pc \in Settling, Finished(m)'
  PROVE  Knows(w)
BY DEF Knows, Settling, Finished, Exists, Run

(* The steps around a call, which may also update the attempt.               *)
LEMMA CallMoves ==
  ASSUME WorkerType, NEW w \in Workers,
         \/ CheckCancel(w) \/ RuntimeRefuses(w) \/ RuntimeSilent(w)
         \/ StreamEnds(w) \/ PollCancel(w) \/ Retry(w) \/ Decide(w)
  PROVE  worker'[w].pc \in {"attempt", "retry", "decide", "finish", "check",
                            "handler"}
<1> DEFINE c1 == [worker[w] EXCEPT !.pc = "finish", !.out = "cancelled"]
           c2 == [worker[w] EXCEPT !.pc = "decide", !.out = "failed"]
           c3 == [worker[w] EXCEPT !.pc = "decide", !.out = "failed",
                                   !.acked = TRUE]
           c4 == [worker[w] EXCEPT !.pc = "decide", !.out = "succeeded"]
           c5 == [worker[w] EXCEPT !.pc = "check", !.attempt = @ + 1]
           c6 == [worker[w] EXCEPT !.pc = "finish",
                    !.out = IF Cancelled(Run(w)) THEN "cancelled" ELSE @]
<1>0. worker[w] \in Work
  BY DEF WorkerType
<1>1. /\ c1.pc = "finish" /\ c2.pc = "decide" /\ c3.pc = "decide"
      /\ c4.pc = "decide" /\ c5.pc = "check" /\ c6.pc = "finish"
  BY <1>0 DEF Work
<1>2. \/ Goto(w, "attempt") \/ Goto(w, "retry") \/ Goto(w, "handler")
      \/ Become(w, c1) \/ Become(w, c2) \/ Become(w, c3) \/ Become(w, c4)
      \/ Become(w, c5) \/ Become(w, c6)
  BY DEF CheckCancel, RuntimeRefuses, RuntimeSilent, StreamEnds, PollCancel,
         Retry, Decide, WriteOwn
<1> HIDE DEF c1, c2, c3, c4, c5, c6
<1> QED BY <1>1, <1>2, GotoOnly, BecomeOnly

LEMMA WorkerKnows ==
  ASSUME QueueInv, NEW w \in Workers, WorkerStep(w)
  PROVE  Knows(w)
<1> USE QueueTypes
<1>0. /\ worker[w] \in Work /\ worker[w].old \in Minutes
      /\ worker[w].pc # "idle" => IsCurrent(worker[w].rev)
      /\ worker[w].pc \notin {"stale", "staleReady", "abandon"}
  BY WorkFields DEF WorkerType, QueueInv, QueueWork
<1>1. PICK m \in Minutes : m = worker[w].m
  BY WorkFields DEF Run
<1>2. /\ Exists(m) => Exists(m)'
      /\ Finished(m) => Finished(m)'
      /\ worker[w].pc = "close" => Exists(m)
      /\ worker[w].pc \in Settling => Finished(m)
  BY <1>0, <1>1, WorkerIsTame, PcsAreWorkerPcs
     DEF Tame, RunsSettle, QueueInv, QueueWork, Settling
<1>3. {"failed", "skipped"} \subseteq Terminal
  BY DEF Terminal
<1>4. ASSUME GetJob(w) PROVE Knows(w)
  <2> DEFINE r == [worker[w] EXCEPT !.at = now, !.pc = "lock"]
  <2>1. Become(w, r) /\ r.pc = "lock"
    BY <1>0, <1>4 DEF GetJob, At, Work
  <2> HIDE DEF r
  <2> QED BY <2>1, BecomeOnly, PlainKnows DEF Plain
<1>5. CASE Stale(w) \/ MarkAbandoned(w)
  BY <1>0, <1>5 DEF Stale, MarkAbandoned, At
<1>6. CASE DropReady(w) \/ Release(w)
  BY <1>6, RestMoves, PlainKnows DEF DropReady, Release, Plain
<1>7. ASSUME AcquireLock(w) PROVE Knows(w)
  <2>1. lock.state = "held" => Refuses(worker[w].at)
    BY <1>7, HeldIsRefused DEF AcquireLock
  <2>2. Rest(w) \/ Goto(w, "skip") \/ Goto(w, "create")
    BY <1>7, <2>1 DEF AcquireLock
  <2> QED BY <2>2, RestMoves, GotoOnly, PlainKnows DEF Plain
<1>8. ASSUME RecordSkipped(w) PROVE Knows(w)
  <2>1. worker'[w].pc \in Settling /\ worker'[w].m = m
    BY <1>1, <1>8, GotoOnly DEF RecordSkipped, Settling
  <2>2. \/ Exists(m) /\ UpdateRun(m, "skipped", FALSE)
        \/ ~Exists(m) /\ CreateRun(m, "skipped")
    BY <1>1, <1>8 DEF RecordSkipped, Run
  <2>3. Finished(m)'
    BY <1>3, <2>2, CloseFinishes, SkipFinishes
  <2> QED BY <2>1, <2>3, SettlingKnows
<1>9. ASSUME WriteNextDue(w) PROVE Knows(w)
  <2>1. CASE At(w, "skipDue")
    <3>1. Goto(w, "skipReady") /\ Finished(m)
      BY <1>2, <1>9, <2>1 DEF WriteNextDue, At, Settling
    <3>2. worker'[w].pc \in Settling /\ worker'[w].m = m
      BY <1>1, <3>1, GotoOnly DEF Settling
    <3> QED BY <1>2, <3>1, <3>2, SettlingKnows
  <2>2. CASE At(w, "nextDue")
    <3> DEFINE r == [worker[w] EXCEPT !.pc = "check", !.attempt = 1]
    <3>1. Become(w, r) /\ r.pc = "check"
      BY <1>0, <1>9, <2>2 DEF WriteNextDue, At, Work
    <3> HIDE DEF r
    <3> QED BY <3>1, BecomeOnly, PlainKnows DEF Plain
  <2> QED BY <1>9, <2>1, <2>2 DEF WriteNextDue
<1>10. ASSUME CreateOwn(w) PROVE Knows(w)
  <2>1. /\ Goto(w, IF Exists(m) THEN Existing(runs[m]) ELSE "nextDue")
        /\ worker'[w].m = m
    BY <1>1, <1>10, GotoOnly DEF CreateOwn, Run
  <2>2. worker'[w].pc = IF Exists(m) THEN Existing(runs[m]) ELSE "nextDue"
    BY <2>1, GotoOnly
  <2>3. CASE worker'[w].pc \in {"claim", "nextDue"}
    BY <2>3, PlainKnows DEF Plain
  <2>4. CASE worker'[w].pc = "ready"
    <3>1. Finished(m)
      BY <2>2, <2>4 DEF Existing, Finished
    <3> QED BY <1>2, <2>1, <2>4, <3>1, SettlingKnows DEF Settling
  <2>5. CASE worker'[w].pc = "close"
    <3>1. Exists(m)'
      BY <1>2, <2>2, <2>5
    <3> QED BY <2>1, <2>5, <3>1 DEF Knows, Settling, Exists, Run
  <2> QED BY <2>2, <2>3, <2>4, <2>5 DEF Existing
<1>11. ASSUME CloseOwn(w) PROVE Knows(w)
  <2>1. /\ worker'[w].pc = "ready" /\ worker'[w].m = m /\ Exists(m)
        /\ CloseRun(m, "failed")
    BY <1>1, <1>2, <1>11, GotoOnly DEF CloseOwn, At, Run
  <2> QED BY <1>3, <2>1, CloseFinishes, SettlingKnows DEF Settling
<1>12. ASSUME Verify(w) PROVE Knows(w)
  <2>1. /\ worker'[w].pc = (IF Finished(m) THEN "ready" ELSE "handler")
        /\ worker'[w].m = m
    BY <1>1, <1>12, GotoOnly DEF Verify, Run
  <2>2. CASE Finished(m)
    BY <1>2, <2>1, <2>2, SettlingKnows DEF Settling
  <2>3. CASE ~Finished(m)
    BY <2>1, <2>3, PlainKnows DEF Plain
  <2> QED BY <2>2, <2>3
<1>13. ASSUME Handle(w) PROVE Knows(w)
  <2>1. /\ worker'[w].pc = (IF Exists(m) THEN "handlerReady" ELSE "release")
        /\ worker'[w].m = m /\ CloseRun(m, "failed")
    BY <1>1, <1>13, GotoOnly DEF Handle, Run
  <2>2. CASE Exists(m)
    BY <1>3, <2>1, <2>2, CloseFinishes, SettlingKnows DEF Settling
  <2>3. CASE ~Exists(m)
    BY <2>1, <2>3, PlainKnows DEF Plain
  <2> QED BY <2>2, <2>3
<1>14. CASE \/ Claim(w) \/ Attempt(w) \/ Finish(w) \/ RuntimeAccepts(w)
            \/ MarkAcknowledged(w) \/ Ready(w)
  <2>1. \E pc \in Plain : Goto(w, pc)
    BY <1>14 DEF Claim, Attempt, Finish, WriteOwn, RuntimeAccepts,
                 MarkAcknowledged, Ready, Plain
  <2> QED BY <2>1, GotoOnly, PlainKnows
<1>15. ASSUME \/ CheckCancel(w) \/ RuntimeRefuses(w) \/ RuntimeSilent(w)
              \/ StreamEnds(w) \/ PollCancel(w) \/ Retry(w) \/ Decide(w)
       PROVE  Knows(w)
  <2>1. worker'[w].pc \in Plain
    BY <1>15, CallMoves DEF Plain
  <2> QED BY <2>1, PlainKnows
<1> QED BY <1>4, <1>5, <1>6, <1>7, <1>8, <1>9, <1>10, <1>11, <1>12, <1>13,
           <1>14, <1>15 DEF WorkerStep

(* The activation of w goes on with what it knows, or rests.                 *)
LEMMA MoverKnows ==
  ASSUME QueueInv, Tame, NEW w \in Workers, worker[w].pc # "idle",
         PointerKept(w), Knows(w)
  PROVE  QueueWork(w)'
<1>1. PICK m \in Minutes : m = worker[w].m
  BY QueueTypes, WorkFields DEF Run
<1>2. IsCurrent(worker[w].rev) /\ Kept(m)
  BY <1>1 DEF QueueInv, QueueWork
<1>3. Kept(m)' /\ \A r : IsCurrent(r) => IsCurrent(r)'
  BY <1>2, TameKeeps
<1> SUFFICES ASSUME worker'[w].pc # "idle" PROVE QueueWork(w)'
  BY DEF QueueWork
<1>4. worker'[w].m = m /\ worker'[w].rev = worker[w].rev
  BY <1>1 DEF PointerKept
<1>5. job'.present /\ job'.enabled /\ job'.rev = worker'[w].rev
  BY <1>2, <1>3, <1>4 DEF IsCurrent
<1> QED BY <1>3, <1>4, <1>5 DEF QueueWork, Knows, IsCurrent, Kept, Finished, Exists, Run

(* The lock changes hands only with its holder.                              *)
LEMMA WorkerKeepsHeld ==
  ASSUME QueueInv, TypeInv', NEW w \in Workers, WorkerStep(w)
  PROVE  LockHeld'
<1> USE QueueTypes
<1>0. /\ worker[w] \in Work /\ WorkerType' /\ LockHeld /\ Knows(w)
  BY WorkerKnows DEF WorkerType, QueueInv, TypeInv, TypeOK
<1>1. \A v \in Workers \ {w} : worker'[v] = worker[v]
  BY WorkerKeepsPointer DEF PointerKept
<1>2. CASE UNCHANGED lock /\ worker[w].pc \notin Holding
  BY <1>0, <1>1, <1>2 DEF LockHeld
<1>3. CASE UNCHANGED lock /\ worker'[w].pc \in Holding
  BY <1>3 DEF LockHeld
<1>4. CASE Release(w)
  <2>1. worker[w].pc \in Holding
    BY <1>4, PcFacts DEF Release, At
  <2>2. lock.state = "held" /\ lock.run = Run(w)
    BY <2>1 DEF LeaseCoversHolder
  <2>3. lock'.state = "released"
    BY <1>4, <2>2 DEF Release, ReleaseLock, LockType
  <2> QED BY <2>3 DEF LockHeld
<1>5. CASE AcquireLock(w)
  <2>1. worker[w].pc \notin Holding
    BY <1>5, HeldPcs DEF AcquireLock, At
  <2>2. CASE Refuses(worker[w].at)
    BY <1>2, <1>5, <2>1, <2>2 DEF AcquireLock
  <2>3. CASE ~Refuses(worker[w].at)
    <3>1. Goto(w, "create")
      BY <1>5, <2>3, HeldIsRefused DEF AcquireLock
    <3> QED BY <3>1, GotoOnly, PcFacts DEF LockHeld
  <2> QED BY <2>2, <2>3
<1>6. CASE GetJob(w) \/ Stale(w) \/ DropReady(w) \/ RecordSkipped(w)
  BY <1>2, <1>6, HeldPcs
     DEF GetJob, Stale, DropReady, RecordSkipped, At, store
<1>7. CASE WriteNextDue(w)
  <2>1. CASE At(w, "skipDue")
    BY <1>2, <1>7, <2>1, HeldPcs DEF WriteNextDue, At
  <2>2. CASE At(w, "nextDue")
    <3> DEFINE r == [worker[w] EXCEPT !.pc = "check", !.attempt = 1]
    <3>1. Become(w, r) /\ r.pc = "check"
      BY <1>0, <1>7, <2>2 DEF WriteNextDue, At, Work
    <3> HIDE DEF r
    <3>2. worker'[w].pc \in Holding
      BY <3>1, BecomeOnly, PcFacts
    <3> QED BY <1>3, <1>7, <3>2 DEF WriteNextDue
  <2> QED BY <1>7, <2>1, <2>2 DEF WriteNextDue
<1>8. ASSUME \/ MarkAbandoned(w) \/ CreateOwn(w) \/ CloseOwn(w) \/ Claim(w)
             \/ Attempt(w) \/ RuntimeAccepts(w) \/ MarkAcknowledged(w)
             \/ Finish(w) \/ Verify(w) \/ Ready(w) \/ Handle(w)
      PROVE  LockHeld'
  <2>1. (\E pc \in Holding : Goto(w, pc)) /\ UNCHANGED lock
    BY <1>8, PcFacts
       DEF MarkAbandoned, CreateOwn, Existing, CloseOwn, Claim, Attempt,
           RuntimeAccepts, MarkAcknowledged, Finish, Verify, Ready, Handle,
           WriteOwn, store
  <2> QED BY <1>3, <2>1, GotoOnly
<1>9. ASSUME \/ CheckCancel(w) \/ RuntimeRefuses(w) \/ RuntimeSilent(w)
             \/ StreamEnds(w) \/ PollCancel(w) \/ Retry(w) \/ Decide(w)
      PROVE  LockHeld'
  <2>1. worker'[w].pc \in Holding
    BY <1>9, CallMoves, PcFacts
  <2>2. UNCHANGED lock
    BY <1>9 DEF CheckCancel, RuntimeRefuses, RuntimeSilent, StreamEnds,
                PollCancel, Retry, Decide, WriteOwn, store
  <2> QED BY <1>3, <2>1, <2>2
<1> QED BY <1>4, <1>5, <1>6, <1>7, <1>8, <1>9 DEF WorkerStep

LEMMA WorkerKeepsQueue ==
  ASSUME QueueInv, ExclusionInv', NEW w \in Workers, WorkerStep(w)
  PROVE  Tame /\ QueueInv'
<1>0. Tame /\ Knows(w) /\ PointerKept(w) /\ TypeInv'
  BY WorkerIsTame, WorkerKnows, WorkerKeepsPointer, QueueTypes DEF ExclusionInv
<1>1. worker[w].pc # "idle"
  BY DEF WorkerStep, GetJob, Stale, DropReady, AcquireLock, RecordSkipped,
         WriteNextDue, MarkAbandoned, CreateOwn, CloseOwn, Claim, CheckCancel,
         Attempt, RuntimeAccepts, RuntimeRefuses, RuntimeSilent,
         MarkAcknowledged, StreamEnds, PollCancel, Retry, Decide, Finish, Verify,
         Ready, Handle, Release, At
<1>2. \A v \in Workers : QueueWork(v)'
  BY <1>0, <1>1, MoverKnows, StillKnow DEF PointerKept
<1>3. /\ \A s \in Scanners : QueueScan(s)'
      /\ \A c \in Clients : QueueRequest(c)'
  BY <1>0, StillKnow DEF WorkerStep
<1> QED BY <1>0, <1>2, <1>3, TameKeeps, WorkerKeepsHeld DEF QueueInv

(* A step of anyone else, with the workers as they are.                      *)
LEMMA BystanderKeepsQueue ==
  ASSUME QueueInv, ExclusionInv', Tame, UNCHANGED <<worker, lock>>,
         \A s \in Scanners : scanner'[s] = scanner[s] \/ QueueScan(s)',
         \A c \in Clients : client'[c] = client[c] \/ QueueRequest(c)'
  PROVE  QueueInv'
<1>1. LockHeld'
  BY DEF QueueInv, LockHeld
<1> QED BY <1>1, TameKeeps, StillKnow DEF QueueInv

LEMMA SameStoreIsTame ==
  ASSUME UNCHANGED <<job, due, ready, runs>>
  PROVE  Tame
BY DEF Tame, DueMoves, ReadyMoves, RunsSettle, JobMoves, Exists, Finished

(* An activation is listed, or told to stop.                                 *)
LEMMA ActivationKeepsQueue ==
  ASSUME QueueInv, ExclusionInv', NEW w \in Workers,
         (\E m \in Minutes : StartWork(w, m)) \/ WorkerShutDown(w)
  PROVE  Tame /\ QueueInv'
<1> USE QueueTypes
<1>0. /\ UNCHANGED <<now, store, scanner, client>> /\ Tame
      /\ worker[w] \in Work
  BY SameStoreIsTame
     DEF StartWork, ListReady, WorkerShutDown, Fails, store, WorkerType
<1>1. ASSUME NEW m \in Minutes, StartWork(w, m)
      PROVE  QueueWork(w)' /\ LockHeld' /\ \A v \in Workers \ {w} : worker'[v] = worker[v]
  <2> DEFINE r == [IdleWork EXCEPT !.pc = "job", !.m = m, !.rev = ready[m]]
  <2>1. r.pc = "job" /\ r.m = m /\ r.rev = ready[m]
    BY DEF IdleWork
  <2>2. Become(w, r) /\ ready[m] # 0 /\ worker[w].pc = "idle"
    BY <1>1 DEF StartWork, ListReady, At
  <2> HIDE DEF r
  <2>3. worker'[w] = r /\ \A v \in Workers \ {w} : worker'[v] = worker[v]
    BY <2>2, BecomeOnly
  <2>4. IsCurrent(ready[m])
    BY <2>2 DEF QueueInv, QueueJob
  <2>5. QueueWork(w)'
    BY <1>0, <2>1, <2>2, <2>3, <2>4
       DEF QueueWork, IsCurrent, Kept, Settling, store
  <2>6. LockHeld'
    BY <1>0, <2>2, <2>3, HeldPcs DEF QueueInv, LockHeld, store
  <2> QED BY <2>3, <2>5, <2>6
<1>2. ASSUME WorkerShutDown(w)
      PROVE  QueueWork(w)' /\ LockHeld' /\ \A v \in Workers \ {w} : worker'[v] = worker[v]
  <2>1. worker[w].pc # "idle"
    BY <1>2, HeldPcs DEF WorkerShutDown, BeforeLock, Holding
  <2>2. CASE worker[w].pc \in Holding
    <3>1. Goto(w, "release")
      BY <1>2, <2>2 DEF WorkerShutDown
    <3>2. worker'[w].pc = "release" /\ PointerKept(w)
      BY <3>1, GotoOnly, GotoKeepsPointer
    <3>3. Knows(w)
      BY <3>2, PlainKnows DEF Plain
    <3> QED BY <1>0, <2>1, <3>2, <3>3, MoverKnows, PcFacts
            DEF PointerKept, LockHeld
  <2>3. CASE worker[w].pc \notin Holding
    <3>1. Rest(w)
      BY <1>2, <2>3 DEF WorkerShutDown
    <3>2. worker'[w].pc = "idle" /\ PointerKept(w)
      BY <3>1, RestMoves, RestKeepsPointer
    <3>3. LockHeld'
      BY <1>0, <2>3, <3>2 DEF QueueInv, LockHeld, PointerKept, store
    <3> QED BY <3>2, <3>3 DEF PointerKept, QueueWork
  <2> QED BY <2>2, <2>3
<1>3. /\ \A v \in Workers : QueueWork(v)'
      /\ LockHeld'
  BY <1>0, <1>1, <1>2, StillKnow
<1> QED BY <1>0, <1>3, TameKeeps, StillKnow DEF QueueInv

-----------------------------------------------------------------------------
(* The scanner.                                                              *)

LEMMA ScannerKeepsQueue ==
  ASSUME QueueInv, ExclusionInv', NEW s \in Scanners,
         StartScan(s) \/ ScanStep(s)
  PROVE  Tame /\ QueueInv'
<1> USE QueueTypes
<1>0. /\ UNCHANGED <<now, job, worker, client, lock>>
      /\ QueueScan(s) /\ scanner[s] \in Scan
      /\ scanner[s].m \in Minutes /\ scanner[s].rev \in 0..MaxRevision
      /\ \A t \in Scanners \ {s} : scanner'[t] = scanner[t]
  BY ScanFields
     DEF QueueInv, StartScan, ListDue, ScanStep, ScanJob, ScanReady, ScanRun,
         ScanDue, ScanTo, ScanEnds, ScannerType, store
<1>1. ASSUME Tame, QueueScan(s)' PROVE Tame /\ QueueInv'
  BY <1>0, <1>1, BystanderKeepsQueue
<1>2. ScanEnds(s) => QueueScan(s)'
  <2>1. IdleScan.pc = "idle"
    BY DEF IdleScan
  <2> QED BY <2>1 DEF ScanEnds, QueueScan, ScannerType
<1>3. ASSUME NEW pc \in ScannerPcs, ScanTo(s, pc)
      PROVE  scanner'[s].pc = pc /\ scanner'[s].m = scanner[s].m
             /\ scanner'[s].rev = scanner[s].rev
  BY <1>0, <1>3 DEF ScanTo, ScannerType, Scan
<1>4. CASE StartScan(s)
  <2>1. UNCHANGED store
    BY <1>4 DEF StartScan, ListDue
  <2>2. Tame
    BY <2>1, SameStoreIsTame DEF store
  <2>3. CASE due[now] = 0
    BY <1>4, <2>2, <2>3, <1>0, BystanderKeepsQueue DEF StartScan, ListDue
  <2>4. CASE due[now] # 0
    <3>1. scanner'[s] = [pc |-> "job", m |-> now, rev |-> due[now]]
      BY <1>4, <2>4 DEF StartScan, ListDue, ScannerType
    <3>2. IsCurrent(due[now])
      BY <2>4 DEF QueueInv, QueueJob
    <3>3. QueueScan(s)'
      BY <1>0, <3>1, <3>2 DEF QueueScan, IsCurrent
    <3> QED BY <1>1, <2>2, <3>3
  <2> QED BY <2>3, <2>4
<1>5. CASE ScanJob(s)
  <2>1. Tame
    BY <1>5, SameStoreIsTame DEF ScanJob, store
  <2>2. ScanTo(s, "ready") /\ IsCurrent(scanner[s].rev)
    BY <1>0, <1>5 DEF ScanJob, QueueScan
  <2>3. QueueScan(s)'
    BY <1>0, <1>3, <2>2 DEF QueueScan, IsCurrent, ScannerPcs
  <2> QED BY <1>1, <2>1, <2>3
<1>6. CASE ScanReady(s)
  <2>1. PICK m \in Minutes : m = scanner[s].m
    BY <1>0
  <2>2. IsCurrent(scanner[s].rev) /\ job.rev # 0 /\ scanner[s].rev # 0
        /\ ready[m] \in {0, scanner[s].rev}
    BY <1>0, <1>6 DEF QueueScan, ScanReady, QueueInv, QueueJob, IsCurrent
  <2>3. ready' = [ready EXCEPT ![m] = scanner[s].rev] /\ ScanTo(s, "run")
        /\ UNCHANGED <<job, due, runs, lock>>
    BY <1>6, <2>1, <2>2 DEF ScanReady
  <2>4. Tame
    BY <2>2, <2>3 DEF Tame, DueMoves, ReadyMoves, RunsSettle, JobMoves, Exists,
                      Finished, ReadyType
  <2>5. Kept(m)'
    BY <2>2, <2>3 DEF Kept, ReadyType
  <2>6. QueueScan(s)'
    BY <1>0, <1>3, <2>1, <2>2, <2>3, <2>5
       DEF QueueScan, IsCurrent, ScannerPcs, Kept, Finished, Exists
  <2> QED BY <1>1, <2>4, <2>6
<1>7. CASE ScanRun(s)
  <2>1. PICK m \in Minutes : m = scanner[s].m
    BY <1>0
  <2>2. IsCurrent(scanner[s].rev) /\ Kept(m) /\ CreateRun(m, "queued")
        /\ ScanTo(s, "due") /\ UNCHANGED <<job, due, ready, lock>>
    BY <1>0, <1>7, <2>1 DEF QueueScan, ScanRun
  <2>3. Tame
    <3>1. RunsSettle
      BY <2>2, CreateRunMoves, StaysSettles
    <3> QED BY <2>2, <3>1 DEF Tame, DueMoves, ReadyMoves, JobMoves
  <2>4. Kept(m)'
    BY <2>2, <2>3, TameKeeps
  <2>5. QueueScan(s)'
    BY <1>0, <1>3, <2>1, <2>2, <2>4
       DEF QueueScan, IsCurrent, ScannerPcs, Kept, Finished, Exists
  <2> QED BY <1>1, <2>3, <2>5
<1>8. CASE ScanDue(s)
  <2>1. DueMoves /\ UNCHANGED <<job, ready, runs, lock>> /\ ScanEnds(s)
    BY <1>0, <1>8, PutNextDueIsTame DEF ScanDue, QueueScan
  <2>2. Tame
    BY <2>1 DEF Tame, ReadyMoves, RunsSettle, JobMoves, Exists, Finished
  <2> QED BY <1>1, <1>2, <2>1, <2>2
<1> QED BY <1>4, <1>5, <1>6, <1>7, <1>8 DEF ScanStep

-----------------------------------------------------------------------------
(* Studio requests.                                                          *)

LEMMA RequestKeepsQueue ==
  ASSUME QueueInv, ExclusionInv', NEW c \in Clients,
         StartRequest(c) \/ ClientStep(c),
         {"edit", "enable", "disable", "delete"} \cap Requests = {}
  PROVE  Tame /\ QueueInv'
<1> USE QueueTypes
<1>0. /\ UNCHANGED <<now, worker, scanner, lock>>
      /\ QueueRequest(c) /\ client[c].at \in Minutes
      /\ client[c].rev \in 0..MaxRevision
      /\ client[c].pc \notin {"list", "delJob", "delLock", "delRuns"}
      /\ client[c] \in Request
  <2>1. client[c].pc \notin {"list", "delJob", "delLock", "delRuns"}
    BY DEF NotDeleting
  <2>2. UNCHANGED <<now, worker, scanner, lock>>
    BY <2>1 DEF StartRequest, Create, Edit, Enable, Disable, SaveJob, RequestRun,
           Cancel, Delete, ClientStep, Publish, PublishRunNow, CreateQueued,
           ListKeys, DeleteJob, DeleteLock, DeleteRuns, store, Pending
  <2> QED BY <2>1, <2>2, ClientFields DEF QueueInv, ClientType
<1>1. ASSUME Tame, QueueRequest(c)',
             \A d \in Clients \ {c} : client'[d] = client[d]
      PROVE  Tame /\ QueueInv'
  BY <1>0, <1>1, BystanderKeepsQueue
<1>2. Reply(c) => QueueRequest(c)' /\ \A d \in Clients \ {c} : client'[d] = client[d]
  <2>1. IdleRequest.pc = "idle"
    BY DEF IdleRequest
  <2> QED BY <2>1 DEF Reply, Serve, QueueRequest, ClientType
<1>3. ASSUME NEW r, Serve(c, r), UNCHANGED job, IsCurrent(r.rev)
      PROVE  QueueRequest(c)' /\ \A d \in Clients \ {c} : client'[d] = client[d]
  BY <1>3 DEF Serve, QueueRequest, ClientType, IsCurrent
<1>4. CASE Create(c)
  <2>1. PICK enabled \in BOOLEAN : SaveJob(c, enabled)
    BY <1>4 DEF Create
  <2>2. ~job.present /\ job.rev = 0
    BY <1>4 DEF Create
  <2>3. PICK at \in job.at..now :
          /\ job' = [present |-> TRUE, enabled |-> enabled, rev |-> job.rev + 1,
                     at |-> at]
          /\ IF enabled
               THEN Serve(c, [IdleRequest EXCEPT !.pc = "publish", !.at = at,
                                                 !.rev = job.rev + 1])
               ELSE Reply(c)
          /\ UNCHANGED <<due, ready, runs, lock>>
    BY <2>1 DEF SaveJob
  <2>4. job'.present /\ job'.enabled = enabled /\ job'.rev = 1
    BY <2>2, <2>3
  <2>5. Tame
    BY <2>2, <2>3, <2>4 DEF Tame, DueMoves, ReadyMoves, RunsSettle, JobMoves,
                           Exists, Finished
  <2>6. CASE enabled
    <3> DEFINE r == [IdleRequest EXCEPT !.pc = "publish", !.at = at,
                                        !.rev = job.rev + 1]
    <3>1. Serve(c, r) /\ r.rev = 1
      BY <2>2, <2>3, <2>6 DEF IdleRequest
    <3> HIDE DEF r
    <3>2. QueueRequest(c)' /\ \A d \in Clients \ {c} : client'[d] = client[d]
      BY <2>4, <2>6, <3>1 DEF Serve, QueueRequest, ClientType, IsCurrent
    <3> QED BY <1>1, <2>5, <3>2
  <2>7. CASE ~enabled
    BY <1>1, <1>2, <2>3, <2>5, <2>7
  <2> QED BY <2>6, <2>7
<1>5. CASE RequestRun(c)
  <2> DEFINE r == [IdleRequest EXCEPT !.pc = "runDue", !.at = now,
                                      !.rev = job.rev]
  <2>1. Serve(c, r) /\ r.rev = job.rev /\ IsCurrent(job.rev) /\ UNCHANGED store
    BY <1>5 DEF RequestRun, IdleRequest, IsCurrent
  <2> HIDE DEF r
  <2>2. Tame /\ UNCHANGED job
    BY <2>1, SameStoreIsTame DEF store
  <2> QED BY <1>1, <1>3, <2>1, <2>2
<1>6. CASE Cancel(c)
  <2>1. PICK n \in Minutes : Open(n) /\ runs' = [runs EXCEPT ![n].cancel = TRUE]
    BY <1>6 DEF Cancel
  <2>2. RunsSettle
    <3>1. ASSUME NEW m \in Minutes
          PROVE  (Exists(m) => Exists(m)') /\ (Finished(m) => Finished(m)')
      <4>1. CASE m # n
        BY <2>1, <4>1 DEF RunsType, Exists, Finished
      <4>2. CASE m = n
        <5>1. runs[n] \in Record /\ runs'[n] = [runs[n] EXCEPT !.cancel = TRUE]
          BY <2>1 DEF RunsType, Open, Exists
        <5>2. runs'[n] \in Record
          BY <5>1 DEF Record
        <5> QED BY <2>1, <4>2, <5>2, NoRunAssumption DEF Open, Exists, Finished
      <4> QED BY <4>1, <4>2
    <3> QED BY <3>1 DEF RunsSettle
  <2>3. UNCHANGED <<job, due, ready, client>>
    BY <1>6 DEF Cancel
  <2>4. Tame
    BY <2>2, <2>3 DEF Tame, DueMoves, ReadyMoves, JobMoves
  <2> QED BY <1>0, <2>3, <2>4, BystanderKeepsQueue
<1>7. CASE Publish(c)
  <2>1. /\ DueMoves /\ Reply(c) /\ UNCHANGED <<job, ready, runs>>
    BY <1>0, <1>7, PutNextDueIsTame DEF Publish, Pending, QueueRequest
  <2>2. Tame
    BY <2>1 DEF Tame, ReadyMoves, RunsSettle, JobMoves, Exists, Finished
  <2> QED BY <1>1, <1>2, <2>1, <2>2
<1>8. CASE PublishRunNow(c)
  <2> DEFINE r == [client[c] EXCEPT !.pc = "runCreate"]
  <2>1. /\ Serve(c, r) /\ r.rev = client[c].rev /\ IsCurrent(client[c].rev)
        /\ UNCHANGED <<job, ready, runs>> /\ PutDue(RunMinute(c), client[c].rev)
    BY <1>0, <1>8 DEF PublishRunNow, Pending, QueueRequest, Request
  <2> HIDE DEF r
  <2>2. DueMoves
    BY <1>0, <2>1, PutDueIsTame
  <2>3. Tame
    BY <2>1, <2>2 DEF Tame, ReadyMoves, RunsSettle, JobMoves, Exists, Finished
  <2> QED BY <1>1, <1>3, <2>1, <2>3
<1>9. CASE CreateQueued(c)
  <2>1. /\ Reply(c) /\ UNCHANGED <<job, due, ready>>
        /\ CreateRun(RunMinute(c), "queued")
    BY <1>9 DEF CreateQueued
  <2>2. RunsSettle
    BY <2>1, CreateRunMoves, StaysSettles
  <2>3. Tame
    BY <2>1, <2>2 DEF Tame, DueMoves, ReadyMoves, JobMoves
  <2> QED BY <1>1, <1>2, <2>1, <2>3
<1>10. /\ ~Edit(c) /\ ~Enable(c) /\ ~Disable(c) /\ ~Delete(c)
       /\ ~ListKeys(c) /\ ~DeleteJob(c) /\ ~DeleteLock(c) /\ ~DeleteRuns(c)
  BY <1>0 DEF Edit, Enable, Disable, Delete, Receive, ListKeys, DeleteJob,
              DeleteLock, DeleteRuns, Pending
<1> QED BY <1>4, <1>5, <1>6, <1>7, <1>8, <1>9, <1>10 DEF StartRequest, ClientStep

-----------------------------------------------------------------------------
(* The queues as a whole.                                                    *)

LEMMA QueueInit == Init => QueueInv
<1> SUFFICES ASSUME Init PROVE QueueInv
  OBVIOUS
<1>1. ExclusionInv
  BY ExclusionInit
<1>2. /\ ~job.present /\ lock.state = "none"
      /\ \A m \in Minutes : due[m] = 0 /\ ready[m] = 0
      /\ \A s \in Scanners : scanner[s].pc = "idle"
      /\ \A w \in Workers : worker[w].pc = "idle"
      /\ \A c \in Clients : client[c].pc = "idle"
  BY DEF Init, NoJob, NoLock, IdleScan, IdleWork, IdleRequest
<1>3. \A s \in Scanners : QueueScan(s)
  BY <1>2 DEF QueueScan
<1> QED BY <1>1, <1>2, <1>3
        DEF QueueInv, QueueJob, LockHeld, QueueWork, QueueRequest

(* A crash or a failed call in the middle of an activation; the lease that   *)
(* ends under its holder; a job whose revision or state changes: after each  *)
(* of these an entry may be dropped whose run is created later.              *)
QueueAssumption ==
  /\ {"crash", "storage", "overrun"} \cap Faults = {}
  /\ {"edit", "enable", "disable", "delete"} \cap Requests = {}

LEMMA NothingBreaks ==
  ASSUME QueueAssumption
  PROVE  /\ \A s : ~ScanAborts(s)
         /\ \A w : ~WorkerCrashes(w) /\ ~StorageFails(w)
         /\ \A c : ~ClientAborts(c)
BY DEF QueueAssumption, ScanAborts, WorkerCrashes, StorageFails, Fails,
       ClientAborts

LEMMA QueueStep ==
  ASSUME QueueAssumption, QueueInv, [Next]_vars
  PROVE  Tame /\ QueueInv'
<1>0. ExclusionInv'
  BY ExclusionStep DEF QueueInv, QueueAssumption
<1>1. ASSUME NEW s \in Scanners, StartScan(s) \/ ScanStep(s)
      PROVE  Tame /\ QueueInv'
  BY <1>0, <1>1, ScannerKeepsQueue
<1>2. ASSUME NEW w \in Workers,
             \/ (\E m \in Minutes : StartWork(w, m)) \/ WorkerStep(w)
             \/ WorkerShutDown(w)
      PROVE  Tame /\ QueueInv'
  BY <1>0, <1>2, WorkerKeepsQueue, ActivationKeepsQueue
<1>3. ASSUME NEW c \in Clients, StartRequest(c) \/ ClientStep(c)
      PROVE  Tame /\ QueueInv'
  BY <1>0, <1>3, RequestKeepsQueue DEF QueueAssumption
<1>4. CASE Tick \/ UNCHANGED vars
  <2>1. UNCHANGED <<store, scanner, worker, client>>
    BY <1>4 DEF Tick, vars
  <2>2. Tame
    BY <2>1, SameStoreIsTame DEF store
  <2> QED BY <1>0, <2>1, <2>2, BystanderKeepsQueue DEF store
<1> QED BY <1>1, <1>2, <1>3, <1>4, NothingBreaks DEF Next, Quiet

(* An entry leaves the ready queue only when its run is terminal, while      *)
(* scans, listings, cancellations, runs on request and shutdowns interleave. *)
THEOREM ReadyOutlives ==
  ASSUME QueueAssumption
  PROVE  Spec => ReadyOutlivesRun
<1>1. QueueInv /\ [Next]_vars =>
        [\A m \in Minutes : ready[m] # 0 /\ ready'[m] = 0 => Finished(m)]_vars
  <2> SUFFICES ASSUME QueueInv, [Next]_vars, NEW m \in Minutes,
                      ready[m] # 0, ready'[m] = 0
               PROVE  Finished(m)
    OBVIOUS
  <2>1. Tame
    BY QueueStep
  <2>2. ~IsCurrent(0)
    BY <2>1, TameKeeps
  <2> QED BY <2>1, <2>2 DEF Tame, ReadyMoves
<1>2. QueueInv /\ [Next]_vars => QueueInv'
  BY QueueStep
<1> QED BY <1>1, <1>2, QueueInit, PTL DEF Spec, ReadyOutlivesRun

(* The open runs, and the clock of those who publish them.                   *)
OpenInv ==
  /\ NoOrphanRun
  /\ \A m \in scanned : m <= now
  /\ \A s \in Scanners : scanner[s].m <= now
  /\ \A c \in Clients :
       /\ client[c].pc # "idle" => client[c].at = now
       /\ client[c].pc \in {"runDue", "runCreate"} => RunMinute(c) \in Minutes
       /\ client[c].pc = "runCreate" => due[RunMinute(c)] # 0

(* A run that a step opens is in a queue after it, and a minute is scanned   *)
(* only once its entry is in the ready queue or it had no pointer.           *)
Opens == \A m \in Minutes :
           Open(m)' => \/ Open(m) \/ Kept(m)'
                       \/ due[m] # 0 /\ m > now
Scans == \A m \in Minutes \cap scanned' :
           m \in scanned \/ Kept(m)' \/ (m = now /\ due[m] = 0)

LEMMA StillNoOrphan ==
  ASSUME QueueInv, Tame, OpenInv, Opens, Scans, UNCHANGED now
  PROVE  NoOrphanRun'
<1> SUFFICES ASSUME NEW m \in Minutes, Open(m)'
             PROVE  ready'[m] # 0 \/ (due'[m] # 0 /\ m >= now /\ m \notin scanned')
  BY DEF NoOrphanRun
<1>1. m \in Nat /\ now \in Nat /\ ~Finished(m)'
  BY QueueTypes, BoundsAssumption DEF Minutes, Open, Finished
<1>2. CASE Kept(m)'
  BY <1>1, <1>2 DEF Kept
<1>3. CASE Open(m) /\ ~Kept(m)'
  <2>1. ready[m] = 0
    BY <1>3, TameKeeps DEF Kept
  <2>2. due[m] # 0 /\ m >= now /\ m \notin scanned
    BY <1>3, <2>1 DEF OpenInv, NoOrphanRun
  <2>3. due'[m] # 0
    BY <2>2, TameKeeps
  <2> QED BY <1>3, <2>2, <2>3 DEF Scans
<1>4. CASE due[m] # 0 /\ m > now /\ ~Kept(m)'
  <2>1. m \notin scanned
    BY <1>1, <1>4 DEF OpenInv
  <2>2. due'[m] # 0
    BY <1>4, TameKeeps
  <2> QED BY <1>1, <1>4, <2>1, <2>2 DEF Scans
<1> QED BY <1>2, <1>3, <1>4 DEF Opens

(* An activation creates no run but its own.                                 *)
LEMMA WorkerCreates ==
  ASSUME RunsType, WorkerType, NEW w \in Workers, WorkerStep(w)
  PROVE  \A m \in Minutes : Exists(m)' => Exists(m) \/ m = Run(w)
<1> DEFINE Only == \A m \in Minutes : Exists(m)' => Exists(m) \/ m = Run(w)
<1>1. CASE UNCHANGED runs
  BY <1>1 DEF Exists
<1>2. ASSUME NEW n \in Minutes, NEW s, NEW ack, Exists(n), UpdateRun(n, s, ack)
      PROVE  Only
  BY <1>2 DEF UpdateRun, RunsType, Exists
<1>3. ASSUME NEW s, CreateRun(Run(w), s) PROVE Only
  BY <1>3 DEF CreateRun, RunsType, Exists
<1>4. ASSUME NEW n \in Minutes, NEW s, CloseRun(n, s) PROVE Only
  BY <1>1, <1>2, <1>4 DEF CloseRun
<1>5. Run(w) \in Minutes /\ worker[w].old \in Minutes
  BY WorkFields
<1>6. CASE Stale(w) \/ MarkAbandoned(w) \/ CloseOwn(w) \/ Handle(w)
  BY <1>4, <1>5, <1>6 DEF Stale, MarkAbandoned, CloseOwn, Handle
<1>7. CASE RecordSkipped(w) \/ CreateOwn(w)
  BY <1>2, <1>3, <1>5, <1>7 DEF RecordSkipped, CreateOwn
<1>8. ASSUME NEW s, NEW ack, NEW next, WriteOwn(w, s, ack, next) PROVE Only
  BY <1>1, <1>2, <1>5, <1>8 DEF WriteOwn
<1>9. CASE Claim(w) \/ Attempt(w) \/ Retry(w) \/ Finish(w)
  BY <1>1, <1>2, <1>5, <1>9 DEF Claim, Attempt, Retry, Finish, WriteOwn
<1>10. CASE MarkAcknowledged(w)
  BY <1>1, <1>2, <1>5, <1>10 DEF MarkAcknowledged
<1> QED BY <1>1, <1>6, <1>7, <1>9, <1>10
    DEF WorkerStep, GetJob, DropReady, AcquireLock, WriteNextDue, CheckCancel,
        RuntimeAccepts, RuntimeRefuses, RuntimeSilent, StreamEnds, PollCancel,
        Decide, Verify, Ready, Release, store

(* A run is opened only by a step that creates it.                           *)
LEMMA CreatedOpens ==
  ASSUME RunsSettle,
         \A m \in Minutes : Exists(m)' => Exists(m) \/ Kept(m)'
                                          \/ (due[m] # 0 /\ m > now)
  PROVE  Opens
BY DEF RunsSettle, Opens, Open, Finished, Exists

LEMMA WorkerKeepsOpen ==
  ASSUME QueueInv, Tame, OpenInv, NEW w \in Workers,
         \/ WorkerStep(w) \/ WorkerShutDown(w)
         \/ \E m \in Minutes : StartWork(w, m)
  PROVE  OpenInv'
<1> USE QueueTypes
<1>0. UNCHANGED <<now, scanner, client, scanned>> /\ RunsSettle
  BY DEF WorkerStep, WorkerShutDown, Fails, StartWork, ListReady, Tame
<1>1. \A m \in Minutes : Exists(m)' => Exists(m) \/ Kept(m)'
  <2>1. CASE WorkerStep(w)
    <3>1. PICK n \in Minutes : n = Run(w)
      BY WorkFields
    <3>2. worker[w].pc # "idle"
      BY <2>1
         DEF WorkerStep, GetJob, Stale, DropReady, AcquireLock, RecordSkipped,
             WriteNextDue, MarkAbandoned, CreateOwn, CloseOwn, Claim,
             CheckCancel, Attempt, RuntimeAccepts, RuntimeRefuses,
             RuntimeSilent, MarkAcknowledged, StreamEnds, PollCancel, Retry,
             Decide, Finish, Verify, Ready, Handle, Release, At
    <3>3. Kept(n)
      BY <3>1, <3>2 DEF QueueInv, QueueWork, Run
    <3>4. Kept(n)'
      BY <3>3, TameKeeps
    <3> QED BY <2>1, <3>1, <3>4, WorkerCreates
  <2>2. CASE ~WorkerStep(w)
    BY <2>2 DEF WorkerShutDown, Fails, StartWork, ListReady, store, Exists
  <2> QED BY <2>1, <2>2
<1>2. Opens
  BY <1>0, <1>1, CreatedOpens
<1>3. Scans
  BY <1>0 DEF Scans
<1>4. NoOrphanRun'
  BY <1>0, <1>2, <1>3, StillNoOrphan
<1>5. ASSUME NEW c \in Clients, client[c].pc = "runCreate"
      PROVE  due'[RunMinute(c)] # 0
  BY <1>5, TameKeeps DEF OpenInv
<1> QED BY <1>0, <1>4, <1>5 DEF OpenInv, RunMinute

LEMMA ScannerKeepsOpen ==
  ASSUME QueueInv, Tame, OpenInv, NEW s \in Scanners,
         StartScan(s) \/ ScanStep(s), QueueScan(s)'
  PROVE  OpenInv'
<1> USE QueueTypes
<1>0. /\ UNCHANGED <<now, client>> /\ RunsSettle /\ now \in Nat
      /\ scanner[s] \in Scan /\ scanner[s].m \in Minutes /\ QueueScan(s)
      /\ scanner[s].m <= now
  BY ScanFields, BoundsAssumption
     DEF StartScan, ListDue, ScanStep, Tame, QueueInv, OpenInv, Minutes, store
<1>1. PICK n \in Minutes : n = scanner[s].m
  BY <1>0
<1>2. ASSUME ScanRun(s) \/ ScanDue(s) PROVE Kept(n)'
  <2>1. Kept(n)
    BY <1>0, <1>1, <1>2 DEF QueueScan, ScanRun, ScanDue
  <2> QED BY <2>1, TameKeeps
<1>3. \A m \in Minutes : Exists(m)' => Exists(m) \/ Kept(m)'
  <2>1. CASE ScanRun(s)
    BY <1>1, <1>2, <2>1 DEF ScanRun, CreateRun, RunsType, Exists
  <2>2. CASE ~ScanRun(s)
    BY <2>2 DEF StartScan, ListDue, ScanStep, ScanJob, ScanReady, ScanDue,
                store, Exists
  <2> QED BY <2>1, <2>2
<1>4. Opens
  BY <1>0, <1>3, CreatedOpens
<1>5. \A t \in Scanners \ {s} : scanner'[t] = scanner[t]
  BY DEF StartScan, ListDue, ScanStep, ScanJob, ScanReady, ScanRun, ScanDue,
         ScanTo, ScanEnds, ScannerType
<1>6. \/ UNCHANGED scanned /\ scanner'[s].m \in {scanner[s].m, now}
      \/ scanned' = scanned \cup {now} /\ due[now] = 0 /\ UNCHANGED scanner
      \/ scanned' = scanned \cup {n} /\ ScanDue(s) /\ scanner'[s].m = 0
  <2>1. CASE StartScan(s)
    BY <2>1 DEF StartScan, ListDue, ScannerType
  <2>2. ASSUME NEW pc, ScanTo(s, pc)
        PROVE  UNCHANGED scanned /\ scanner'[s].m = scanner[s].m
    BY <1>0, <2>2 DEF ScanTo, ScannerType, Scan
  <2>3. CASE ScanJob(s)
    BY <1>0, <2>2, <2>3 DEF ScanJob, QueueScan
  <2>4. CASE ScanReady(s)
    <3>1. ready[scanner[s].m] \in {0, scanner[s].rev}
      BY <1>0, <2>4 DEF QueueInv, QueueJob, QueueScan, ScanReady, IsCurrent
    <3> QED BY <2>2, <2>4, <3>1 DEF ScanReady
  <2>5. CASE ScanRun(s)
    BY <2>2, <2>5 DEF ScanRun
  <2>6. CASE ScanDue(s)
    BY <1>1, <2>6 DEF ScanDue, ScanEnds, ScannerType, IdleScan
  <2> QED BY <2>1, <2>3, <2>4, <2>5, <2>6 DEF ScanStep
<1>7. Scans
  BY <1>2, <1>6 DEF Scans
<1>8. NoOrphanRun'
  BY <1>0, <1>4, <1>7, StillNoOrphan
<1>9. /\ \A m \in scanned' : m <= now
      /\ \A t \in Scanners : scanner'[t].m <= now
  BY <1>0, <1>1, <1>5, <1>6 DEF OpenInv
<1>10. ASSUME NEW c \in Clients, client[c].pc = "runCreate"
       PROVE  due'[RunMinute(c)] # 0
  BY <1>10, TameKeeps DEF OpenInv
<1> QED BY <1>0, <1>8, <1>9, <1>10 DEF OpenInv, RunMinute

LEMMA RequestKeepsOpen ==
  ASSUME QueueAssumption, "slowClient" \notin Faults,
         QueueInv, Tame, OpenInv, NEW c \in Clients,
         StartRequest(c) \/ ClientStep(c)
  PROVE  OpenInv'
<1> USE QueueTypes
<1>0. /\ UNCHANGED <<now, scanner, scanned>> /\ RunsSettle /\ now \in Nat
      /\ \A d : ~Edit(d) /\ ~Enable(d) /\ ~Disable(d) /\ ~Delete(d)
      /\ client[c] \in Request /\ QueueRequest(c)
      /\ client[c].rev \in 0..MaxRevision
  <2>1. UNCHANGED <<now, scanner, scanned>> /\ RunsSettle /\ QueueRequest(c)
    BY DEF StartRequest, ClientStep, Tame, QueueInv
  <2>2. \A d : ~Edit(d) /\ ~Enable(d) /\ ~Disable(d) /\ ~Delete(d)
    BY DEF QueueAssumption, Edit, Enable, Disable, Delete, Receive
  <2>3. now \in Nat
    BY BoundsAssumption DEF Minutes
  <2> QED BY <2>1, <2>2, <2>3, ClientFields
<1>1. CASE Create(c) \/ Publish(c) \/ RequestRun(c) \/ Cancel(c)
           \/ CreateQueued(c) \/ PublishRunNow(c)
  <2>1. \A m \in Minutes : Exists(m)' =>
          Exists(m) \/ Kept(m)' \/ (due[m] # 0 /\ m > now)
    <3>1. CASE CreateQueued(c)
      <4>1. /\ RunMinute(c) \in Minutes /\ RunMinute(c) = now + 1
            /\ due[RunMinute(c)] # 0
        BY <3>1 DEF CreateQueued, Pending, OpenInv, RunMinute
      <4> QED BY <1>0, <3>1, <4>1 DEF CreateQueued, CreateRun, RunsType, Exists
    <3>2. CASE Cancel(c)
      BY <3>2 DEF Cancel, RunsType, Exists, Open
    <3>3. CASE UNCHANGED runs
      BY <3>3 DEF Exists
    <3> QED BY <1>1, <3>1, <3>2, <3>3
            DEF Create, SaveJob, Publish, RequestRun, PublishRunNow, store
  <2>2. Opens /\ Scans
    BY <1>0, <2>1, CreatedOpens DEF Scans
  <2>3. NoOrphanRun'
    BY <1>0, <2>2, StillNoOrphan
  <2>4. \A m \in Minutes : due[m] # 0 => due'[m] # 0
    BY TameKeeps
  <2> DEFINE Fine(d) ==
        /\ client[d].pc # "idle" => client[d].at = now
        /\ client[d].pc \in {"runDue", "runCreate"} => RunMinute(d) \in Minutes
        /\ client[d].pc = "runCreate" => due[RunMinute(d)] # 0
  <2>5. ASSUME NEW d \in Clients, client'[d] = client[d] PROVE Fine(d)'
    BY <1>0, <2>4, <2>5 DEF OpenInv, RunMinute
  <2>6. Reply(c) => Fine(c)'
    BY DEF Reply, Serve, IdleRequest, ClientType
  <2>7. Fine(c)'
    <3>1. CASE Create(c)
      <4>1. PICK enabled \in BOOLEAN : SaveJob(c, enabled)
        BY <3>1 DEF Create
      <4>2. \/ Reply(c)
            \/ Serve(c, [IdleRequest EXCEPT !.pc = "publish", !.at = now,
                                            !.rev = job.rev + 1])
        BY <4>1 DEF SaveJob
      <4> DEFINE r == [IdleRequest EXCEPT !.pc = "publish", !.at = now,
                                          !.rev = job.rev + 1]
      <4>3. r.pc = "publish" /\ r.at = now
        BY DEF IdleRequest
      <4> HIDE DEF r
      <4>4. Serve(c, r) => Fine(c)'
        BY <1>0, <4>3 DEF Serve, ClientType
      <4> QED BY <2>6, <4>2, <4>4 DEF r
    <3>2. CASE RequestRun(c)
      <4> DEFINE r == [IdleRequest EXCEPT !.pc = "runDue", !.at = now,
                                          !.rev = job.rev]
      <4>1. r.pc = "runDue" /\ r.at = now
        BY DEF IdleRequest
      <4>2. Serve(c, r) /\ now < Horizon
        BY <3>2 DEF RequestRun
      <4>3. now + 1 \in Minutes
        BY <1>0, <4>2, BoundsAssumption DEF Minutes
      <4> HIDE DEF r
      <4> QED BY <1>0, <4>1, <4>2, <4>3 DEF Serve, ClientType, RunMinute
    <3>3. CASE PublishRunNow(c)
      <4> DEFINE r == [client[c] EXCEPT !.pc = "runCreate"]
      <4>1. r.pc = "runCreate" /\ r.at = client[c].at
        BY <1>0 DEF Request
      <4>2. /\ Serve(c, r) /\ client[c].at = now /\ RunMinute(c) \in Minutes
            /\ PutDue(RunMinute(c), client[c].rev)
            /\ IsCurrent(client[c].rev)
        BY <1>0, <3>3 DEF PublishRunNow, OpenInv, Pending, QueueRequest
      <4>3. PICK n \in Minutes : n = RunMinute(c)
        BY <4>2
      <4>4. due'[n] # 0
        <5>1. client[c].rev # 0
          BY <4>2, TameKeeps
        <5>2. due'[n] >= client[c].rev /\ client[c].rev \in Nat
          BY <1>0, <4>2, <4>3, PutDueMoves, BoundsAssumption
        <5>3. due'[n] = due[n] \/ due'[n] = client[c].rev
          BY <1>0, <4>2, <4>3, PutDueMoves
        <5>4. due[n] \in Nat
          BY <4>3, BoundsAssumption DEF DueType
        <5> QED BY <5>1, <5>2, <5>3, <5>4
      <4> HIDE DEF r
      <4> QED BY <1>0, <4>1, <4>2, <4>3, <4>4 DEF Serve, ClientType, RunMinute
    <3>4. CASE Publish(c) \/ CreateQueued(c)
      BY <2>6, <3>4 DEF Publish, CreateQueued
    <3>5. CASE Cancel(c)
      BY <2>5, <3>5 DEF Cancel
    <3> QED BY <1>1, <3>1, <3>2, <3>3, <3>4, <3>5
  <2>8. \A d \in Clients \ {c} : client'[d] = client[d]
    BY <1>1 DEF Create, SaveJob, Publish, RequestRun, Cancel, CreateQueued,
                PublishRunNow, Reply, Serve, ClientType
  <2>9. \A d \in Clients : Fine(d)'
    BY <2>5, <2>7, <2>8
  <2> QED BY <1>0, <2>3, <2>9 DEF OpenInv
<1>2. ~ListKeys(c) /\ ~DeleteJob(c) /\ ~DeleteLock(c) /\ ~DeleteRuns(c)
  BY DEF NotDeleting, ListKeys, DeleteJob, DeleteLock, DeleteRuns, Pending
<1> QED BY <1>0, <1>1, <1>2 DEF StartRequest, ClientStep

LEMMA TickKeepsOpen ==
  ASSUME {"slowScan", "slowClient"} \cap Faults = {}, QueueInv, OpenInv, Tick
  PROVE  OpenInv'
<1>1. /\ now' = now + 1 /\ now \in scanned /\ now \in Nat
      /\ \A c \in Clients : client[c].pc = "idle"
      /\ UNCHANGED <<due, ready, runs, scanner, client, scanned>>
  BY QueueTypes, BoundsAssumption DEF Tick, MayTick, Pending, Minutes, store
<1>2. ASSUME NEW m \in Minutes, Open(m)'
      PROVE  ready'[m] # 0 \/ (due'[m] # 0 /\ m >= now' /\ m \notin scanned')
  <2>1. Open(m) /\ m \in Nat
    BY <1>1, <1>2, BoundsAssumption DEF Open, Exists, Minutes
  <2> QED BY <1>1, <2>1 DEF OpenInv, NoOrphanRun
<1>3. NoOrphanRun'
  BY <1>2 DEF NoOrphanRun
<1>4. scanned \subseteq Nat /\ \A s \in Scanners : scanner[s].m \in Nat
  BY QueueTypes, ScanFields, BoundsAssumption DEF ScannerType, Minutes
<1> QED BY <1>1, <1>3, <1>4 DEF OpenInv

(* While the clock waits for the scans and the requests, every open run will *)
(* be picked up: no order of them leaves one outside both queues.            *)
THEOREM NoRunIsOrphaned ==
  ASSUME QueueAssumption, {"slowScan", "slowClient"} \cap Faults = {}
  PROVE  Spec => []NoOrphanRun
<1>1. Init => OpenInv
  <2> SUFFICES ASSUME Init PROVE OpenInv
    OBVIOUS
  <2>1. /\ scanned = {} /\ now = 0 /\ \A m \in Minutes : ~Exists(m)
        /\ \A s \in Scanners : scanner[s].m = 0
        /\ \A c \in Clients : client[c].pc = "idle"
    BY DEF Init, Exists, IdleScan, IdleRequest
  <2> QED BY <2>1 DEF OpenInv, NoOrphanRun, Open
<1>2. QueueInv /\ OpenInv /\ [Next]_vars => QueueInv' /\ OpenInv'
  <2> SUFFICES ASSUME QueueInv, OpenInv, [Next]_vars PROVE OpenInv'
    BY QueueStep
  <2>0. Tame /\ QueueInv'
    BY QueueStep
  <2>1. ASSUME NEW s \in Scanners, StartScan(s) \/ ScanStep(s) PROVE OpenInv'
    BY <2>0, <2>1, ScannerKeepsOpen DEF QueueInv
  <2>2. ASSUME NEW w \in Workers,
               \/ (\E m \in Minutes : StartWork(w, m)) \/ WorkerStep(w)
               \/ WorkerShutDown(w)
        PROVE  OpenInv'
    BY <2>0, <2>2, WorkerKeepsOpen
  <2>3. ASSUME NEW c \in Clients, StartRequest(c) \/ ClientStep(c) PROVE OpenInv'
    BY <2>0, <2>3, RequestKeepsOpen
  <2>4. CASE Tick
    BY <2>4, TickKeepsOpen
  <2>5. CASE UNCHANGED vars
    BY <2>5 DEF vars, store, OpenInv, NoOrphanRun, Open, Exists, RunMinute
  <2> QED BY <2>1, <2>2, <2>3, <2>4, <2>5, NothingBreaks DEF Next, Quiet
<1>3. OpenInv => NoOrphanRun
  BY DEF OpenInv
<1> QED BY <1>1, <1>2, <1>3, QueueInit, PTL DEF Spec

=============================================================================
