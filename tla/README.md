# A verification of VeADK Studio: its cron scheduler and its user interface

Two parts of VeADK Studio carry protocols of their own, and this directory models both
in TLA+, checks them with TLC and proves their main safety properties with TLAPS: the
scheduler that runs agents at given times, and the parts of the browser's user
interface whose requests overlap, together with the endpoints that answer them.

*The scheduler.*  VeADK Studio runs agents on a schedule.  A *job* says what to run and when; every
occurrence of its schedule becomes a *run*.  Two stateless cloud functions (a scanner
and a worker, any number of replicas of each) and the Studio's own backend work on
these objects at the same time.  They share nothing but JSON objects in a TOS bucket,
which offers conditional writes (`forbid_overwrite`, `if_match`) on single objects and
nothing else.  There is no transaction, no queue service and no resident process, and
each function may die at any await.

*The user interface.*  A handler in the browser awaits several requests, and between
two of them the user may do anything else the page offers, or reload it; a request may
be executed although its answer never comes; an answer may come when the page shows
something else.  What a handler assumed when it began is kept in refs, flags, closures
and the browser's storages, which other handlers change.

Paths below are relative to `src/`; `studio_scheduler/` stands for
`frontend/service/studio_scheduler/`, `cronjobs/` for `frontend/server/cronjobs/`.

## 1. Inventory

### The scheduler

| part | state | operations | interacts with |
|---|---|---|---|
| scanner, `dispatcher.py` `dispatch_minute` | none of its own | for each due pointer of the current minute: check the job, put the ready entry, create the queued run, write the next due pointer | TOS; the worker through the ready queue |
| worker, `dispatcher.py` `execute_ready` | the activations of one batch, at most `execution_concurrency` at a time | drop a stale entry; acquire the job's lock; close an abandoned run; claim the run; call the Runtime with retries; persist the outcome; delete the entry; release the lock | TOS; the Runtime; the Studio through the cancel flag |
| run control, `_RunControl` | none | `is_cancel_requested`, `mark_acknowledged` | called back by the Runtime provider |
| TOS repository, `tos_repository.py` | objects `job.json`, `due/<minute>/`, `ready/`, `runs/<id>.json`, `lock.json` | get / conditional-put loops | all of the above |
| Runtime provider, `runtime_provider.py` | the HTTP stream | create a session, `run_sse`, poll for cancellation | the Runtime; run control |
| publisher, `publisher.py` | none | publish the next, or a manual, due pointer | the Studio service |
| schedules, `schedule.py`, `models.py` | none | next occurrence after a minute | scanner, worker, service |
| cronjob service, `cronjobs/service.py` and `repository.py` | none | create, update, enable, disable, run now, cancel, delete | the same TOS objects |
| timers and loops, `http_app.py`, `local_runner.py` | last minute dispatched | call the scanner and the worker | |

What is hard here: the two conditions a step relies on (who holds the lock, which
revision is current, whether the run is open) are read in one request and used in a
later one; every step may be the last; every delivery may come twice; a lease may end
while its holder is at work; and the schedule of a job is a chain in which each
occurrence is published by the one before.  What has to hold:

* *run objects*: a terminal result is final, cancellation and acknowledgement are never
  lost, a run that left the queue is never claimed again;
* *worker*: executions of a job exclude each other; an occurrence is executed at most
  once, whatever crashes; the recorded outcome really happened; every run finishes;
* *scanner and service*: no occurrence is lost, no queued run is forgotten;
* *schedules*: the chain fires exactly when the user asked for, through changes of the
  zone's clock and through the two forms in which a schedule is written.

`PROJECT.json` lists the hazards of this code line by line, with the property that
watches each of them.

### The user interface

| part | state | operations | interacts with |
|---|---|---|---|
| development task, `useDevelopmentRun.ts`, `useDevelopmentRunObserver.ts` | the refs `currentIdentity`, `retryInput`, `sending`, `stopIntent`; the observer's last run | submit, stop, resume, report a run, leave and enter a session | the run store behind `intelligent_development_runs/` |
| chat conversations, `App.tsx`, `transcriptReconcile.ts`, `blocks.ts` | session shown, controllers and streaming flags by session, transcripts, the session being created | send, authorize, resume a turn, stop, new chat, pick and remove a session, load its history, reconcile after a reply | the agent server's sessions and event streams |
| creation of a managed agent, `MpaCreateDialog.tsx`, `mpaCreation.ts` | the dialog's form and refs, one entry of the session storage | submit, cancel, recover, poll, close, start another agent | the creation tasks of `managed/tasks.py` |
| self update, `StudioUpdateControl.tsx` | phase and target, entries in the local and the session storage | check, begin, poll, retry, reload | `studio_self_update.py` on whatever instance answers, and the deployment |

What has to hold: a message reaches one run although its submission is repeated; a stop
reaches the run it was meant for, and is forgotten otherwise; the stop button has a
stream to stop, messages do not vanish from a transcript, and the composer is unlocked
again; a creation that is at work at the server is found again after a reload, its form
stays locked (unless the server calls the inputs of a retry invalid), and its end is
shown; an update of the Studio survives the replacement of
the server that reports on it, and ends.

The parts share no state in the browser.  The scheduler and they share none either:
the page shows the scheduler's runs, and its requests are the client of `CronDispatcher`.

### The rest of the repository

VeADK itself (`veadk/`) configures Google ADK agents and wraps cloud services: agents
and runners, runtimes that drive external agent processes, memory, knowledge bases,
tools, tracing, authentication, A2A, a large command line.  The Studio server
(`frontend/server/`) is about thirty packages of REST handlers, most of them one cloud
call per request.  Parts with protocols of their own, and so candidates for later work:
the leases and checkpoints of intelligent development runs, the Codex runtime's turn
control, thread store and process pool, the Studio tool connector and channel (requests
over a reconnecting socket), the tunnel, MPA operations and evaluation automation.  Most
pages of the browser render what one request answered.  `PROJECT.json` names them all
with the reason they are left out.

## 2. The modules

| module | models | role |
|---|---|---|
| `RunRecord` | the fields of `ScheduledRun` that decide anything | data shared by the others |
| `RunLifecycle` | what the scheduler promises about one run object | abstract specification |
| `RunStore` | one run object, and the repository calls that race on it, HTTP request by HTTP request | implements `RunLifecycle` |
| `JobObjects` | what the scheduler promises about the lock of a job and the due pointer of a minute | abstract specification |
| `JobStore` | these two objects, and the activations that acquire, release, delete and publish, HTTP request by HTTP request | implements `JobObjects` |
| `CronDispatcher` | scanner, worker, service, publisher, Runtime and the objects of one job | the composition |
| `CronSchedule` | `schedule.py`, the conversions between the API's and the stored form of a schedule, the chain of due pointers | what `CronDispatcher` takes as the constant `Occurrences` |
| `DevelopmentTask` | the hook of one development session and the store of its runs | |
| `ChatStreams` | sessions, streams, controllers and transcripts of the chat page | |
| `AgentCreation` | the creation dialog, its storage and the server's tasks | |
| `StudioUpdate` | the update control, its storages, the updater and the deployment | |
| `StudioMC` | the four parts of the user interface side by side | instance for TLC |
| `StoresMC` | `RunStore` and `JobStore` side by side | instance for TLC |
| `CronDispatcherMC`, `CronScheduleMC` | instances for TLC | |
| `StoreProofs`, `CronDispatcherProofs`, `CronRunsProofs`, `CronScheduleProofs`, `DevelopmentTaskProofs`, `ChatStreamsProofs`, `AgentCreationProofs`, `StudioUpdateProofs` | | theorems |

**RunStore.**  `object` and `etag` are the stored version; `call[c]` is the repository
method caller `c` is in: its next request (`pc`), the body it wants to write, the body
and tag it read, and how many puts were refused.  One action is one HTTP request, so the
requests of different callers interleave freely.  A put may be applied and its reply
lost, and any request may fail.

**JobStore.**  `lock`, `lockTag` and `due`, `dueTag` are the stored versions; `task[a]` is
the call activation `a` is in, or `"holding"` while it works under the lock.  `at` is the
clock reading an activation takes before its first request, from which its lease is
counted, so a slow activation may hold a lease that is already over.  `by` stands for the
lock's `replica_id` and `acquired_at`, which the code writes and never compares:
`release_lock` compares `run_id` only.  `Using(a)` says that `a` believes it has the lock,
and `freed` is history: whose lock somebody else released or deleted.  `Live(a)` is the
property a user of the lock wants to have: it uses it, within its lease, and nobody gave
it away.  Any activation may be for any run, so redelivery and several activations of one
run are included.

**CronDispatcher.**  Time is the UTC minute.  `deterministic_run_id` hashes the user, the
job and the minute, so a run is named by its minute: `due[m]`, `ready[m]`, `runs[m]`
(pointers hold the revision, 0 when absent), `job`, `lock`.  `scanner[s]`, `worker[w]`
and `client[c]` are the coroutines, with a program counter and the locals they carry
across awaits: in particular `worker[w].at`, the clock reading taken *before* `get_job`
and used as the start of the lease.  One action is one repository or Runtime call with
the local code up to the next await.  The pc names follow the code:
`job`-`stale`-`staleReady` are lines 208-213 of `dispatcher.py`, `lock` is `acquire_lock`,
`skip`-`skipDue`-`skipReady` 225-229, `abandon` to `nextDue` 233-275,
`check`-`attempt`-`calling`-`ack`-`streaming`-`retry`-`decide`-`finish` the loop of
`_execute`, `verify` 277-290, `handler`-`handlerReady` 295-327, `release` the finally
block.  `started[m]` counts how often the Runtime accepted run `m`; it is history and no
step reads it.

**CronSchedule.**  `asked` is the schedule as the user sent it, `schedule` the stored one
(`_scheduler_schedule`), `after` and `candidate` the locals of `next_scheduled_time`.  One
`SearchRound` is one iteration of the loops in `schedule.py`; `Scan` is the scanner
publishing the occurrence after the pointer's minute; `Edit` is a Studio request that
changes something else, which reads the schedule with `_api_schedule` and writes it back.
`fired` holds the minutes whose pointers were scanned.  The reference (`Occurs`) does not
use the code's numbers: days of the week are compared by name, cron fields by their
ranges.

Composition: `RunStore` shows that each repository method takes effect at one moment, or
fails, and `RunLifecycle` is what remains visible of it; `JobStore` and `JobObjects` do
the same for the lock and the due pointers.  `CronDispatcher` uses that and
takes each method as one action.  The run `lifecycle` then checks the other direction,
that the handlers keep every run within `RunLifecycle`, and the theorem
`ObjectsAreSharedSafely` that they keep the lock and every pointer within `JobObjects`.
`CronDispatcher` takes a schedule
as the set of its minutes, and the next occurrence as the least later one; that the search
computes just that is `FiredExactly` of `CronSchedule`.

**DevelopmentTask.**  `submits[i]` is the call that sends input `i`, at one of its awaits
(`list`, `send`, `stop`), with the answer it has or waits for; `halt` is the stop call.
An input is the object the code calls retry input: its client id, its text, the run it
was sent to and the stop meant for it; a call in flight keeps it although `retryInput`
refers to another one by now.  `here` is `active()`: the code compares the session, so a
call that outlives a departure is active again after the return.  `runs` is the store,
one transaction of `repository.py` per action.  Queued, running and recovering are one
state, since no endpoint tells them apart.

**ChatStreams.**  `calls[m]` is one call of `send`, `onAuth` or `applyTurnControl`;
`aborts[s]` is the call whose controller `streamAbortsRef` holds for the session.  A turn
is its message, the call whose final event completed it, and who made it, which is how
`upsertProjectedAssistantTurn` and `reconcilePersistedTranscript` compare turns.  `loads`
and `reads` are the `getSession` calls of `pickSession` and `refreshSessionTranscript`;
what the backend had when it read them is applied later.

**AgentCreation.**  A task is named by its request id, which the server keeps unique.
`kept` is the storage entry, `form` the dialog; `posts` are requests on their way, which a
reload does not stop; `recovery`, `poll` and `action` are the three loops that may answer
in any order.  `ServeCreation` is the whole handler of `mpa_creation.py`: it checks a
retry like a first request and may refuse it whatever its task does, because the
configuration, the credentials and the names may have changed; only then does `Started`
look for the task.  `Refusals` are the kinds of refusal the dialog tells apart: 400 and
422 unlock the form (`invalid`), 409 and 503 of the name check (`taken`) only that of a
first submission, which `action.again` (`wasSubmitted`) says; other refusals leave it
locked.  `givenUp`, `rejected`, `cuts` and `stale` are history and budget: `rejected` has
the requests whose inputs were called invalid since the dialog last got their task as an
answer.  Two copies of one request in transit are one in the model: the second is
answered as the first.

**StudioUpdate.**  `begins[a]` is `beginUpdate` of attempt `a`, `requests[a]` its submission
as the server sees it, `pending` and `handoff` the two storages, `answers` the polls and checks that were
answered and not looked at.  The timers send one whether or not the earlier ones came
back, and nothing cancels those under way, so up to `MaxPolls` are looked at in any order,
in any phase, after the end of the wait and in the next attempt.  A poll whose answer was
looked at counts as sent when the server answered it.
Any instance may answer, so a status comes from the updater that works or from a new one.

### Abstractions

* One job.  Every key carries the user and the job, and nothing is shared between jobs
  except the worker's batch, see *fairness*.
* `get_run` followed by `update_run` is one step.  `update_run` reads again, keeps a
  terminal body and merges the flags, so what the earlier `get_run` saw only decides
  whether the call is made at all; a terminal body makes it void either way.  The one
  case this hides is a deletion of the object exactly between the two.
* A method that raises after its write was applied is the method followed by a failure
  of the next step; for `acquire_lock`, which has no finally block behind it yet, that
  is a crash at the next step.
* The text, output and timestamps of a run are left out.  Schedules are sets of minutes
  per revision (`Occurrences`) in `CronDispatcher`, and expressions in `CronSchedule`.
* `zoneinfo` and the calendar are constants: the UTC offset of each minute, the month and
  day of each local day, the weekday of the first.  A cron field is a set of ranges with
  a step, so splitting and reading the text is left out; the range checks are not.  The
  zone lies east of UTC (offsets from 0 to a day); west is the same with other day numbers.
* Enabling a job is, for its schedule, an `Edit` after which the chain starts anew;
  disabling is in `CronDispatcher`.
* The Runtime is external: it may accept, refuse, or stay silent, and a stream may end
  in any way.  With `"lateAck"` it may also have accepted a run for which the gateway
  answered 502, 503 or 504.
* In the user interface an action is the code between two awaits; effects that run after
  a render are part of the step that caused them.  Texts, fields, attachments, the blocks
  within a turn, logs and telemetry are left out.  A lost request and a lost answer look
  the same to the browser and differ at the server; both are modelled.
* One browser tab is modelled.  The storages of two tabs are separate except for the
  update's, where the second tab sees the entry only when it loads.

### Faults and assumptions

The constant `Faults` says what may go wrong.  `crash`, `storage` (a repository call
raises) and `shutdown` (task cancellation: only the finally block runs) are budgeted by
`MaxFaults`.  `redelivery` scans a minute again.  `slowScan`, `slowClient` and `overrun`
lift the three assumptions that `MayTick` makes about time: that a minute is scanned
within that minute, that a Studio request ends in the minute it starts in, and that a
lease outlives its holder's work.  The code enforces none of the three:
`max_runtime_seconds` is used as httpx's timeout, which bounds each read and not the
call, and the retries and the storage calls come on top.  They hold when the bucket and
the Runtime are fast compared with a minute, and the properties below say which of them
they need.

## 3. What TLC checks

Every configuration of the scheduler has `Horizon = 3`: minute 0 creates the job, the occurrences fall on
the minutes 1 and 2, and minute 3 is late enough for a lease of two minutes, taken in
minute 1, to expire and be taken over.  Two workers are enough for every property, since
each speaks of a holder and one rival; two consecutive occurrences make two runs compete
for the lock.  Budgets and bounds (`MaxRequests`, `MaxRevision`, `MaxFaults`, `MaxCalls`)
cap the number of requests, edits, faults and calls, and are in the guards of
the actions that use them up.  A fault also needs `now + Lease <= Horizon`: otherwise the
bounded clock could end before the lease does, and nothing could recover.

| run | properties | what it shows |
|---|---|---|
| `stores` | `TypeOK`, `SnapshotIsCurrent`, `ConflictOnlyUnderContention`, `CompletedRunsRefuseCancel`, `ImplementsLifecycle`; `JobTypeOK`, `LeaseStands`, `ImplementsObjects` | the read / conditional-put loops implement the atomic life cycle of a run, and the atomic lock and pointer; a live lease is the stored one |
| `dispatch` | `TypeOK`, `MutualExclusion`, `NoOrphanRun`, `ReadyOutlivesRun` | without faults, executions exclude each other and no open run leaves the queues, with manual runs and cancellations |
| `edits` | `NoMissedOccurrence` | edits, disabling and enabling race with the scan; the schedule of the current revision goes on |
| `recovery` | `StartedAtMostOnce`, `OutcomesAreEarned`, `LeaseCoversHolder` | overlapping and repeated scans, two faults anywhere: at most one execution, true outcomes |
| `lifecycle` | `RunsFollowLifecycle` | leases lost under a live holder, late acknowledgements, deletion of the job in between: every object still follows `RunLifecycle` |
| `eventual` | `ReadyDrains`, `RunsFinish` | under fairness and with a crash anywhere, the queue drains and every run finishes |
| `studio` | `TaskTypeOK`, `RecordedOnce`, `StopReachesSubmission`, `StopSettles`; `ChatTypeOK`, `StreamingIsStoppable`, `UnansweredStay`, `ComposerUnlocks`; `CreationTypeOK`, `WorkIsKept`, `FormIsLocked`, `EndIsShown`; `UpdateTypeOK`, `WaitIsStored`, `ReloadsEnd`, `PublishedIsServed`, `UpdateSettles` | the four parts of the user interface, over every order of their requests, answers, refusals, losses and reloads |
| `schedule_chain` | `TypeOK`, `FiredExactly`, `OncePerOrdinaryDay`, `OnlyImpossibleCronFails` | the chain of due pointers is the schedule the user asked for; a search gives up only on a cron expression without an occurrence |

Each property has a mutant: a definition of the model changed the way a plausible bug
would (the lease comparison reversed, a put without `if_match`, an older revision that
wins in `put_due`, a run claimed again after a crash, ...), for which TLC reports that
property violated.

`stores` has two sets of behaviours, one per module: the constant `part` says which one is
at work.  For the run object two callers make up to five calls.  For the lock three
activations make one call each, for two runs and two revisions, over clock readings 0 to
3 and a lease of 2.  Three are needed: a holder outlives its lease, its successor takes
the lock over for the same run, and the late release of the first frees it for a third,
which is the case `LeaseStands` has to describe (`freed`).

`schedule_chain` uses hours of two minutes, days of three hours and months of five or six
days; the week has its seven days.  The clock
skips an hour in the fifth day and repeats one in the twelfth, the chain goes on for
sixteen days, and the requests include local times in the skipped and the repeated hour,
day fields with every combination of restricted and unrestricted, 7 for Sunday, steps,
a date that is missing in the second year, and fields out of range.  The search limits
are longer than two weeks: a weekly job at a skipped time needs that much (so does
`ZoneAssumption`), and 104 weeks in the code are more than enough.  The run stops at the horizon, when a once schedule is over and when a
search fails, so it does not check deadlock.

Days on which the clock changes are left out of `OncePerOrdinaryDay` on purpose.  A daily
job at a skipped time does not run that day, and one at a repeated time runs twice;
`FiredExactly` says so too, since it counts the minutes in which the clock shows the time.
Neither the documentation nor the tests say anything else.

`studio` has the four parts of the user interface as four sets of behaviours: the
constant `page` says which one is at work, and the others keep their initial state, in
which none of their fair steps changes anything.  Two client ids and two runs let a
message be sent again, steered, or sent to a second run; two sessions and two calls let a
stream be replaced in its session or run beside another; two request ids let a task of an
earlier request answer a recovery for the later one; two attempts let the poll or the
submission of the first be answered in the second, and with two polls under way
(`MaxPolls`) one is looked at after the other has ended the wait; that more of them
change nothing for the safety properties is what the theorems say.  `MaxTroubles`, `MaxCuts` and
`MaxSwitches` bound stops, departures, reloads, restarts and lost requests; with two of
them a submission is lost twice, or lost and left.

Fairness of the user interface: requests are answered or time out, streams end, polls
are sent on their timers and answered, time passes, and the server's tasks and stopping
runs end (both have a time limit).  Nothing is assumed of the user.

What these models showed beyond their properties, each a step sequence the code allows:

* `startNewChat` during `createSession` leaves `creatingSessionRef` set, so the next
  message waits for the same session and two streams run in it, the first without a
  controller, although `App.tsx:5410` excludes concurrent sends.  `StreamingIsStoppable`
  speaks of the registered one, and `Waiters` of `CreateSession` is this case.
* An authorization that outlives a reconciliation appends its continuation as a second
  turn (`App.tsx:5742` speaks of the same turn), and `onAuth`'s finally ends the streaming
  state of its session even when another stream has taken over.
* A call of `useDevelopmentRun` that survives leaving and returning runs beside the next
  one, and their message may reach two runs: `RecordedOnce` is stated for `~left`.
* A failed creation that is submitted again with its answer lost is not polled any more,
  and a second cancellation answered late shows the end state as being cancelled:
  `EndIsShown` leaves out both (`stale`).
* A retry is checked like a first request, so a change of the configuration or of the
  credentials makes it invalid although its task works or has failed.  The form is then
  unlocked, and if the dialog had not learned of the task (its answer was lost), the draft
  takes the place of the submitted entry in the storage (`MpaCreateDialog.tsx:193`, 467);
  what the user edits then is refused as "different inputs" (`tasks.py:353`).
  `FormIsLocked` and `WorkIsKept` name this exception (`rejected`).
* Two polls under way after the reload that announces a version reload the page once
  more: the first publishes and forgets the announced version, and the second finds that
  none was announced (`StudioUpdateControl.tsx:347-355`).  `ReloadsEnd` says that this is
  the last time.  A poll that is answered with an error after the announcement turns it
  into an error.
* A submission answered during the permission check of the next attempt makes the older
  version the stored one (`WaitIsStored` asks only for a version); a failed network
  request of that check leaves the control checking for ever; a poll of the
  attempt before, or a release store that cannot be read for a moment, ends the wait with
  an error although the update goes on.

Four runs expect a violation.  Each shows a statement of the documentation or of the
code's own messages that the code does not keep:

| run | property | the shortest story |
|---|---|---|
| `lost_work` | `NoMissedOccurrence` | the job is saved, the Studio dies, the first due pointer is never published; equally a scanner that dies before line 171 |
| `run_now_race` | `NoOrphanRun` | "run now" reads 10:00:59, publishes for 10:01 at 10:01:05, after the scan of 10:01 |
| `edit_race` | `ReadyOutlivesRun` | scan: put ready; edit; worker: stale, nothing to close, entry deleted; scan: create the queued run, which no queue holds |
| `creation_identity` | `SubmittedIdentityKept` | an earlier creation failed; a draft is reopened and submitted; the list of tasks is read before the new request arrives; its answer puts the failed creation in the submitted one's place |

`SkippedNeverStarted` (CronDispatcher) fails too: worker A is refused; the holder releases;
worker B starts the run; A records it as skipped and B's result is discarded.

`MutualExclusion` fails as soon as `overrun` is added, and `StartedAtMostOnce` as soon as
`lateAck` is: these are the assumptions of the theorems below, not extra runs.

**Fairness** (`FairSpec`).  Weak fairness of each coroutine's steps: an awaited call
returns.  It does not cover crashes, requests or the start of a request.  Weak fairness
of the clock and of the scan: the timers fire.  Strong fairness of starting work on each
pointer: the worker lists the queue every minute (every second in the local loop), so a
pointer that keeps being in the queue while an activation keeps becoming free is taken.
This is an assumption about the batch: `list_ready` takes the first
`ready_batch_size` keys in key order and fails as a whole if a listed entry disappears
before it is read, so it holds while the queue is shorter than the batch and listings do
not fail for ever.  The run uses one worker, no symmetry, and a clock that stops
at the horizon; a lease taken late could otherwise never expire within the bound, which
is what the guard on faults is for.

## 4. What is proved

All theorems hold for every value of the constants (scanners, workers, requests, horizon,
lease and schedule; messages, runs, versions, attempts; every budget of faults), under the
named assumptions on the constants only.

* `StoreProofs`: `StoreTypeOK`, `SnapshotsAreCurrent`, `StoreImplementsLifecycle`,
  `CompletedRunsAreNotCancelled`, `ConflictsAreEarned` (`ConflictOnlyUnderContention`).
  The inductive invariant is
  the type invariant, the fact that no caller holds a tag newer than the stored one, and
  that a caller about to put holds the body its tag belongs to.  A put whose tag matches
  thus rewrites the body that was read, and the step is the abstract `Advance` or
  `RequestCancel`; every other step stutters.  For the conflicts, `RoundsInv` counts the
  refused rounds against the ETags since the first read: a put is refused only over a
  newer ETag, because a body that was deleted moved it as well.
* `StoreProofs`: `TerminalFinality`, `StickyFlags`, `NoRequeue`.  What the abstract
  life cycle promises, so also the loops that implement it: stored results are final,
  flags only rise, nothing returns to the queue.
* `StoreProofs`: `JobTypes` (`JobTypeOK`), `LeasesStand` (`LeaseStands`), `LeasesExclude`,
  `LateReleasesFree`.  `LeaseStands` is not inductive: a conditional put could still
  overwrite a live lease.  The invariant `ObjectsInv` adds what a caller about to put
  knows of the version its tag names (`TaskInv`): no tag is newer than the stored one, so
  a put whose tag matches writes over exactly the body that was read; an acquirer read a
  lock that was released or over at its own clock reading, a releaser one held for its
  run, a publisher an older revision.  A lease over at an earlier reading is over now, so
  no acquisition ends a live one.  A release may: `release_lock` compares the run, and
  `LateReleasesFree` is what remains: only an activation of the same run whose own lease
  is not live any more takes the lock of a live one.  So it needs a run that is at work twice, which
  `CronDispatcher` excludes as long as leases outlive their work (`LeasesCover`).
* `StoreProofs`: `StoreImplementsObjects` (`ImplementsObjects`), the refinement of
  `JobObjects`, and through it `LeasesFollowEachOther` and `RevisionsOnlyRise`.  The
  mapping forgets `by` (`AbstractLock`); a put whose tag matches is the abstract
  `Acquire`, `Release` or `PutDue`, and every other request stutters.
* `CronDispatcherProofs`, `ObjectsAreSharedSafely`, without any assumption on the faults:
  the other direction, `Spec => ObjectsAreShared`, for the lock and the pointer of every
  minute.  It needs type correctness and `LockAbsent` (an absent lock has one form).
* `CronDispatcherProofs`, `DispatcherTypeOK`: `Spec => []TypeOK` for the whole
  dispatcher.  `TypeOK` is not inductive: that the attempt counter stays within
  `Attempts` needs `AttemptLeft` (whoever is about to retry has an attempt left).
* `CronDispatcherProofs`, `LeasesCover` and `Exclusion`, assuming
  `"overrun" \notin Faults` and `"delete" \notin Requests`.  The chain is: a worker that
  reached the lock did so within its own lease; the lock it wrote names its run and its
  expiry; nobody may take over an unexpired lock, and only the holder's run may release
  it, so there is one holder.  The subtle case is the run comparison in `release_lock`: it
  identifies the run, not the replica, so a second holder of the same run would be
  released by the first; the invariant excludes that second holder.  Crashes, storage
  failures, cancellations, redelivery and slow scans are all allowed.
* `CronRunsProofs`, `StartsOnce`, assuming also `"lateAck" \notin Faults`:
  `StartedAtMostOnce`.  The invariant says that a run which was started left the queue,
  and that whoever is on the way to a Runtime call found it not started yet, alone under
  the lock; a crash leaves the run active or terminal, and `Existing` never claims such a
  run.
* `CronRunsProofs`, `OutcomesEarned`, assuming only `"delete" \notin Requests`:
  `OutcomesAreEarned`.  Leases may be lost and answers may come late.  The invariant says
  what each activation is about to persist: from the acknowledgement on, its run was
  started; an outcome "cancelled" in its hands is backed by the flag in the stored run,
  which no writer unsets (`WorkerEarned`).  A deletion would remove that flag.
* `CronRunsProofs`, `NoOccurrenceIsMissed`, assuming
  `{"crash", "storage", "slowScan", "slowClient"} \cap Faults = {}`: `NoMissedOccurrence`.
  The invariant `ScheduleInv` follows the chain of due pointers.  Until the pointer of the
  next occurrence is stored somebody has promised it (`Promised`): a request about to
  publish, a scan that has this minute's pointer, or the scan of this minute itself; and
  the clock waits for all three.  Every pointer is of a revision that was saved, and one
  of the current revision lies after the save (`Fits`), so an edit starts a chain of its
  own; and when this minute belongs to the current revision, everyone who scans it, and
  the ready queue, have that revision (`MinuteInv`), so the conflict of two revisions in
  one minute never costs the current one its run.  Deletion, run-now, redelivery, shutdown
  of workers and lost leases are all allowed.
* `CronRunsProofs`, `ReadyOutlives` (`ReadyOutlivesRun`) and `NoRunIsOrphaned`
  (`NoOrphanRun`), assuming `QueueAssumption`: no crash, failed call or overrun, and no
  edit, disable, enable or delete; the second also without `slowScan` and `slowClient`.
  `run_now_race` and `edit_race` show what `slowClient` and an edit break.  A step is `Tame` when it adds only
  pointers of the current revision, drops only ready entries of finished runs and keeps
  runs finished; then "in the ready queue or finished" (`Kept`) is stable, and it is what
  every activation and every scan past `put_ready` knows of its run (`QueueInv`).  That
  every step is tame rests on the lock: it is never left behind (`LockHeld`), so no lease
  expires and nobody takes a run over before it was created.  For the open runs `OpenInv`
  adds that "run now" publishes for a minute that is still to be scanned.  Redelivery,
  shutdown and late answers are allowed.
* `CronDispatcherProofs`, `RunsLiveByTheLifecycle`, without any assumption on the faults:
  `Spec => RunsFollowLifecycle`, the refinement of `RunLifecycle` run by run.  It needs
  type correctness only, since the guards are in the repository methods themselves.
* `CronScheduleProofs`: `ScheduleTypeOK`, `ChainIsExact` (`FiredExactly`),
  `OrdinaryDaysHaveOneRun` (`OncePerOrdinaryDay`) and `OnlyCronSearchesFail`
  (`OnlyImpossibleCronFails`), for every calendar, zone, request and number of edits.
  Three lemmas carry them: one round of the search tests what the user asked for
  (`SearchTestsWhatIsAsked`: the weekday numbers denote the same names, and a day field is
  restricted exactly when its set is smaller than 31 or 7, which compares cardinalities
  and so needs the finite-set theorems); an edit writes back the same schedule
  (`EditKeepsStored`, `OnceRoundTrip`); and the loop invariant, nothing to fire between
  `after` and `candidate`.  Least elements come from the well-foundedness of the
  naturals.  `ChainIsExact` excludes once schedules that the API's form cannot express
  (`Expressible`): in the second pass of a repeated hour an edit moves the run an hour
  earlier, and a skipped wall clock time has no minute that shows it.
  The other two need the arithmetic of whole days.  A local minute has one day, hour and
  minute (`Quotient`, `Division`), so a day whose local minutes are shown once each has
  one minute of the wanted time (`OneMinuteOfDay`), and by `FiredExactly` that minute, and
  no other of the day, fired.  Seven days of constant offset show every weekday at every
  time (`WeekShowsAll`); the loop invariant says that what the search passed did not
  match, so a search over such a week does not reach its limit.  That there is such a week
  within the limit, in the code two years, is `ZoneAssumption`.

* `DevelopmentTaskProofs`: `TaskTypes`, `StopsReachSubmissions` (`StopReachesSubmission`)
  and `MessagesAreRecordedOnce` (`RecordedOnce`).  For the first two the invariant follows
  one submission: a run that answered it exists, a stop it awaits has halted that run, and
  an input that was delivered is no retry input any more, so that no later stop can be
  meant for it.  `RecordedOnce` needs what the user's stay in the session gives:
  submissions are one at a time and of the retry input (`Alone`), the run created for the
  retry input is the last one (`Owned`), and a list of runs that the browser holds is
  current (`Known`).  Each fails once the session was left, so the invariant is
  `left \/ OnceInv`.  That the last run exists at all is the least-element principle of
  the naturals.
* `ChatStreamsProofs`: `ChatTypes` (`ChatTypeOK`), `StopReachesTheStream`
  (`StreamingIsStoppable`) and `WaitingMessagesStay` (`UnansweredStay`).  What the page
  shows, what the backend has and every answer still under way is a transcript of
  messages that exist, without two turns of one identity (`TranscriptsInv`): a call's own
  message is new when it is sent, and afterwards its stream finds the turn it writes.  A
  session's controller belongs to a running stream of that session, and a session shown as
  streaming has one (`OwnersInv`), because a stream that ends drops the controller exactly
  when it still owns it.
* `AgentCreationProofs`: `CreationTypes`, `WorkStaysKept` (`WorkIsKept`) and
  `FormStaysLocked` (`FormIsLocked`).  The two properties hold each other up: the storage
  keeps the one request that is out and not given up (`KeptInv`), an open dialog is about
  the request in the storage, or nothing is in it (`FormInv`), and what may still change
  either is bound to them: what the recovery found, what the poll has seen and what the
  submission is for is the dialog's own request or one the user left (`RecoveryInv`,
  `PollInv`, `ActionInv`).  A name found taken unlocks the form of a first submission
  only, and that answer was given while there was no task (`ActionInv`).  Inputs called
  invalid do so at any time, and then the entry is a draft of the same request: what
  remains to show is that nothing else takes the draft's place, which holds because it was
  typed in, so that no recovery is asked for before it is submitted anew (`DraftInv`).
* `StudioUpdateProofs`: `UpdateTypes`, `WaitsAreStored` (`WaitIsStored`), `PageReloadsEnd`
  (`ReloadsEnd`) and `PublishedVersionsServe` (`PublishedIsServed`).  The invariant says
  what a reload leaves behind (`Reloaded`): its version serves, no call of `beginUpdate`
  and no status names it as work, and either the storage remembers the reload or the page
  does not wait for that version; after a second reload it no longer has it as its target,
  so that no poll still under way can ask for a third.  At most one submission is at work, and versions only
  grow.

Only model-checked: the liveness properties (`ReadyDrains`, `RunsFinish`, `StopSettles`,
`ComposerUnlocks`, `EndIsShown`, `UpdateSettles`), since TLAPS 1.4.5 does not do fairness.

## 5. Plan

Modelled in this order, most important first: run objects, the lock and the due
pointers, dispatcher with worker and scanner, service, schedules, then the user interface
part by part.  Next:

1. Several jobs, the ready batch and `list_ready`: starvation behind entries that stay.
2. The in-memory repository against the TOS one.
3. The leases and checkpoints of intelligent development runs behind `DevelopmentTask`,
   and the Codex turn control behind the resumed turns of `ChatStreams`.
4. Two tabs with one local storage in `StudioUpdate`, and two versions to choose from,
   which its state space allows only in a run of its own.

Not modelled, and not planned: reads that only feed the user interface, ownership checks
and identity, deployment of the functions, configuration, diagnostics and texts.
