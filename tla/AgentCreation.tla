---------------------------- MODULE AgentCreation ----------------------------
(* The dialog that creates a managed agent (MpaCreateDialog.tsx), the entry  *)
(* it keeps in the browser's session storage, and the creation tasks of the  *)
(* server (mpa_creation.py, managed/tasks.py) for one user and region.       *)
(*                                                                           *)
(* The browser draws a request id for every agent the user wants, and the    *)
(* server keeps one task per request id, so tasks are named by their request *)
(* here.  The dialog may be closed or the page reloaded at any time; the     *)
(* request it was waiting for may still reach the server.  The fields of the *)
(* form, its first two steps and the configuration are left out: typed says  *)
(* whether the form differs from a fresh one.                                *)
EXTENDS Naturals

CONSTANTS
  MaxRequests,  \* request ids the browser may draw
  MaxCuts       \* reloads, lost requests and lost answers, together

ASSUME CreationBounds == MaxRequests \in Nat \ {0} /\ MaxCuts \in Nat

VARIABLES
  tasks,      \* the state of each request's task at the server
  posts,      \* creation requests on their way to the server
  drawn,      \* request ids drawn so far
  kept,       \* the entry in sessionStorage
  form,       \* the state of the dialog
  recovery,   \* the request for the user's tasks, sent once per dialog
  poll,       \* the poll of the shown task
  action,     \* the call that holds the lock: submit or cancel
  finished,   \* finished.current: the creation was reported
  givenUp,    \* history: requests the user left, or recovery replaced
  rejected,   \* history: other requests whose inputs were called invalid since
              \* the dialog last got their task as the answer
  cuts,       \* reloads, lost requests and lost answers so far
  stale       \* history: tasks the dialog may stay behind: submitted again and
              \* not answered, or cancelled again while being cancelled

creationVars == <<tasks, posts, drawn, kept, form, recovery, poll,
                  action, finished, givenUp, rejected, cuts, stale>>

Requests == 1..MaxRequests
NoTask == 0
Working == {"running", "cancelling"}
Over == {"succeeded", "failed", "cancelled"}
TaskStates == {"none"} \cup Working \cup Over
Refusals == {"invalid", "taken", "refused"}

Entry(q, submitted, task, typed) ==
  [request |-> q, submitted |-> submitted, task |-> task, typed |-> typed]
Entries == [request : Requests \cup {NoTask}, submitted : BOOLEAN,
            task : Requests \cup {NoTask}, typed : BOOLEAN]
NothingKept == Entry(NoTask, FALSE, NoTask, FALSE)

Closed == [open |-> FALSE, request |-> NoTask, submitted |-> FALSE,
           task |-> NoTask, typed |-> FALSE, shown |-> "none"]
NotAsked == [pc |-> "unasked", found |-> NoTask, state |-> "none"]
NoPoll == [pc |-> "off", state |-> "none"]
NoAction == [kind |-> "none", pc |-> "idle", request |-> NoTask,
             again |-> FALSE, reply |-> "none"]

Busy == action # NoAction    \* lock.current

(* Every variable keeps to its domain, and a dialog is open on a request.    *)
CreationTypeOK ==
  /\ tasks \in [Requests -> TaskStates]
  /\ posts \subseteq Requests /\ givenUp \subseteq Requests
  /\ rejected \subseteq Requests /\ stale \subseteq Requests
  /\ cuts \in 0..MaxCuts /\ drawn \in 0..MaxRequests /\ finished \in BOOLEAN
  /\ kept \in Entries
  /\ form \in [open : BOOLEAN, request : Requests \cup {NoTask},
               submitted : BOOLEAN, task : Requests \cup {NoTask},
               typed : BOOLEAN, shown : TaskStates]
  /\ form.open => form.request \in 1..drawn
  /\ recovery \in [pc : {"draft", "unasked", "asked", "answered", "over"},
                   found : Requests \cup {NoTask}, state : TaskStates]
  /\ poll \in [pc : {"off", "asked", "answered"}, state : TaskStates]
  /\ action \in [kind : {"none", "submit", "cancel"},
                 pc : {"idle", "sent", "stopping", "answered"},
                 request : Requests \cup {NoTask}, again : BOOLEAN,
                 reply : TaskStates \cup Refusals \cup {"lost"}]

CreationInit ==
  /\ tasks = [q \in Requests |-> "none"]
  /\ posts = {} /\ drawn = 0 /\ finished = FALSE
  /\ givenUp = {} /\ rejected = {} /\ stale = {} /\ cuts = 0
  /\ kept = NothingKept
  /\ form = Closed /\ recovery = NotAsked /\ poll = NoPoll /\ action = NoAction

------------------------------------------------------------------------------
(* The effects of the dialog, which run with every commit of its state.      *)

(* Mutation: the identity is stored with the answer only.                    *)
StoredLate(new, entry) ==
  IF new.task = NoTask
  THEN Entry(new.request, FALSE, NoTask, new.typed)
  ELSE entry

(* A draft is stored as it is; from the submission on the dialog stores the  *)
(* entries itself.                                                           *)
Stored(new, entry) ==
  IF ~new.submitted /\ new.task = NoTask
  THEN Entry(new.request, FALSE, NoTask, new.typed)
  ELSE entry

(* The user's tasks are asked for once per dialog, unless it opened on a     *)
(* task, shows one, or opened on a draft and is not submitted; any change of *)
(* the request, the submission or the task drops an answer still to come.    *)
Opening(found) ==
  [NotAsked EXCEPT !.pc = IF found.task # NoTask THEN "over"
                          ELSE IF found.typed /\ ~found.submitted THEN "draft"
                          ELSE "unasked"]

Recovering(old, new) ==
  IF old.pc \in {"draft", "unasked"}
  THEN IF new.task # NoTask \/ (old.pc = "draft" /\ ~new.submitted)
       THEN old ELSE [old EXCEPT !.pc = "asked"]
  ELSE IF \/ new.request # form.request \/ new.submitted # form.submitted
          \/ new.task # form.task
       THEN [NotAsked EXCEPT !.pc = "over"] ELSE old

(* The poll follows the task the dialog shows.                               *)
Polling(new) ==
  IF new.task = form.task THEN poll
  ELSE IF new.task = NoTask THEN NoPoll ELSE [NoPoll EXCEPT !.pc = "asked"]

Commit(new, entry) ==
  /\ form' = new
  /\ kept' = Stored(new, entry)
  /\ recovery' = Recovering(recovery, new)

------------------------------------------------------------------------------
(* Opening and closing.                                                      *)

Cut == cuts < MaxCuts /\ cuts' = cuts + 1

(* Mutation: the new agent gets no request id of its own.                    *)
FreshWithoutId(q) == [Closed EXCEPT !.open = TRUE]

Fresh(q) == [Closed EXCEPT !.open = TRUE, !.request = q]

Open ==
  /\ ~form.open
  /\ LET stored == kept.request # NoTask
         new == IF stored
                THEN [open |-> TRUE, request |-> kept.request,
                      submitted |-> kept.submitted \/ kept.task # NoTask,
                      task |-> kept.task, typed |-> kept.typed, shown |-> "none"]
                ELSE Fresh(drawn + 1)
     IN /\ stored \/ drawn < MaxRequests
        /\ drawn' = IF stored THEN drawn ELSE drawn + 1
        /\ form' = new
        /\ kept' = Stored(new, kept)
        /\ recovery' = Recovering(Opening(kept), new)
        /\ poll' = IF new.task = NoTask THEN NoPoll ELSE [NoPoll EXCEPT !.pc = "asked"]
  /\ finished' = FALSE
  /\ UNCHANGED <<tasks, posts, action, givenUp, rejected, cuts, stale>>

(* The dialog is closed, or the page reloaded in the middle of a call: its   *)
(* answers find nobody.                                                      *)
Close ==
  /\ form.open
  /\ form' = Closed /\ recovery' = NotAsked /\ poll' = NoPoll
  /\ action' = NoAction /\ finished' = FALSE
  /\ Cut
  /\ UNCHANGED <<tasks, posts, drawn, kept, givenUp, rejected, stale>>

Type ==
  /\ form.open /\ ~form.submitted /\ ~form.typed /\ ~Busy
  /\ Commit([form EXCEPT !.typed = TRUE], kept)
  /\ UNCHANGED <<tasks, posts, drawn, poll, action, finished, givenUp,
                 rejected, cuts, stale>>

StartAnother ==
  /\ form.open /\ form.submitted /\ ~Busy /\ drawn < MaxRequests
  /\ drawn' = drawn + 1
  /\ Commit(Fresh(drawn + 1), kept)
  /\ poll' = NoPoll
  /\ finished' = FALSE
  /\ givenUp' = givenUp \cup ({form.request, form.task} \ {NoTask})
  /\ rejected' = rejected \ givenUp'
  /\ UNCHANGED <<tasks, posts, action, cuts, stale>>

------------------------------------------------------------------------------
(* Submission.                                                               *)

SubmitAgent ==
  /\ form.open /\ ~Busy /\ form.typed
  /\ form.shown \notin Working \cup {"succeeded"}
  /\ Commit([form EXCEPT !.submitted = TRUE],
            Entry(form.request, TRUE, form.task, TRUE))
  /\ action' = [kind |-> "submit", pc |-> "sent", request |-> form.request,
                again |-> form.submitted, reply |-> "none"]
  /\ posts' = posts \cup {form.request}
  /\ stale' = IF form.submitted \/ form.task # NoTask
              THEN stale \cup {form.request} ELSE stale
  /\ UNCHANGED <<tasks, drawn, poll, finished, givenUp, rejected, cuts>>

Answered(q, reply) ==
  IF action.kind = "submit" /\ action.pc = "sent" /\ action.request = q
  THEN [action EXCEPT !.pc = "answered", !.reply = reply]
  ELSE action

(* A user has one working task, and a request one task: a retry that finds   *)
(* it working or succeeded changes nothing.                                  *)
Started(q) ==
  IF tasks[q] \in Working \cup {"succeeded"}
  THEN UNCHANGED tasks /\ action' = Answered(q, tasks[q])
  ELSE /\ \A p \in Requests : tasks[p] \notin Working
       /\ tasks' = [tasks EXCEPT ![q] = "running"]
       /\ action' = Answered(q, "running")

(* Every request is read and checked anew, a retry's too, before its task is *)
(* looked for: the inputs or the configuration may be called invalid (400,   *)
(* 422) and the name taken or not checked (409, 503) whatever became of the  *)
(* task.  Any other refusal (an edited input, another task of the user,      *)
(* tasks of other users, a failure) is "refused".                            *)
ServeCreation(q) ==
  /\ q \in posts /\ posts' = posts \ {q}
  /\ \/ Started(q)
     \/ /\ \E refusal \in Refusals : action' = Answered(q, refusal)
        /\ UNCHANGED tasks
  /\ UNCHANGED <<drawn, kept, form, recovery, poll, finished, givenUp,
                 rejected, cuts, stale>>

LoseCreation(q) ==
  /\ q \in posts /\ posts' = posts \ {q}
  /\ action' = Answered(q, "lost")
  /\ Cut
  /\ UNCHANGED <<tasks, drawn, kept, form, recovery, poll, finished,
                 givenUp, rejected, stale>>

LoseAnswer ==
  /\ action.pc \in {"sent", "stopping", "answered"} /\ action.reply # "lost"
  /\ action' = [action EXCEPT !.pc = "answered", !.reply = "lost"]
  /\ Cut
  /\ UNCHANGED <<tasks, posts, drawn, kept, form, recovery, poll,
                 finished, givenUp, rejected, stale>>

(* Mutation: the poll goes on only if the task is another one.               *)
PolledIfNew(q) ==
  IF q = form.task THEN poll ELSE [NoPoll EXCEPT !.pc = "asked"]

(* A submitted task is polled anew (setRevision).                            *)
Polled(q) == [NoPoll EXCEPT !.pc = "asked"]

(* Mutation: a name that is taken unlocks a form that was submitted before.  *)
UnlocksAnyway(call) == call.reply \in {"invalid", "taken"}

(* Inputs called invalid unlock the form; a name that is taken only the one  *)
(* that was not submitted before (wasSubmitted).                             *)
Unlocks(call) == call.reply = "invalid" \/ (call.reply = "taken" /\ ~call.again)

SubmitEnds ==
  /\ action.kind = "submit" /\ action.pc = "answered"
  /\ LET q == action.request
     IN \/ /\ action.reply \in TaskStates
           /\ Commit([form EXCEPT !.task = q, !.shown = action.reply],
                     Entry(q, TRUE, q, TRUE))
           /\ poll' = Polled(q)
           /\ stale' = stale \ {q} /\ rejected' = rejected \ {q}
        \/ /\ action.reply \notin TaskStates
           /\ IF Unlocks(action)
              THEN Commit([form EXCEPT !.submitted = FALSE], kept)
              ELSE UNCHANGED <<form, kept, recovery>>
           /\ rejected' = IF action.reply = "invalid" THEN rejected \cup ({q} \ givenUp)
                          ELSE rejected
           /\ UNCHANGED <<poll, stale>>
  /\ action' = NoAction
  /\ UNCHANGED <<tasks, posts, drawn, finished, givenUp, cuts>>

------------------------------------------------------------------------------
(* Recovery from the server's list of tasks.                                 *)

ReadTasks ==
  /\ recovery.pc = "asked"
  /\ \E q \in Requests \cup {NoTask} :
       /\ IF tasks[form.request] # "none" THEN q = form.request
          ELSE IF q = NoTask
          THEN \A p \in Requests : tasks[p] \in {"none", "succeeded"}
          ELSE tasks[q] \notin {"none", "succeeded"}
       /\ recovery' = [pc |-> "answered", found |-> q,
                       state |-> IF q = NoTask THEN "none" ELSE tasks[q]]
  /\ UNCHANGED <<tasks, posts, drawn, kept, form, poll, action, finished,
                 givenUp, rejected, cuts, stale>>

(* restoreTask: the dialog and the storage now are about the task found.     *)
Recover ==
  /\ recovery.pc = "answered"
  /\ LET q == recovery.found
     IN IF q = NoTask
        THEN /\ recovery' = [NotAsked EXCEPT !.pc = "over"]
             /\ UNCHANGED <<kept, form, poll, givenUp, rejected>>
        ELSE /\ Commit([form EXCEPT !.request = q, !.submitted = TRUE,
                                    !.task = q, !.typed = TRUE,
                                    !.shown = recovery.state],
                       Entry(q, TRUE, q, TRUE))
             /\ poll' = Polling([form EXCEPT !.task = q])
             /\ givenUp' = IF form.submitted /\ form.request # q
                           THEN givenUp \cup {form.request} ELSE givenUp
             /\ rejected' = rejected \ givenUp'
  /\ UNCHANGED <<tasks, posts, drawn, action, finished, cuts, stale>>

RecoveryFails ==
  /\ recovery.pc \in {"asked", "answered"}
  /\ recovery' = [NotAsked EXCEPT !.pc = "over"]
  /\ UNCHANGED <<tasks, posts, drawn, kept, form, poll, action, finished,
                 givenUp, rejected, cuts, stale>>

------------------------------------------------------------------------------
(* The poll.  A poll that fails is repeated.                                 *)

PollRead ==
  /\ poll.pc = "asked" /\ tasks[form.task] # "none"
  /\ poll' = [pc |-> "answered", state |-> tasks[form.task]]
  /\ UNCHANGED <<tasks, posts, drawn, kept, form, recovery, action,
                 finished, givenUp, rejected, cuts, stale>>

(* A task that is over is not polled any more, and a creation that succeeded *)
(* is reported once and needs no recovery.                                   *)
PollEnds ==
  /\ poll.pc = "answered"
  /\ form' = [form EXCEPT !.shown = poll.state]
  /\ poll' = IF poll.state \in Working THEN [NoPoll EXCEPT !.pc = "asked"] ELSE NoPoll
  /\ IF poll.state = "succeeded" /\ ~finished
     THEN finished' = TRUE /\ kept' = NothingKept
     ELSE UNCHANGED <<finished, kept>>
  /\ UNCHANGED <<tasks, posts, drawn, recovery, action, givenUp,
                 rejected, cuts, stale>>

------------------------------------------------------------------------------
(* Cancellation: the server answers when the task has ended.                 *)

CancelAgent ==
  /\ form.open /\ ~Busy /\ form.task # NoTask /\ form.shown = "running"
  /\ action' = [kind |-> "cancel", pc |-> "sent", request |-> form.task,
                again |-> FALSE, reply |-> "none"]
  /\ UNCHANGED <<tasks, posts, drawn, kept, form, recovery, poll,
                 finished, givenUp, rejected, cuts, stale>>

ServeCancel ==
  /\ action.kind = "cancel"
  /\ LET q == action.request
     IN \/ /\ action.pc = "sent" /\ tasks[q] = "running"
           /\ tasks' = [tasks EXCEPT ![q] = "cancelling"]
           /\ action' = [action EXCEPT !.pc = "stopping"]
           /\ UNCHANGED stale
        \/ /\ \/ action.pc = "sent" /\ tasks[q] # "running"
              \/ action.pc = "stopping" /\ tasks[q] # "cancelling"
           /\ action' = [action EXCEPT !.pc = "answered", !.reply = tasks[q]]
           /\ stale' = IF tasks[q] = "cancelling" THEN stale \cup {q} ELSE stale
           /\ UNCHANGED tasks
  /\ UNCHANGED <<posts, drawn, kept, form, recovery, poll, finished,
                 givenUp, rejected, cuts>>

CancelEnds ==
  /\ action.kind = "cancel" /\ action.pc = "answered"
  /\ form' = IF action.reply = "lost" THEN form
             ELSE [form EXCEPT !.shown = action.reply]
  /\ action' = NoAction
  /\ UNCHANGED <<tasks, posts, drawn, kept, recovery, poll, finished,
                 givenUp, rejected, cuts, stale>>

(* The supervisor of a task: it succeeds, fails or is interrupted.           *)
EndTask(q) ==
  /\ tasks[q] \in Working
  /\ \E s \in (IF tasks[q] = "running" THEN {"succeeded", "failed"} ELSE Over) :
       tasks' = [tasks EXCEPT ![q] = s]
  /\ UNCHANGED <<posts, drawn, kept, form, recovery, poll, action,
                 finished, givenUp, rejected, cuts, stale>>

CreationNext ==
  \/ Open \/ Close \/ Type \/ StartAnother \/ SubmitAgent \/ CancelAgent
  \/ \E q \in Requests : ServeCreation(q) \/ LoseCreation(q) \/ EndTask(q)
  \/ LoseAnswer \/ SubmitEnds \/ ServeCancel \/ CancelEnds
  \/ ReadTasks \/ Recover \/ RecoveryFails
  \/ PollRead \/ PollEnds

(* Tasks end (they have a time limit), the poll of an open dialog is         *)
(* answered, and an answer to a submission is taken up.                      *)
CreationFairness ==
  /\ \A q \in Requests : WF_creationVars(EndTask(q))
  /\ WF_creationVars(PollRead)
  /\ WF_creationVars(PollEnds)
  /\ WF_creationVars(SubmitEnds)

CreationSpec == CreationInit /\ [][CreationNext]_creationVars /\ CreationFairness

------------------------------------------------------------------------------
(* A task that works at the server is the one the browser would find again   *)
(* after a reload, unless the user went on to another agent or the recovery  *)
(* chose another task: its identity is stored before the request is sent     *)
(* (MpaCreateDialog.tsx:444-450), and neither an edit nor a refusal loses it.*)
(* It is stored as a submitted one, so that the task is asked for, unless    *)
(* the server called the inputs of a retry invalid: then the draft takes the *)
(* entry's place, though the task works (MpaCreateDialog.tsx:467-474).       *)
WorkIsKept ==
  \A q \in Requests \ givenUp :
    tasks[q] \in Working =>
      kept.request = q /\ (kept.submitted \/ q \in rejected)

(* The form is locked once the server has a task of its request, because the *)
(* task's inputs are fixed ("Request identity already has different inputs", *)
(* tasks.py:353): a lost answer, a reload, a recovery, a name found taken or *)
(* any other failure of a retry must not unlock it.  Only inputs that were   *)
(* called invalid do, until a submission gets the task as its answer.        *)
(* A request the user had left may come back through the recovery while      *)
(* another one is being submitted, and then the other's answer unlocks it.   *)
FormIsLocked ==
  /\ form.open /\ form.request \notin givenUp \cup rejected
  /\ tasks[form.request] # "none"
  => form.submitted

(* An open dialog does not stay behind its task: when the task has ended,    *)
(* the dialog shows how, and reports a success, whatever the order of the    *)
(* answers to submissions, cancellations and polls.  Two cases are left out, *)
(* because the poll of a task that ended is over (MpaCreateDialog.tsx:364):  *)
(* a task started again by a submission whose answer was lost, and one       *)
(* cancelled a second time, whose late answer shows it being cancelled.      *)
Behind ==
  /\ form.open /\ form.task \in Requests \ stale /\ tasks[form.task] \in Over
  /\ \/ form.shown # tasks[form.task]
     \/ form.shown = "succeeded" /\ ~finished
EndIsShown == []<>~Behind

(* "nonsecret draft choices and request identity survive reopening in the    *)
(* same browser session" (frontend/README.md:1682), and "keeps submitted     *)
(* identity fixed when the POST response is lost" (mpaCreation.test.tsx:257): *)
(* a submitted request stays the dialog's until the user starts another      *)
(* agent.                                                                    *)
SubmittedIdentityKept ==
  [][form.open /\ form'.open /\ form.submitted /\ form'.submitted =>
       form'.request = form.request]_creationVars

=============================================================================
