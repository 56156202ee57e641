------------------------- MODULE AgentCreationProofs -------------------------
(* The safety properties of the creation of managed agents (AgentCreation),  *)
(* for any number of requests, reloads, lost requests and lost answers.      *)
EXTENDS AgentCreation, TLAPS

USE CreationBounds

(* The server has a task of request q, or may get to have one.               *)
Out(q) == q \in posts \/ tasks[q] # "none"

(* An entry and a dialog are about one request, or about two of which the    *)
(* user left each.                                                           *)
OneAgent(request, task) ==
  task \in {NoTask, request} \/ {request, task} \subseteq givenUp

(* The storage: no request is drawn twice, and the one that is out and not   *)
(* given up is in the storage, unless it succeeded; it is a draft there only *)
(* if its inputs were called invalid.                                        *)
KeptInv ==
  /\ kept.request \in 0..drawn
  /\ OneAgent(kept.request, kept.task)
  /\ kept.task # NoTask => tasks[kept.task] # "none"
  /\ \A q \in Requests : Out(q) => q <= drawn
  /\ \A q \in Requests \ givenUp : Out(q) =>
       /\ tasks[q] # "succeeded" => kept.request = q
       /\ kept.request = q => kept.submitted \/ q \in rejected

(* The dialog: the storage holds its request, or nothing; a form that is not *)
(* locked has no task, or belongs to a request the user left or whose inputs *)
(* were called invalid.                                                      *)
FormInv ==
  form.open =>
    /\ kept.request \in {form.request, NoTask}
       \/ {kept.request, form.request} \subseteq givenUp
    /\ OneAgent(form.request, form.task)
    /\ form.task # NoTask => tasks[form.task] # "none"
    /\ ~form.submitted /\ form.task = NoTask =>
         kept.request = form.request /\ ~kept.submitted
    /\ ~form.submitted /\ form.task # NoTask =>
         form.request \in givenUp \cup rejected

(* A request that was called invalid was typed in and is typed in again when *)
(* the dialog opens on it, so that no other task takes its place (Recover)   *)
(* unless it is submitted anew.                                              *)
DraftInv ==
  /\ \A q \in rejected : q <= drawn
  /\ kept.request \in rejected => kept.typed
  /\ form.open =>
       /\ form.request \in rejected => form.typed
       /\ action.kind = "submit" =>
            form.typed /\ (kept.typed \/ kept.request = NoTask)
       /\ form.request \in rejected /\ recovery.pc \in {"asked", "answered"} =>
            form.submitted
       /\ form.submitted /\ recovery.pc \in {"draft", "unasked"} =>
            form.task # NoTask

(* The calls of an open dialog: the task recovery found is the dialog's, or  *)
(* one the user left; the poll is about its task; a submission is the        *)
(* dialog's, unless recovery replaced it, and the first one of an unlocked   *)
(* form is sent and refused before there is a task.                          *)
RecoveryInv ==
  /\ recovery.pc \in {"asked", "answered"} => form.open
  /\ recovery.pc = "answered" /\ recovery.found # NoTask =>
       /\ tasks[recovery.found] # "none"
       /\ recovery.found \in givenUp \cup {form.request}

PollInv ==
  /\ poll.pc # "off" => form.open /\ form.task # NoTask
  /\ poll.pc = "answered" /\ poll.state = "succeeded" =>
       tasks[form.task] = "succeeded"

ActionInv ==
  action.kind = "submit" =>
    /\ form.open /\ form.submitted /\ action.request \in 1..drawn
    /\ \/ form.request = action.request
       \/ {form.request, action.request} \subseteq givenUp
    /\ ~action.again /\ action.request \notin givenUp \cup rejected =>
         /\ action.pc = "sent" => tasks[action.request] = "none"
         /\ action.reply = "taken" => ~Out(action.request)
    /\ action.pc = "answered" /\ action.reply \in TaskStates =>
         tasks[action.request] # "none"

CreationInv ==
  /\ CreationTypeOK /\ KeptInv /\ FormInv /\ DraftInv
  /\ RecoveryInv /\ PollInv /\ ActionInv

Request == Requests \cup {NoTask}
FormType == [open : BOOLEAN, request : Request, submitted : BOOLEAN,
             task : Request, typed : BOOLEAN, shown : TaskStates]
RecoveryType == [pc : {"draft", "unasked", "asked", "answered", "over"},
                 found : Request, state : TaskStates]
PollType == [pc : {"off", "asked", "answered"}, state : TaskStates]
ActionType == [kind : {"none", "submit", "cancel"},
               pc : {"idle", "sent", "stopping", "answered"},
               request : Request, again : BOOLEAN,
               reply : TaskStates \cup Refusals \cup {"lost"}]

------------------------------------------------------------------------------
LEMMA RequestNumbers ==
  /\ NoTask \in Request /\ NoTask \notin Requests /\ NoTask = 0
  /\ Requests \subseteq Nat /\ Requests \subseteq Request
  /\ Request = 0..MaxRequests
BY DEF Request, Requests, NoTask

LEMMA States ==
  /\ "none" \in TaskStates /\ "running" \in TaskStates
  /\ "succeeded" \in TaskStates /\ "cancelling" \in TaskStates
  /\ "none" \notin Working /\ "succeeded" \notin Working
BY DEF TaskStates, Working, Over

LEMMA TaskEntry ==
  ASSUME NEW q \in Request, NEW t \in Request
  PROVE  /\ Entry(q, TRUE, t, TRUE) \in Entries
         /\ Entry(q, TRUE, t, TRUE).request = q
         /\ Entry(q, TRUE, t, TRUE).submitted = TRUE
         /\ Entry(q, TRUE, t, TRUE).task = t
         /\ Entry(q, TRUE, t, TRUE).typed = TRUE
BY DEF Entry, Entries, Request

LEMMA Nothing ==
  /\ NothingKept \in Entries /\ NothingKept.request = NoTask
  /\ NothingKept.task = NoTask /\ NothingKept.submitted = FALSE
BY RequestNumbers DEF NothingKept, Entry, Entries, Request

LEMMA NewRecords ==
  /\ Closed \in FormType /\ Closed.open = FALSE
  /\ NotAsked \in RecoveryType /\ NotAsked.pc = "unasked"
  /\ NoPoll \in PollType /\ NoPoll.pc = "off"
  /\ NoAction \in ActionType /\ NoAction.kind = "none"
  /\ [NoPoll EXCEPT !.pc = "asked"] \in PollType
  /\ [NoPoll EXCEPT !.pc = "asked"].pc = "asked"
  /\ [NotAsked EXCEPT !.pc = "over"] \in RecoveryType
  /\ [NotAsked EXCEPT !.pc = "over"].pc = "over"
<1>1. Closed \in FormType /\ Closed.open = FALSE
  BY RequestNumbers, States DEF Closed, FormType
<1>2. NotAsked \in RecoveryType /\ NotAsked.pc = "unasked"
  BY RequestNumbers, States DEF NotAsked, RecoveryType
<1>3. NoPoll \in PollType /\ NoPoll.pc = "off"
  BY States DEF NoPoll, PollType
<1>4. NoAction \in ActionType /\ NoAction.kind = "none"
  BY RequestNumbers, States DEF NoAction, ActionType
<1>5. ASSUME NEW p \in PollType
      PROVE  [p EXCEPT !.pc = "asked"] \in PollType /\ [p EXCEPT !.pc = "asked"].pc = "asked"
  BY DEF PollType
<1>6. ASSUME NEW r \in RecoveryType
      PROVE  [r EXCEPT !.pc = "over"] \in RecoveryType /\ [r EXCEPT !.pc = "over"].pc = "over"
  BY DEF RecoveryType
<1> QED BY <1>1, <1>2, <1>3, <1>4, <1>5, <1>6

LEMMA FreshForm ==
  ASSUME NEW q \in Requests
  PROVE  /\ Fresh(q) \in FormType /\ Fresh(q).open = TRUE /\ Fresh(q).request = q
         /\ Fresh(q).submitted = FALSE /\ Fresh(q).task = NoTask
<1>1. ASSUME NEW f \in FormType
      PROVE  /\ [f EXCEPT !.open = TRUE, !.request = q] \in FormType
             /\ [f EXCEPT !.open = TRUE, !.request = q].open = TRUE
             /\ [f EXCEPT !.open = TRUE, !.request = q].request = q
             /\ [f EXCEPT !.open = TRUE, !.request = q].submitted = f.submitted
             /\ [f EXCEPT !.open = TRUE, !.request = q].task = f.task
  BY RequestNumbers DEF FormType
<1>2. Closed.submitted = FALSE /\ Closed.task = NoTask
  BY DEF Closed
<1> QED BY <1>1, <1>2, NewRecords DEF Fresh

(* The type invariant with named sets.                                       *)
LEMMA TypeParts ==
  CreationTypeOK <=>
    /\ tasks \in [Requests -> TaskStates]
    /\ posts \subseteq Requests /\ givenUp \subseteq Requests
    /\ rejected \subseteq Requests /\ stale \subseteq Requests
    /\ cuts \in 0..MaxCuts /\ drawn \in 0..MaxRequests /\ finished \in BOOLEAN
    /\ kept \in Entries
    /\ form \in FormType /\ (form.open => form.request \in 1..drawn)
    /\ recovery \in RecoveryType /\ poll \in PollType /\ action \in ActionType
BY DEF CreationTypeOK, FormType, RecoveryType, PollType, ActionType, Request

LEMMA TypeNext ==
  ASSUME tasks' \in [Requests -> TaskStates],
         posts' \subseteq Requests, givenUp' \subseteq Requests,
         rejected' \subseteq Requests, stale' \subseteq Requests, cuts' \in 0..MaxCuts,
         drawn' \in 0..MaxRequests, finished' \in BOOLEAN,
         kept' \in Entries,
         form' \in FormType, form'.open => form'.request \in 1..drawn',
         recovery' \in RecoveryType, poll' \in PollType, action' \in ActionType
  PROVE  CreationTypeOK'
BY DEF CreationTypeOK, FormType, RecoveryType, PollType, ActionType, Request

LEMMA InitCreationInv == CreationInit => CreationInv
<1> SUFFICES ASSUME CreationInit PROVE CreationInv
  OBVIOUS
<1>1. CreationTypeOK
  <2>1. /\ tasks \in [Requests -> TaskStates] /\ cuts \in 0..MaxCuts
        /\ drawn \in 0..MaxRequests
    BY States DEF CreationInit
  <2>2. finished \in BOOLEAN
    BY Zenon DEF CreationInit
  <2> QED BY <2>1, <2>2, Nothing, NewRecords, TypeParts DEF CreationInit
<1>2. \A q \in Requests : ~Out(q)
  BY DEF CreationInit, Out
<1>3. KeptInv
  BY <1>2, Nothing DEF CreationInit, KeptInv, OneAgent, NoTask
<1> QED BY <1>1, <1>3, NewRecords
        DEF CreationInit, CreationInv, FormInv, DraftInv, RecoveryInv, PollInv,
            ActionInv

------------------------------------------------------------------------------
(* What every change of the dialog brings with it.                           *)
LEMMA StoredCases ==
  ASSUME NEW new \in FormType, NEW entry \in Entries
  PROVE  /\ Stored(new, entry) \in Entries
         /\ ~new.submitted /\ new.task = NoTask =>
              /\ Stored(new, entry).request = new.request
              /\ Stored(new, entry).submitted = FALSE
              /\ Stored(new, entry).task = NoTask
              /\ Stored(new, entry).typed = new.typed
         /\ new.submitted \/ new.task # NoTask => Stored(new, entry) = entry
<1>1. /\ Entry(new.request, FALSE, NoTask, new.typed) \in Entries
      /\ Entry(new.request, FALSE, NoTask, new.typed).request = new.request
      /\ Entry(new.request, FALSE, NoTask, new.typed).submitted = FALSE
      /\ Entry(new.request, FALSE, NoTask, new.typed).task = NoTask
      /\ Entry(new.request, FALSE, NoTask, new.typed).typed = new.typed
  BY RequestNumbers DEF Entry, Entries, FormType, Request
<1> QED BY <1>1 DEF Stored

LEMMA RecoveringCases ==
  ASSUME NEW old \in RecoveryType, NEW new
  PROVE  /\ Recovering(old, new) \in RecoveryType
         /\ Recovering(old, new).pc = "answered" =>
              Recovering(old, new) = old /\ new.request = form.request
<1>1. [old EXCEPT !.pc = "asked"] \in RecoveryType
      /\ [old EXCEPT !.pc = "asked"].pc = "asked"
  BY DEF RecoveryType
<1> QED BY <1>1, NewRecords DEF Recovering

LEMMA OpeningCases ==
  ASSUME NEW found \in Entries
  PROVE  /\ Opening(found) \in RecoveryType
         /\ Opening(found).pc \in {"over", "draft", "unasked"}
         /\ found.task = NoTask /\ found.typed /\ ~found.submitted =>
              Opening(found).pc = "draft"
<1>1. NotAsked \in RecoveryType
  BY NewRecords
<1> QED BY <1>1 DEF Opening, RecoveryType

(* When the user's tasks are not asked for, and when they are.               *)
LEMMA RecoveringWhen ==
  ASSUME NEW old \in RecoveryType, NEW new
  PROVE  /\ /\ Recovering(old, new).pc \in {"draft", "unasked"} /\ new.submitted
            => new.task # NoTask
         /\ Recovering(old, new).pc \in {"asked", "answered"} =>
              \/ /\ old.pc \in {"draft", "unasked"} /\ new.task = NoTask
                 /\ old.pc = "draft" => new.submitted
              \/ /\ old.pc \in {"asked", "answered"}
                 /\ new.request = form.request /\ new.submitted = form.submitted
<1>1. [old EXCEPT !.pc = "asked"].pc = "asked"
  BY DEF RecoveryType
<1> QED BY <1>1, NewRecords DEF Recovering, RecoveryType

LEMMA CommitMoves ==
  ASSUME CreationTypeOK, form.open, NEW new \in FormType, new.open,
         NEW entry \in Entries, Commit(new, entry)
  PROVE  /\ form' = new /\ form' \in FormType /\ kept' \in Entries
         /\ recovery' \in RecoveryType
         /\ ~new.submitted /\ new.task = NoTask =>
              /\ kept'.request = new.request /\ kept'.submitted = FALSE
              /\ kept'.task = NoTask /\ kept'.typed = new.typed
         /\ new.submitted \/ new.task # NoTask => kept' = entry
         /\ recovery'.pc = "answered" => recovery' = recovery /\ new.request = form.request
<1>1. form' = new /\ kept' = Stored(new, entry)
      /\ recovery' = Recovering(recovery, new) /\ recovery \in RecoveryType
  BY TypeParts DEF Commit
<1>2. /\ kept' \in Entries
      /\ ~new.submitted /\ new.task = NoTask =>
           /\ kept'.request = new.request /\ kept'.submitted = FALSE
           /\ kept'.task = NoTask /\ kept'.typed = new.typed
      /\ new.submitted \/ new.task # NoTask => kept' = entry
  BY <1>1, StoredCases
<1>3. /\ recovery' \in RecoveryType
      /\ recovery'.pc = "answered" => recovery' = recovery /\ new.request = form.request
  BY <1>1, RecoveringCases
<1> QED BY <1>1, <1>2, <1>3

(* A change of the dialog keeps what makes a rejected draft safe: the form   *)
(* is typed in or fresh, and unlocked only with a task-less recovery over.   *)
LEMMA DraftKept ==
  ASSUME CreationInv, form.open, NEW new \in FormType, new.open,
         NEW entry \in Entries, Commit(new, entry),
         \A q \in rejected' : q <= drawn',
         new.request \in rejected' => 
           new.typed /\ (new.submitted \/ (form.submitted /\ new.task = form.task)),
         kept' = entry => (entry.request \in rejected' => entry.typed),
         action'.kind = "submit" => new.typed /\ entry.typed /\ new.submitted
  PROVE  DraftInv'
<1>0. CreationTypeOK /\ recovery \in RecoveryType
  BY TypeParts DEF CreationInv
<1>1. form' = new /\ recovery' = Recovering(recovery, new)
  BY DEF Commit
<1>2. kept'.request \in rejected' => kept'.typed
  BY <1>0, CommitMoves
<1>3. action'.kind = "submit" => new.typed /\ kept'.typed
  BY <1>0, CommitMoves
<1>4. ASSUME recovery'.pc \in {"asked", "answered"}, new.request \in rejected',
             ~new.submitted
      PROVE  FALSE
  <2>1. form.submitted /\ new.task = form.task
    BY <1>4
  <2>2. \/ /\ recovery.pc \in {"draft", "unasked"} /\ new.task = NoTask
        \/ new.submitted = form.submitted
    BY <1>0, <1>1, <1>4, RecoveringWhen
  <2>3. recovery.pc \in {"draft", "unasked"} => form.task # NoTask
    BY <2>1 DEF CreationInv, DraftInv
  <2> QED BY <1>4, <2>1, <2>2, <2>3
<1>5. new.submitted /\ recovery'.pc \in {"draft", "unasked"} => new.task # NoTask
  BY <1>0, <1>1, RecoveringWhen
<1> QED BY <1>1, <1>2, <1>3, <1>4, <1>5 DEF DraftInv

(* Recovery after a change that leaves the server alone.                     *)
LEMMA RecoveryKept ==
  ASSUME RecoveryInv, form'.open, UNCHANGED tasks, givenUp \subseteq givenUp',
         recovery'.pc = "answered" => recovery' = recovery /\ form'.request = form.request
  PROVE  RecoveryInv'
BY DEF RecoveryInv

(* An action that is no submission needs nothing; nor does none at all.      *)
LEMMA NoSubmission == ASSUME action' = NoAction PROVE ActionInv' /\ action' \in ActionType
BY NewRecords DEF ActionInv

LEMMA TypeKeeps == ASSUME CreationInv, Type PROVE CreationInv'
<1> DEFINE new == [form EXCEPT !.typed = TRUE]
<1>0. CreationTypeOK /\ form \in FormType /\ kept \in Entries
  BY TypeParts DEF CreationInv
<1>1. /\ form.open /\ ~form.submitted /\ ~form.typed /\ Commit(new, kept)
      /\ UNCHANGED <<tasks, posts, drawn, poll, action, finished, givenUp,
                     rejected, cuts, stale>>
      /\ action = NoAction
  BY DEF Type, Busy
<1>2. /\ new \in FormType /\ new.open /\ new.request = form.request
      /\ new.submitted = form.submitted /\ new.task = form.task
  BY <1>0, <1>1 DEF FormType
<1> HIDE DEF new
<1>3. CreationTypeOK'
  <2>1. /\ form' \in FormType /\ kept' \in Entries /\ recovery' \in RecoveryType
        /\ form' = new
    BY <1>0, <1>1, <1>2, CommitMoves
  <2> QED BY <1>0, <1>1, <1>2, <2>1, TypeParts, TypeNext
<1>4. kept'.request = kept.request /\ kept'.submitted = kept.submitted
      /\ (kept'.task = kept.task \/ kept'.task = NoTask)
  BY <1>0, <1>1, <1>2, CommitMoves DEF CreationInv, FormInv, Entries
<1>5. KeptInv'
  BY <1>1, <1>4 DEF CreationInv, KeptInv, Out, OneAgent
<1>6. FormInv'
  BY <1>0, <1>1, <1>2, <1>4, CommitMoves DEF CreationInv, FormInv, OneAgent
<1>7. RecoveryInv'
  BY <1>0, <1>1, <1>2, CommitMoves, RecoveryKept DEF CreationInv
<1>8. PollInv'
  BY <1>0, <1>1, <1>2, CommitMoves DEF CreationInv, PollInv
<1>9. ActionInv'
  BY <1>1, NoSubmission
<1>10. DraftInv'
  <2>1. form.request \notin rejected /\ (kept.request \in rejected => kept.typed)
        /\ \A q \in rejected : q <= drawn
    BY <1>1 DEF CreationInv, DraftInv
  <2> QED BY <1>0, <1>1, <1>2, <2>1, DraftKept, NewRecords
<1> QED BY <1>3, <1>5, <1>6, <1>7, <1>8, <1>9, <1>10 DEF CreationInv

(* A request is only drawn when no other one is out, or the user gives those *)
(* up.                                                                       *)
LEMMA StartAnotherKeeps == ASSUME CreationInv, StartAnother PROVE CreationInv'
<1> DEFINE q == drawn + 1
<1>0. CreationTypeOK /\ form \in FormType /\ kept \in Entries /\ drawn \in Nat
  BY TypeParts DEF CreationInv
<1>1. /\ form.open /\ drawn < MaxRequests /\ drawn' = q
      /\ Commit(Fresh(q), kept) /\ poll' = NoPoll
      /\ givenUp' = givenUp \cup ({form.request, form.task} \ {NoTask})
      /\ rejected' = rejected \ givenUp'
      /\ UNCHANGED <<tasks, posts, action, cuts, stale>>
      /\ action = NoAction
  BY DEF StartAnother, Busy
<1>2. q \in Requests
  BY <1>0, <1>1 DEF Requests
<1>3. /\ Fresh(q) \in FormType /\ Fresh(q).open = TRUE /\ Fresh(q).request = q
      /\ Fresh(q).submitted = FALSE /\ Fresh(q).task = NoTask
  BY <1>2, FreshForm
<1>4. /\ form' = Fresh(q) /\ form' \in FormType /\ kept' \in Entries
      /\ recovery' \in RecoveryType
      /\ kept'.request = q /\ kept'.submitted = FALSE /\ kept'.task = NoTask
      /\ recovery'.pc = "answered" => recovery' = recovery /\ Fresh(q).request = form.request
  BY <1>0, <1>1, <1>3, CommitMoves
<1>5. finished' \in BOOLEAN
  BY Zenon DEF StartAnother
<1>6. givenUp' \subseteq Requests /\ givenUp \subseteq givenUp'
  BY <1>0, <1>1, TypeParts DEF FormType, Request
<1>7. CreationTypeOK'
  <2>1. poll' \in PollType /\ drawn' \in 0..MaxRequests /\ q \in 1..drawn'
    BY <1>0, <1>1, NewRecords
  <2> HIDE DEF q
  <2> QED BY <1>0, <1>1, <1>3, <1>4, <1>5, <1>6, <2>1, TypeParts, TypeNext
<1>8. \A p \in Requests : Out(p) => p <= drawn /\ p # q
  BY <1>0 DEF CreationInv, KeptInv, Requests
<1>9. ASSUME NEW p \in Requests \ givenUp', Out(p), tasks[p] # "succeeded" PROVE FALSE
  <2>1. kept.request = p /\ p \notin givenUp
    BY <1>6, <1>9 DEF CreationInv, KeptInv
  <2>2. p = form.request
    BY <1>1, <2>1, RequestNumbers DEF CreationInv, FormInv
  <2> QED BY <1>1, <1>9, <2>2, RequestNumbers
<1>10. KeptInv'
  <2>1. \A p \in Requests : Out(p)' <=> Out(p)
    BY <1>1 DEF Out
  <2>2. \A p \in Requests : Out(p) => p <= q
    BY <1>0, <1>8 DEF Requests
  <2>3. q \in 0..q
    BY <1>0
  <2> HIDE DEF q
  <2> QED BY <1>1, <1>4, <1>8, <1>9, <2>1, <2>2, <2>3 DEF KeptInv, OneAgent
<1>11. FormInv'
  BY <1>3, <1>4 DEF FormInv, OneAgent
<1>12. RecoveryInv'
  BY <1>1, <1>3, <1>4, <1>6, RecoveryKept DEF CreationInv
<1>13. PollInv' /\ ActionInv'
  BY <1>1, NewRecords, NoSubmission DEF PollInv
<1>14. DraftInv'
  <2>1. \A p \in rejected : p <= drawn /\ p <= drawn' /\ p # q
    BY <1>0, <1>1, TypeParts DEF CreationInv, DraftInv, Requests
  <2>2. kept.request \in rejected => kept.typed
    BY DEF CreationInv, DraftInv
  <2> HIDE DEF q
  <2> QED BY <1>0, <1>1, <1>3, <2>1, <2>2, DraftKept, NewRecords
<1> QED BY <1>7, <1>10, <1>11, <1>12, <1>13, <1>14 DEF CreationInv

LEMMA OpenKeeps == ASSUME CreationInv, Open PROVE CreationInv'
<1> DEFINE stored == kept.request # NoTask
           new == IF stored
                  THEN [open |-> TRUE, request |-> kept.request,
                        submitted |-> kept.submitted \/ kept.task # NoTask,
                        task |-> kept.task, typed |-> kept.typed, shown |-> "none"]
                  ELSE Fresh(drawn + 1)
<1>0. CreationTypeOK /\ kept \in Entries /\ drawn \in Nat
      /\ recovery \in RecoveryType
  BY TypeParts DEF CreationInv
<1>1. /\ ~form.open /\ (stored \/ drawn < MaxRequests)
      /\ drawn' = (IF stored THEN drawn ELSE drawn + 1)
      /\ form' = new /\ kept' = Stored(new, kept)
      /\ recovery' = Recovering(Opening(kept), new)
      /\ poll' = (IF new.task = NoTask THEN NoPoll ELSE [NoPoll EXCEPT !.pc = "asked"])
      /\ UNCHANGED <<tasks, posts, action, givenUp, rejected, cuts, stale>>
  BY DEF Open
<1>2. finished' \in BOOLEAN
  BY Zenon DEF Open
<1>3. /\ new \in FormType /\ new.open /\ drawn' \in 0..MaxRequests
      /\ new.request \in 1..drawn' /\ drawn <= drawn'
      /\ stored => /\ new.request = kept.request /\ new.task = kept.task
                   /\ new.typed = kept.typed
                   /\ new.submitted <=> kept.submitted \/ kept.task # NoTask
      /\ ~stored => /\ new.request = drawn + 1 /\ new.task = NoTask
                    /\ ~new.submitted
  <2>1. CASE stored
    <3>1. kept.request \in 1..drawn /\ drawn \in 0..MaxRequests
      BY <1>0, <2>1, RequestNumbers, TypeParts DEF CreationInv, KeptInv
    <3>2. PICK b \in BOOLEAN : b <=> kept.submitted \/ kept.task # NoTask
      <4>1. (kept.submitted \/ kept.task # NoTask) \in BOOLEAN
        OBVIOUS
      <4> QED BY <4>1, Zenon
    <3>3. b = (kept.submitted \/ kept.task # NoTask)
      BY <3>2, Zenon
    <3>4. kept.request \in Request /\ kept.task \in Request /\ kept.typed \in BOOLEAN
      BY <1>0 DEF Entries, Request
    <3>5. new = [open |-> TRUE, request |-> kept.request, submitted |-> b,
                 task |-> kept.task, typed |-> kept.typed, shown |-> "none"]
      BY <2>1, <3>3
    <3> HIDE DEF new
    <3>6. /\ new \in FormType /\ new.open = TRUE /\ new.request = kept.request
          /\ new.task = kept.task /\ new.submitted = b /\ new.typed = kept.typed
      BY <3>4, <3>5, States DEF FormType
    <3> QED BY <1>1, <2>1, <3>1, <3>2, <3>6
  <2>2. CASE ~stored
    <3>1. drawn + 1 \in Requests
      BY <1>0, <1>1, <2>2 DEF Requests
    <3>2. /\ new = Fresh(drawn + 1) /\ Fresh(drawn + 1) \in FormType
          /\ Fresh(drawn + 1).open = TRUE /\ Fresh(drawn + 1).request = drawn + 1
          /\ Fresh(drawn + 1).submitted = FALSE /\ Fresh(drawn + 1).task = NoTask
      BY <2>2, <3>1, FreshForm
    <3> HIDE DEF new
    <3> QED BY <1>0, <1>1, <2>2, <3>1, <3>2 DEF Requests
  <2> QED BY <2>1, <2>2
<1> HIDE DEF new
<1>4. /\ kept' \in Entries
      /\ ~new.submitted /\ new.task = NoTask =>
           /\ kept'.request = new.request /\ kept'.submitted = FALSE
           /\ kept'.task = NoTask /\ kept'.typed = new.typed
      /\ new.submitted \/ new.task # NoTask => kept' = kept
  BY <1>0, <1>1, <1>3, StoredCases
<1>5. recovery' \in RecoveryType /\ recovery'.pc # "answered"
  BY <1>0, <1>1, OpeningCases, RecoveringCases
<1>6. CreationTypeOK'
  <2>1. poll' \in PollType
    BY <1>1, NewRecords
  <2> QED BY <1>0, <1>1, <1>2, <1>3, <1>4, <1>5, <2>1, TypeParts, TypeNext
<1>7. /\ kept'.request = new.request /\ kept'.task = new.task
      /\ stored => kept'.submitted = kept.submitted
  BY <1>0, <1>3, <1>4 DEF Entries
<1>8. \A p \in Requests : Out(p)' <=> Out(p)
  BY <1>1 DEF Out
<1>9. ~stored => \A p \in Requests \ givenUp : Out(p) => tasks[p] = "succeeded"
  BY RequestNumbers DEF CreationInv, KeptInv
<1>10. \A p \in Requests : Out(p) => p <= drawn' /\ (~stored => p # new.request)
  <2>1. drawn' \in Nat
    BY <1>3
  <2> QED BY <1>0, <1>3, <2>1 DEF CreationInv, KeptInv, Requests
<1>11. KeptInv'
  <2>1. kept'.request \in 0..drawn'
    BY <1>3, <1>7
  <2>2. CASE stored
    BY <1>1, <1>3, <1>7, <1>8, <1>10, <2>1, <2>2 DEF CreationInv, KeptInv, OneAgent
  <2>3. CASE ~stored
    BY <1>1, <1>3, <1>7, <1>8, <1>9, <1>10, <2>1, <2>3 DEF KeptInv, OneAgent
  <2> QED BY <2>2, <2>3
<1>12. FormInv'
  BY <1>1, <1>3, <1>4, <1>7 DEF CreationInv, KeptInv, FormInv, OneAgent
<1>13. RecoveryInv'
  BY <1>1, <1>3, <1>5 DEF RecoveryInv
<1>14. PollInv'
  BY <1>1, <1>3, NewRecords DEF PollInv
<1>15. ActionInv'
  BY <1>1 DEF CreationInv, ActionInv
<1>16. DraftInv'
  <2>1. /\ \A p \in rejected : p <= drawn' /\ (~stored => p # new.request)
        /\ kept.request \in rejected => kept.typed
    <3>1. \A p \in rejected : p \in Nat /\ p <= drawn
      BY <1>0, TypeParts, RequestNumbers DEF CreationInv, DraftInv
    <3>2. drawn' \in Nat
      BY <1>3
    <3> QED BY <1>0, <1>3, <3>1, <3>2 DEF CreationInv, DraftInv
  <2>2. new.request \in rejected => stored /\ new.typed
    BY <1>3, <2>1
  <2>3. kept'.request \in rejected => kept'.typed
    BY <1>4, <2>1, <2>2
  <2>4. action.kind # "submit"
    BY <1>1 DEF CreationInv, ActionInv
  <2>5. recovery'.pc \in {"asked", "answered"} /\ new.request \in rejected =>
          new.submitted
    <3> SUFFICES ASSUME recovery'.pc \in {"asked", "answered"},
                        new.request \in rejected, ~new.submitted
                 PROVE  FALSE
      OBVIOUS
    <3>1. kept.typed /\ ~kept.submitted /\ kept.task = NoTask
      BY <1>3, <2>1, <2>2
    <3> QED BY <1>0, <1>1, <3>1, OpeningCases, RecoveringWhen
  <2>6. new.submitted /\ recovery'.pc \in {"draft", "unasked"} => new.task # NoTask
    BY <1>0, <1>1, OpeningCases, RecoveringWhen
  <2> QED BY <1>1, <2>1, <2>2, <2>3, <2>4, <2>5, <2>6 DEF DraftInv
<1> QED BY <1>6, <1>11, <1>12, <1>13, <1>14, <1>15, <1>16 DEF CreationInv

LEMMA CloseKeeps == ASSUME CreationInv, Close PROVE CreationInv'
<1>0. CreationTypeOK
  BY DEF CreationInv
<1>1. /\ form' = Closed /\ recovery' = NotAsked /\ poll' = NoPoll /\ action' = NoAction
      /\ cuts < MaxCuts /\ cuts' = cuts + 1
      /\ UNCHANGED <<tasks, posts, drawn, kept, givenUp, rejected, stale>>
  BY DEF Close, Cut
<1>2. finished' \in BOOLEAN
  BY Zenon DEF Close
<1>3. CreationTypeOK'
  BY <1>0, <1>1, <1>2, NewRecords, Nothing, TypeParts, TypeNext
<1>4. KeptInv'
  BY <1>1 DEF CreationInv, KeptInv, Out, OneAgent
<1> QED BY <1>1, <1>3, <1>4, NewRecords
        DEF CreationInv, FormInv, DraftInv, RecoveryInv, PollInv, ActionInv

(* The dialog's request is stored before it is sent; another one that is out *)
(* would be in the storage, so that it is the dialog's.                      *)
LEMMA SubmitAgentKeeps == ASSUME CreationInv, SubmitAgent PROVE CreationInv'
<1> DEFINE new == [form EXCEPT !.submitted = TRUE]
           entry == Entry(form.request, TRUE, form.task, TRUE)
           call == [kind |-> "submit", pc |-> "sent", request |-> form.request,
                    again |-> form.submitted, reply |-> "none"]
<1>0. CreationTypeOK /\ form \in FormType /\ kept \in Entries /\ drawn \in Nat
  BY TypeParts DEF CreationInv
<1>1. /\ form.open /\ form.typed /\ Commit(new, entry) /\ action' = call
      /\ posts' = posts \cup {form.request}
      /\ UNCHANGED <<tasks, drawn, poll, finished, givenUp, rejected, cuts>>
  BY DEF SubmitAgent
<1>2. /\ new \in FormType /\ new.open /\ new.request = form.request
      /\ new.submitted = TRUE /\ new.task = form.task /\ new.typed = form.typed
  BY <1>0, <1>1 DEF FormType
<1>3. /\ form.request \in 1..drawn /\ form.request \in Requests
      /\ form.request \in Request /\ form.task \in Request
  <2>1. form.request \in 1..drawn /\ drawn \in 0..MaxRequests
    BY <1>0, <1>1, TypeParts
  <2> QED BY <1>0, <2>1 DEF FormType, Requests
<1>4. entry \in Entries /\ entry.request = form.request /\ entry.submitted = TRUE
      /\ entry.task = form.task /\ entry.typed = TRUE
  BY <1>3, TaskEntry
<1>5. /\ call \in ActionType /\ call.request = form.request /\ call.pc = "sent"
      /\ call.reply = "none" /\ call.again = form.submitted
  BY <1>0, <1>3, States DEF ActionType, FormType
<1> HIDE DEF new, entry, call
<1>6. /\ form' = new /\ kept' = entry /\ recovery' \in RecoveryType
      /\ recovery'.pc = "answered" => recovery' = recovery /\ new.request = form.request
  BY <1>0, <1>1, <1>2, <1>4, CommitMoves
<1>7. CreationTypeOK'
  <2>1. stale' = stale \/ stale' = stale \cup {form.request}
    BY DEF SubmitAgent
  <2>2. stale' \subseteq Requests /\ posts' \subseteq Requests
    BY <1>0, <1>1, <1>3, <2>1, TypeParts
  <2> QED BY <1>0, <1>1, <1>2, <1>3, <1>4, <1>5, <1>6, <2>2, TypeParts, TypeNext
<1>8. \A p \in Requests : Out(p)' => Out(p) \/ p = form.request
  BY <1>1 DEF Out
<1>9. ASSUME NEW p \in Requests \ givenUp, Out(p), tasks[p] # "succeeded"
      PROVE  p = form.request
  <2>1. kept.request = p
    BY <1>9 DEF CreationInv, KeptInv
  <2> QED BY <1>1, <1>9, <2>1, RequestNumbers DEF CreationInv, FormInv
<1>10. KeptInv'
  <2>1. \A p \in Requests : Out(p)' => p <= drawn
    BY <1>3, <1>8 DEF CreationInv, KeptInv
  <2>2. form.request \in 0..drawn
    BY <1>3
  <2>3. OneAgent(form.request, form.task)
        /\ (form.task # NoTask => tasks[form.task] # "none")
    BY <1>1 DEF CreationInv, FormInv
  <2> QED BY <1>1, <1>4, <1>6, <1>8, <1>9, <2>1, <2>2, <2>3 DEF KeptInv, OneAgent
<1>11. FormInv'
  BY <1>1, <1>2, <1>4, <1>6 DEF CreationInv, FormInv, OneAgent
<1>12. RecoveryInv'
  BY <1>1, <1>2, <1>6, RecoveryKept DEF CreationInv
<1>13. PollInv'
  BY <1>1, <1>2, <1>6 DEF CreationInv, PollInv
<1>14. ActionInv'
  <2>1. ASSUME ~form.submitted, form.request \notin givenUp \cup rejected
        PROVE  tasks[form.request] = "none"
    <3>1. kept.request = form.request /\ ~kept.submitted
      BY <1>1, <2>1 DEF CreationInv, FormInv
    <3> QED BY <1>3, <2>1, <3>1 DEF CreationInv, KeptInv, Out
  <2> QED BY <1>1, <1>2, <1>3, <1>5, <1>6, <2>1 DEF ActionInv
<1>15. DraftInv'
  <2>1. \A q \in rejected' : q <= drawn'
    BY <1>1 DEF CreationInv, DraftInv
  <2> QED BY <1>0, <1>1, <1>2, <1>4, <2>1, DraftKept
<1> QED BY <1>7, <1>10, <1>11, <1>12, <1>13, <1>14, <1>15 DEF CreationInv

------------------------------------------------------------------------------
(* The server.  A task that is there stays, and a success is final.          *)
Later ==
  \A q \in Requests : /\ tasks[q] # "none" => tasks'[q] # "none"
                      /\ tasks[q] = "succeeded" => tasks'[q] = "succeeded"
                      /\ Out(q)' => Out(q)

LEMMA ServerMoves ==
  ASSUME CreationInv, Later, ActionInv',
         tasks' \in [Requests -> TaskStates], posts' \subseteq Requests,
         stale' \subseteq Requests, cuts' \in 0..MaxCuts, action' \in ActionType,
         action'.kind = "submit" => action.kind = "submit",
         UNCHANGED <<drawn, kept, form, recovery, poll, finished, givenUp,
                     rejected>>
  PROVE  CreationInv'
<1>0. CreationTypeOK /\ kept \in Entries /\ form \in FormType
      /\ recovery \in RecoveryType
  BY TypeParts DEF CreationInv
<1>1. CreationTypeOK'
  BY <1>0, TypeParts, TypeNext
<1>2. \A q \in Request : q # NoTask => q \in Requests
  BY DEF Request
<1>3. kept.task \in Request /\ form.task \in Request /\ recovery.found \in Request
  BY <1>0 DEF Entries, FormType, RecoveryType, Request
<1>4. KeptInv'
  BY <1>2, <1>3 DEF CreationInv, KeptInv, Later, OneAgent
<1>5. FormInv'
  BY <1>2, <1>3 DEF CreationInv, FormInv, Later, OneAgent
<1>6. RecoveryInv'
  BY <1>2, <1>3 DEF CreationInv, RecoveryInv, Later
<1>7. PollInv'
  BY <1>2, <1>3 DEF CreationInv, PollInv, Later
<1>8. DraftInv'
  BY DEF CreationInv, DraftInv
<1> QED BY <1>1, <1>4, <1>5, <1>6, <1>7, <1>8 DEF CreationInv

LEMMA AnsweredCases ==
  ASSUME CreationTypeOK, NEW q, NEW reply \in TaskStates \cup Refusals \cup {"lost"}
  PROVE  /\ Answered(q, reply) \in ActionType
         /\ Answered(q, reply).kind = action.kind
         /\ Answered(q, reply).request = action.request
         /\ Answered(q, reply).again = action.again
         /\ \/ /\ Answered(q, reply) = action
               /\ ~(action.kind = "submit" /\ action.pc = "sent" /\ action.request = q)
            \/ /\ action.kind = "submit" /\ action.pc = "sent" /\ action.request = q
               /\ Answered(q, reply).pc = "answered" /\ Answered(q, reply).reply = reply
<1>1. action \in ActionType
  BY TypeParts
<1>2. CASE action.kind = "submit" /\ action.pc = "sent" /\ action.request = q
  <2> DEFINE next == [action EXCEPT !.pc = "answered", !.reply = reply]
  <2>1. /\ next \in ActionType /\ next.kind = action.kind
        /\ next.request = action.request /\ next.again = action.again /\ next.pc = "answered" /\ next.reply = reply
    BY <1>1 DEF ActionType
  <2>2. Answered(q, reply) = next
    BY <1>2 DEF Answered
  <2> HIDE DEF next
  <2> QED BY <1>2, <2>1, <2>2
<1>3. CASE ~(action.kind = "submit" /\ action.pc = "sent" /\ action.request = q)
  BY <1>1, <1>3 DEF Answered
<1> QED BY <1>2, <1>3

LEMMA ServeCreationKeeps ==
  ASSUME CreationInv, NEW q \in Requests, ServeCreation(q)
  PROVE  CreationInv'
<1>0. CreationTypeOK /\ tasks \in [Requests -> TaskStates]
  BY TypeParts DEF CreationInv
<1>1. /\ q \in posts /\ posts' = posts \ {q}
      /\ UNCHANGED <<drawn, kept, form, recovery, poll, finished, givenUp,
                     rejected, cuts, stale>>
  BY DEF ServeCreation
<1>2. PICK reply \in TaskStates \cup Refusals :
        /\ action' = Answered(q, reply)
        /\ \/ UNCHANGED tasks
           \/ tasks[q] # "succeeded" /\ tasks' = [tasks EXCEPT ![q] = "running"]
        /\ reply \in TaskStates => tasks'[q] # "none"
        /\ reply \in Refusals => UNCHANGED tasks
  <2>1. CASE /\ tasks[q] \in Working \cup {"succeeded"} /\ UNCHANGED tasks
             /\ action' = Answered(q, tasks[q])
    BY <1>0, <2>1, States DEF TaskStates, Working, Over, Refusals
  <2>2. CASE /\ tasks[q] \notin Working \cup {"succeeded"}
             /\ tasks' = [tasks EXCEPT ![q] = "running"]
             /\ action' = Answered(q, "running")
    BY <1>0, <2>2, States DEF TaskStates, Working, Over, Refusals
  <2>3. CASE /\ \E refusal \in Refusals : action' = Answered(q, refusal)
             /\ UNCHANGED tasks
    <3>1. PICK refusal \in Refusals : action' = Answered(q, refusal)
      BY <2>3
    <3>2. refusal \notin TaskStates
      BY DEF Refusals, TaskStates, Working, Over
    <3> QED BY <2>3, <3>1, <3>2
  <2>4. Started(q) =>
          \/ /\ tasks[q] \in Working \cup {"succeeded"} /\ UNCHANGED tasks
             /\ action' = Answered(q, tasks[q])
          \/ /\ tasks[q] \notin Working \cup {"succeeded"}
             /\ tasks' = [tasks EXCEPT ![q] = "running"]
             /\ action' = Answered(q, "running")
    BY DEF Started
  <2> QED BY <2>1, <2>2, <2>3, <2>4 DEF ServeCreation
<1>3. tasks' \in [Requests -> TaskStates] /\ Later
  BY <1>0, <1>1, <1>2, States DEF Later, Out
<1>4. /\ action' \in ActionType /\ action'.kind = action.kind
      /\ action'.request = action.request /\ action'.again = action.again
      /\ \/ /\ action' = action
            /\ ~(action.kind = "submit" /\ action.pc = "sent" /\ action.request = q)
         \/ /\ action.pc = "sent" /\ action.request = q
            /\ action'.pc = "answered" /\ action'.reply = reply
  BY <1>0, <1>2, AnsweredCases
<1>5. ActionInv'
  <2> SUFFICES ASSUME action.kind = "submit" PROVE ActionInv'
    BY <1>4 DEF ActionInv
  <2>1. action.request \in Requests
    BY <1>0, TypeParts DEF CreationInv, ActionInv, Requests
  <2>2. CASE action' = action /\ ~(action.pc = "sent" /\ action.request = q)
    <3>1. action.pc = "sent" => tasks'[action.request] = tasks[action.request]
      BY <1>0, <1>2, <2>1, <2>2
    <3> QED BY <1>1, <1>3, <2>1, <2>2, <3>1 DEF CreationInv, ActionInv, Later
  <2>3. CASE /\ action.pc = "sent" /\ action.request = q
             /\ action'.pc = "answered" /\ action'.reply = reply
    <3>1. reply = "taken" /\ tasks[q] = "none" => ~Out(q)'
      BY <1>1, <1>2 DEF Out, Refusals
    <3> QED BY <1>1, <1>2, <1>4, <2>3, <3>1 DEF CreationInv, ActionInv
  <2> QED BY <1>4, <2>2, <2>3
<1> QED BY <1>0, <1>1, <1>3, <1>4, <1>5, ServerMoves, TypeParts

LEMMA LoseKeeps ==
  ASSUME CreationInv, LoseAnswer \/ \E q \in Requests : LoseCreation(q)
  PROVE  CreationInv'
<1>0. CreationTypeOK /\ action \in ActionType
  BY TypeParts DEF CreationInv
<1>1. /\ posts' \subseteq posts /\ cuts' = cuts + 1 /\ cuts < MaxCuts
      /\ UNCHANGED <<tasks, drawn, kept, form, recovery, poll, finished,
                     givenUp, rejected, stale>>
  BY DEF LoseAnswer, LoseCreation, Cut
<1>2. /\ action' \in ActionType /\ action'.kind = action.kind
      /\ action'.request = action.request /\ action'.again = action.again
      /\ action' = action \/ (action'.pc = "answered" /\ action'.reply = "lost")
  <2>1. CASE LoseAnswer
    BY <1>0, <2>1 DEF LoseAnswer, ActionType
  <2>2. CASE \E q \in Requests : LoseCreation(q)
    BY <1>0, <2>2, AnsweredCases DEF LoseCreation
  <2> QED BY <2>1, <2>2
<1>3. Later
  BY <1>1 DEF Later, Out
<1>4. ActionInv'
  <2> SUFFICES ASSUME action.kind = "submit" PROVE ActionInv'
    BY <1>2 DEF ActionInv
  <2>1. action.request \in Requests
    BY <1>0, TypeParts DEF CreationInv, ActionInv, Requests
  <2>2. "lost" \notin TaskStates
    BY DEF TaskStates, Working, Over
  <2> QED BY <1>1, <1>2, <1>3, <2>1, <2>2 DEF CreationInv, ActionInv, Later
<1>5. /\ tasks' \in [Requests -> TaskStates] /\ posts' \subseteq Requests
      /\ stale' \subseteq Requests /\ cuts' \in 0..MaxCuts
  BY <1>0, <1>1, TypeParts
<1> QED BY <1>1, <1>2, <1>3, <1>4, <1>5, ServerMoves

LEMMA EndTaskKeeps ==
  ASSUME CreationInv, NEW q \in Requests, EndTask(q)
  PROVE  CreationInv'
<1>0. CreationTypeOK /\ tasks \in [Requests -> TaskStates]
  BY TypeParts DEF CreationInv
<1>1. /\ tasks[q] \in Working
      /\ UNCHANGED <<posts, drawn, kept, form, recovery, poll, action,
                     finished, givenUp, rejected, cuts, stale>>
  BY DEF EndTask
<1>2. PICK s \in Over : tasks' = [tasks EXCEPT ![q] = s]
  BY DEF EndTask, Over
<1>3. tasks' \in [Requests -> TaskStates] /\ Later
  BY <1>0, <1>1, <1>2, States DEF Later, Out, TaskStates, Working, Over
<1>4. ActionInv'
  <2> SUFFICES ASSUME action.kind = "submit" PROVE ActionInv'
    BY <1>1 DEF ActionInv
  <2>1. action.request \in Requests
    BY <1>0, TypeParts DEF CreationInv, ActionInv, Requests
  <2>2. tasks[action.request] = "none" => tasks'[action.request] = "none"
    BY <1>0, <1>1, <1>2, <2>1, States
  <2> QED BY <1>1, <1>3, <2>1, <2>2 DEF CreationInv, ActionInv, Later
<1> QED BY <1>0, <1>1, <1>3, <1>4, ServerMoves, TypeParts

------------------------------------------------------------------------------
(* The answers.  What is out and not given up is the dialog's.               *)
LEMMA OutIsDialogs ==
  ASSUME CreationInv, form.open, NEW p \in Requests \ givenUp, Out(p),
         tasks[p] # "succeeded"
  PROVE  p = form.request /\ kept.request = p
<1>1. kept.request = p
  BY DEF CreationInv, KeptInv
<1> QED BY <1>1, RequestNumbers DEF CreationInv, FormInv

(* The dialog takes up the task of a request that is its own, or that the    *)
(* user left as well as its own; the storage follows.                        *)
LEMMA TakesTask ==
  ASSUME CreationInv, form.open, NEW q \in 1..drawn, tasks[q] # "none",
         form'.open, form'.submitted, form'.task = q,
         form'.request = q \/ {form'.request, q} \subseteq givenUp',
         kept' = Entry(q, TRUE, q, TRUE),
         \/ form.request = q \/ form.request \in givenUp'
         \/ ~form.submitted /\ form.request \notin rejected,
         givenUp \subseteq givenUp', UNCHANGED <<tasks, posts, drawn>>
  PROVE  KeptInv' /\ FormInv'
<1>0. drawn \in Nat /\ q \in Requests /\ q \in Request /\ q # NoTask
  BY TypeParts, RequestNumbers DEF CreationInv, Requests
<1>1. kept'.request = q /\ kept'.submitted = TRUE /\ kept'.task = q
  BY <1>0, TaskEntry
<1>2. ASSUME NEW p \in Requests \ givenUp', Out(p), tasks[p] # "succeeded" PROVE p = q
  <2>1. p = form.request /\ kept.request = p
    BY <1>2, OutIsDialogs
  <2>2. ASSUME ~form.submitted, form.request \notin rejected PROVE FALSE
    <3>1. kept.submitted
      BY <1>2, <2>1, <2>2 DEF CreationInv, KeptInv
    <3> QED BY <1>2, <2>1, <2>2, <3>1 DEF CreationInv, FormInv
  <2> QED BY <1>2, <2>1, <2>2
<1>3. \A p \in Requests : Out(p)' <=> Out(p)
  BY DEF Out
<1>4. KeptInv'
  <2>1. kept'.request \in 0..drawn'
    <3>1. q \in 0..drawn
      BY <1>0
    <3>2. drawn' = drawn
      OBVIOUS
    <3> QED BY <1>1, <3>1, <3>2
  <2>2. OneAgent(kept.request, kept.task)' /\ tasks'[kept'.task] # "none"
    BY <1>1 DEF OneAgent
  <2>3. \A p \in Requests : Out(p)' => p <= drawn'
    BY <1>3 DEF CreationInv, KeptInv
  <2>4. \A p \in Requests \ givenUp' : Out(p)' =>
          /\ tasks'[p] # "succeeded" => kept'.request = p
          /\ kept'.request = p => kept'.submitted
    BY <1>1, <1>2, <1>3
  <2> QED BY <2>1, <2>2, <2>3, <2>4 DEF KeptInv, OneAgent
<1>5. FormInv'
  BY <1>0, <1>1 DEF FormInv, OneAgent
<1> QED BY <1>4, <1>5

(* An answer unlocks the form of a request that was called invalid, or of    *)
(* one that has no task and gets none.                                       *)
LEMMA UnlockedForm ==
  ASSUME CreationInv, action.kind = "submit", Unlocks(action),
         action.reply = "invalid" => action.request \in givenUp \cup rejected',
         rejected \subseteq rejected'
  PROVE  form.request \in givenUp \cup rejected' \/ ~Out(form.request)
BY DEF CreationInv, ActionInv, Unlocks

LEMMA SubmitEndsKeeps == ASSUME CreationInv, SubmitEnds PROVE CreationInv'
<1> DEFINE q == action.request
<1>0. CreationTypeOK /\ form \in FormType /\ kept \in Entries /\ action \in ActionType
      /\ drawn \in 0..MaxRequests /\ rejected \subseteq Requests
  BY TypeParts DEF CreationInv
<1>1. /\ action.kind = "submit" /\ action.pc = "answered" /\ action' = NoAction
      /\ UNCHANGED <<tasks, posts, drawn, finished, givenUp, cuts>>
  BY DEF SubmitEnds
<1>2. /\ form.open /\ form.submitted /\ q \in 1..drawn
      /\ form.request = q \/ {form.request, q} \subseteq givenUp
      /\ action.reply \in TaskStates => tasks[q] # "none"
  BY <1>1 DEF CreationInv, ActionInv
<1>3. q \in Requests /\ q \in Request /\ q # NoTask /\ form.request \in 1..drawn
      /\ form.request \in Requests
  BY <1>0, <1>2, RequestNumbers, TypeParts DEF Requests
<1>4. ActionInv' /\ action' \in ActionType /\ action'.kind = "none"
  BY <1>1, NoSubmission, NewRecords
<1>5. stale' \subseteq Requests /\ rejected' \subseteq rejected \cup {q}
  BY <1>0, TypeParts DEF SubmitEnds
<1>6. /\ rejected' \subseteq Requests /\ \A p \in rejected' : p <= drawn'
      /\ form.typed /\ (kept.typed \/ kept.request = NoTask)
  BY <1>0, <1>1, <1>2, <1>3, <1>5 DEF CreationInv, DraftInv
<1> HIDE DEF q
<1>7. CASE /\ action.reply \in TaskStates
           /\ Commit([form EXCEPT !.task = q, !.shown = action.reply],
                     Entry(q, TRUE, q, TRUE))
           /\ poll' = Polled(q)
  <2> DEFINE new == [form EXCEPT !.task = q, !.shown = action.reply]
  <2>1. /\ new \in FormType /\ new.open /\ new.request = form.request
        /\ new.submitted = form.submitted /\ new.task = q /\ new.typed = form.typed
    BY <1>0, <1>2, <1>3, <1>7 DEF FormType
  <2>2. Commit(new, Entry(q, TRUE, q, TRUE))
    BY <1>7
  <2> HIDE DEF new
  <2>3. /\ form' = new /\ kept' \in Entries /\ recovery' \in RecoveryType
        /\ kept' = Entry(q, TRUE, q, TRUE)
        /\ recovery'.pc = "answered" => recovery' = recovery /\ new.request = form.request
    BY <1>0, <1>2, <1>3, <2>1, <2>2, TaskEntry, CommitMoves
  <2>4. poll' \in PollType /\ poll'.pc = "asked"
    BY <1>7, NewRecords DEF Polled
  <2>5. CreationTypeOK'
    BY <1>0, <1>1, <1>3, <1>4, <1>5, <1>6, <2>1, <2>3, <2>4, TypeParts, TypeNext
  <2>6. KeptInv' /\ FormInv'
    BY <1>1, <1>2, <1>7, <2>1, <2>3, TakesTask
  <2>7. RecoveryInv'
    BY <1>1, <2>1, <2>3, RecoveryKept DEF CreationInv
  <2>8. PollInv'
    BY <1>3, <2>1, <2>3, <2>4 DEF PollInv
  <2>9. DraftInv'
    BY <1>1, <1>2, <1>3, <1>4, <1>6, <2>1, <2>2, TaskEntry, DraftKept
  <2> QED BY <1>4, <2>5, <2>6, <2>7, <2>8, <2>9 DEF CreationInv
<1>8. CASE /\ Unlocks(action) /\ action.reply \notin TaskStates
           /\ Commit([form EXCEPT !.submitted = FALSE], kept)
           /\ rejected' = IF action.reply = "invalid" THEN rejected \cup ({q} \ givenUp)
                          ELSE rejected
           /\ UNCHANGED poll
  <2> DEFINE new == [form EXCEPT !.submitted = FALSE]
  <2>1. /\ new \in FormType /\ new.open /\ new.request = form.request
        /\ new.submitted = FALSE /\ new.task = form.task /\ new.typed = form.typed
    BY <1>0, <1>2 DEF FormType
  <2>2. Commit(new, kept)
    BY <1>8
  <2> HIDE DEF new
  <2>3. /\ form' = new /\ kept' \in Entries /\ recovery' \in RecoveryType
        /\ form.task = NoTask => /\ kept'.request = form.request
                                 /\ kept'.submitted = FALSE /\ kept'.task = NoTask
        /\ form.task # NoTask => kept' = kept
        /\ recovery'.pc = "answered" => recovery' = recovery /\ new.request = form.request
    BY <1>0, <1>2, <2>1, <2>2, CommitMoves
  <2>4. CreationTypeOK'
    BY <1>0, <1>1, <1>3, <1>4, <1>5, <1>6, <1>8, <2>1, <2>3, TypeParts, TypeNext
  <2>5. \A p \in Requests : Out(p)' <=> Out(p)
    BY <1>1 DEF Out
  <2>6. rejected \subseteq rejected' /\ (action.reply = "invalid" => q \in givenUp \cup rejected')
    BY <1>8
  <2>7. form.request \in givenUp \cup rejected' \/ ~Out(form.request)
    BY <1>1, <1>8, <2>6, UnlockedForm DEF q
  <2>8. form.task # NoTask => form.request \in givenUp \cup rejected'
    <3>1. SUFFICES ASSUME form.task # NoTask, form.request \notin givenUp \cup rejected'
                   PROVE  FALSE
      OBVIOUS
    <3>2. form.task = form.request /\ tasks[form.task] # "none"
      BY <1>2, <3>1 DEF CreationInv, FormInv, OneAgent
    <3> QED BY <2>7, <3>1, <3>2 DEF Out
  <2>9. KeptInv'
    <3>1. CASE form.task = NoTask
      <4>1. ASSUME NEW p \in Requests \ givenUp, Out(p), tasks[p] # "succeeded"
            PROVE  p = form.request
        BY <1>2, <4>1, OutIsDialogs
      <4>2. ASSUME NEW p \in Requests \ givenUp, Out(p), p = form.request
            PROVE  p \in rejected'
        BY <2>7, <4>2
      <4>3. kept'.request \in 0..drawn'
        BY <1>0, <1>1, <1>3, <2>3, <3>1
      <4> QED BY <1>1, <2>3, <2>5, <3>1, <4>1, <4>2, <4>3
              DEF CreationInv, KeptInv, OneAgent
    <3>2. CASE form.task # NoTask
      BY <1>1, <2>3, <2>5, <2>6, <3>2 DEF CreationInv, KeptInv, OneAgent
    <3> QED BY <3>1, <3>2
  <2>10. FormInv'
    BY <1>1, <1>2, <2>1, <2>3, <2>8 DEF CreationInv, FormInv, OneAgent
  <2>11. RecoveryInv'
    BY <1>1, <2>1, <2>3, RecoveryKept DEF CreationInv
  <2>12. PollInv'
    BY <1>1, <1>2, <1>8, <2>1, <2>3 DEF CreationInv, PollInv
  <2>13. DraftInv'
    <3>1. kept.request \in rejected' => kept.typed
      BY <1>6, RequestNumbers
    <3> QED BY <1>0, <1>1, <1>2, <1>4, <1>6, <2>1, <2>2, <3>1, DraftKept
  <2> QED BY <1>4, <2>4, <2>9, <2>10, <2>11, <2>12, <2>13 DEF CreationInv
<1>9. CASE UNCHANGED <<form, kept, recovery, poll, rejected>>
  <2>1. CreationTypeOK'
    BY <1>0, <1>1, <1>4, <1>5, <1>9, TypeParts, TypeNext
  <2>2. DraftInv'
    BY <1>1, <1>4, <1>9 DEF CreationInv, DraftInv
  <2> QED BY <1>1, <1>4, <1>9, <2>1, <2>2
          DEF CreationInv, KeptInv, FormInv, RecoveryInv, PollInv, Out, OneAgent
<1>10. action.reply = "invalid" => Unlocks(action)
  BY DEF Unlocks
<1> QED BY <1>7, <1>8, <1>9, <1>10 DEF SubmitEnds, q

LEMMA RecoveryOver ==
  ASSUME CreationInv, recovery' = [NotAsked EXCEPT !.pc = "over"],
         UNCHANGED <<tasks, posts, drawn, kept, form, poll, action, finished,
                     givenUp, rejected, cuts, stale>>
  PROVE  CreationInv'
<1>1. CreationTypeOK'
  BY NewRecords, TypeParts, TypeNext DEF CreationInv
<1>2. KeptInv' /\ FormInv' /\ PollInv'
  BY DEF CreationInv, KeptInv, FormInv, PollInv, Out, OneAgent
<1>3. RecoveryInv'
  BY NewRecords DEF RecoveryInv
<1>4. ActionInv'
  BY DEF CreationInv, ActionInv, Out
<1>5. DraftInv'
  BY NewRecords DEF CreationInv, DraftInv
<1> QED BY <1>1, <1>2, <1>3, <1>4, <1>5 DEF CreationInv

LEMMA ReadTasksKeeps == ASSUME CreationInv, ReadTasks PROVE CreationInv'
<1>0. CreationTypeOK /\ tasks \in [Requests -> TaskStates] /\ form.open
      /\ form.request \in Requests
  <2>1. CreationTypeOK /\ form.open
    BY DEF CreationInv, RecoveryInv, ReadTasks
  <2>2. form.request \in 1..drawn /\ drawn \in 0..MaxRequests
    BY <2>1, TypeParts
  <2> QED BY <2>1, <2>2, TypeParts DEF Requests
<1>1. UNCHANGED <<tasks, posts, drawn, kept, form, poll, action, finished,
                  givenUp, rejected, cuts, stale>>
  BY DEF ReadTasks
<1>2. PICK q \in Request :
        /\ recovery' = [pc |-> "answered", found |-> q,
                        state |-> IF q = NoTask THEN "none" ELSE tasks[q]]
        /\ q # NoTask => \/ q = form.request /\ tasks[q] # "none"
                         \/ tasks[q] \notin {"none", "succeeded"}
  BY <1>0, RequestNumbers DEF ReadTasks, Request
<1>3. q # NoTask => q \in Requests /\ tasks[q] \in TaskStates
  BY <1>0 DEF Request
<1>4. recovery' \in RecoveryType /\ recovery'.pc = "answered" /\ recovery'.found = q
  BY <1>2, <1>3, States DEF RecoveryType
<1>5. q # NoTask => tasks[q] # "none" /\ q \in givenUp \cup {form.request}
  BY <1>0, <1>2, <1>3, OutIsDialogs DEF Out
<1>6. CreationTypeOK'
  BY <1>0, <1>1, <1>4, TypeParts, TypeNext
<1>7. KeptInv' /\ FormInv' /\ PollInv'
  BY <1>1 DEF CreationInv, KeptInv, FormInv, PollInv, Out, OneAgent
<1>8. RecoveryInv'
  BY <1>0, <1>1, <1>4, <1>5 DEF RecoveryInv
<1>9. ActionInv'
  BY <1>1 DEF CreationInv, ActionInv, Out
<1>10. DraftInv'
  <2>1. recovery.pc = "asked"
    BY DEF ReadTasks
  <2> QED BY <1>1, <1>4, <2>1 DEF CreationInv, DraftInv
<1> QED BY <1>6, <1>7, <1>8, <1>9, <1>10 DEF CreationInv

(* What recovery replaces was submitted, and then it is given up, or was     *)
(* never sent.                                                               *)
LEMMA RecoverKeeps == ASSUME CreationInv, Recover PROVE CreationInv'
<1> DEFINE q == recovery.found
<1>0. CreationTypeOK /\ form \in FormType /\ kept \in Entries /\ poll \in PollType
      /\ recovery \in RecoveryType /\ drawn \in 0..MaxRequests
  BY TypeParts DEF CreationInv
<1>1. recovery.pc = "answered" /\ form.open
      /\ UNCHANGED <<tasks, posts, drawn, action, finished, cuts, stale>>
  BY DEF CreationInv, RecoveryInv, Recover
<1>2. CASE q = NoTask
  <2>1. UNCHANGED <<kept, form, poll, givenUp, rejected>>
        /\ recovery' = [NotAsked EXCEPT !.pc = "over"]
    BY <1>2 DEF Recover
  <2> QED BY <1>1, <2>1, RecoveryOver
<1>3. CASE q # NoTask
  <2> DEFINE new == [form EXCEPT !.request = q, !.submitted = TRUE, !.task = q,
                                 !.typed = TRUE, !.shown = recovery.state]
  <2>1. /\ Commit(new, Entry(q, TRUE, q, TRUE)) /\ rejected' = rejected \ givenUp'
        /\ poll' = Polling([form EXCEPT !.task = q])
        /\ givenUp' = IF form.submitted /\ form.request # q
                      THEN givenUp \cup {form.request} ELSE givenUp
    BY <1>3 DEF Recover
  <2>2. q \in Request /\ recovery.state \in TaskStates
    BY <1>0 DEF RecoveryType
  <2>3. q \in Requests /\ tasks[q] # "none" /\ q \in givenUp \cup {form.request}
    BY <1>1, <1>3, <2>2 DEF CreationInv, RecoveryInv, Request
  <2>4. q \in 1..drawn
    BY <1>0, <2>3 DEF CreationInv, KeptInv, Out, Requests
  <2>5. form.request \in Requests
    <3>1. form.request \in 1..drawn
      BY <1>0, <1>1, TypeParts
    <3> QED BY <1>0, <3>1 DEF Requests
  <2> HIDE DEF q
  <2>6. /\ new \in FormType /\ new.open /\ new.request = q
        /\ new.submitted = TRUE /\ new.task = q /\ new.typed = TRUE
    BY <1>0, <1>1, <2>2 DEF FormType
  <2> HIDE DEF new
  <2>7. /\ form' = new /\ kept' \in Entries /\ recovery' \in RecoveryType
        /\ kept' = Entry(q, TRUE, q, TRUE)
        /\ recovery'.pc = "answered" => recovery' = recovery /\ new.request = form.request
    BY <1>0, <1>1, <2>1, <2>2, <2>6, TaskEntry, CommitMoves
  <2>8. /\ givenUp' \subseteq Requests /\ givenUp \subseteq givenUp'
        /\ rejected' \subseteq Requests /\ rejected' \subseteq rejected
        /\ rejected \subseteq givenUp' \cup rejected'
        /\ \/ form.request = q \/ form.request \in givenUp'
           \/ ~form.submitted /\ form.request \notin rejected
    BY <1>0, <1>1, <2>1, <2>5, TypeParts DEF CreationInv, DraftInv
  <2>9. [form EXCEPT !.task = q].task = q
    BY <1>0 DEF FormType
  <2>10. poll' \in PollType /\ (q = form.task => poll' = poll)
         /\ (q # form.task => poll'.pc = "asked")
    BY <1>0, <1>3, <2>1, <2>9, NewRecords DEF Polling
  <2>11. CreationTypeOK'
    BY <1>0, <1>1, <2>4, <2>6, <2>7, <2>8, <2>10, TypeParts, TypeNext
  <2>12. KeptInv' /\ FormInv'
    BY <1>1, <2>3, <2>4, <2>6, <2>7, <2>8, TakesTask
  <2>13. RecoveryInv'
    BY <1>1, <2>6, <2>7, <2>8, RecoveryKept DEF CreationInv
  <2>14. PollInv'
    BY <1>1, <1>3, <2>6, <2>7, <2>10 DEF CreationInv, PollInv
  <2>15. ActionInv'
    <3> SUFFICES ASSUME action.kind = "submit"
                 PROVE  form'.request = action.request
                        \/ {form'.request, action.request} \subseteq givenUp'
      BY <1>1, <2>6, <2>7, <2>8 DEF CreationInv, ActionInv, Out
    <3>1. form.submitted /\ \/ form.request = action.request
                            \/ {form.request, action.request} \subseteq givenUp
      BY DEF CreationInv, ActionInv
    <3> QED BY <2>3, <2>6, <2>7, <2>8, <3>1
  <2>16. DraftInv'
    <3>1. \A p \in rejected' : p <= drawn'
      BY <1>1, <2>8 DEF CreationInv, DraftInv
    <3> QED BY <1>0, <1>1, <2>1, <2>2, <2>6, <2>8, <3>1, TaskEntry, DraftKept
  <2> QED BY <2>11, <2>12, <2>13, <2>14, <2>15, <2>16 DEF CreationInv
<1> QED BY <1>2, <1>3

LEMMA PollReadKeeps == ASSUME CreationInv, PollRead PROVE CreationInv'
<1>0. CreationTypeOK /\ tasks \in [Requests -> TaskStates] /\ form \in FormType
      /\ form.task # NoTask /\ form.open
  BY TypeParts DEF CreationInv, PollInv, PollRead
<1>1. form.task \in Requests
  BY <1>0 DEF FormType, Request
<1>2. poll' = [pc |-> "answered", state |-> tasks[form.task]]
      /\ UNCHANGED <<tasks, posts, drawn, kept, form, recovery, action,
                     finished, givenUp, rejected, cuts, stale>>
  BY DEF PollRead
<1>3. poll' \in PollType /\ poll'.state = tasks[form.task]
  BY <1>0, <1>1, <1>2 DEF PollType
<1>4. CreationTypeOK'
  BY <1>0, <1>2, <1>3, TypeParts, TypeNext
<1>5. KeptInv' /\ FormInv' /\ DraftInv' /\ RecoveryInv' /\ ActionInv'
  BY <1>2 DEF CreationInv, KeptInv, FormInv, DraftInv, RecoveryInv, ActionInv, Out, OneAgent
<1>6. PollInv'
  BY <1>0, <1>2, <1>3 DEF PollInv
<1> QED BY <1>4, <1>5, <1>6 DEF CreationInv

(* What the dialog shows of its task matters to no part of the invariant.    *)
LEMMA ShownType ==
  ASSUME NEW f \in FormType, NEW s \in TaskStates
  PROVE  LET new == [f EXCEPT !.shown = s]
         IN /\ new \in FormType /\ new.open = f.open /\ new.request = f.request
            /\ new.submitted = f.submitted /\ new.task = f.task
            /\ new.typed = f.typed
BY DEF FormType

LEMMA ShownKeeps ==
  ASSUME CreationInv, NEW s \in TaskStates, form' = [form EXCEPT !.shown = s],
         UNCHANGED <<tasks, posts, drawn, recovery, givenUp, rejected, cuts,
                     stale>>,
         finished' \in BOOLEAN, kept' \in Entries, poll' \in PollType,
         action' \in ActionType
  PROVE  /\ CreationTypeOK' /\ RecoveryInv'
         /\ form'.open = form.open /\ form'.request = form.request
         /\ form'.submitted = form.submitted /\ form'.task = form.task
         /\ form'.typed = form.typed
<1>0. CreationTypeOK /\ form \in FormType
  BY TypeParts DEF CreationInv
<1>1. /\ form' \in FormType /\ form'.open = form.open /\ form'.request = form.request
      /\ form'.submitted = form.submitted /\ form'.task = form.task
      /\ form'.typed = form.typed
  BY <1>0, ShownType
<1>2. CreationTypeOK'
  BY <1>0, <1>1, TypeParts, TypeNext
<1>3. RecoveryInv'
  BY <1>1 DEF CreationInv, RecoveryInv
<1> QED BY <1>1, <1>2, <1>3

(* The storage is cleared when the dialog's task has succeeded: no other one *)
(* is out that was not given up.                                             *)
LEMMA PollEndsKeeps == ASSUME CreationInv, PollEnds PROVE CreationInv'
<1>0. CreationTypeOK /\ form \in FormType /\ kept \in Entries /\ poll \in PollType
      /\ action \in ActionType /\ drawn \in Nat
  BY TypeParts DEF CreationInv
<1>1. /\ form' = [form EXCEPT !.shown = poll.state]
      /\ poll' = IF poll.state \in Working THEN [NoPoll EXCEPT !.pc = "asked"] ELSE NoPoll
      /\ UNCHANGED <<tasks, posts, drawn, recovery, action, givenUp,
                     rejected, cuts, stale>>
  BY DEF PollEnds
<1>2. /\ form.open /\ form.task # NoTask
      /\ poll.state = "succeeded" => tasks[form.task] = "succeeded"
  BY DEF CreationInv, PollInv, PollEnds
<1>3. (poll.state = "succeeded" /\ kept' = NothingKept) \/ kept' = kept
  BY Zenon DEF PollEnds
<1>4. finished' \in BOOLEAN
  <2>1. finished \in BOOLEAN
    BY <1>0, TypeParts
  <2>2. finished' = TRUE \/ finished' = finished
    BY Zenon DEF PollEnds
  <2> QED BY <2>1, <2>2, Zenon
<1>5. kept' \in Entries /\ poll' \in PollType /\ poll'.pc # "answered"
      /\ poll.state \in TaskStates
  BY <1>0, <1>1, <1>3, Nothing, NewRecords DEF PollType
<1>6. /\ CreationTypeOK' /\ RecoveryInv'
      /\ form'.open = form.open /\ form'.request = form.request
      /\ form'.submitted = form.submitted /\ form'.task = form.task
      /\ form'.typed = form.typed
  BY <1>0, <1>1, <1>4, <1>5, ShownKeeps
<1>7. PollInv' /\ ActionInv'
  BY <1>1, <1>2, <1>5, <1>6 DEF CreationInv, PollInv, ActionInv, Out
<1>8. \A p \in Requests : Out(p)' <=> Out(p)
  BY <1>1 DEF Out
<1>9. KeptInv' /\ FormInv'
  <2>1. CASE kept' = kept
    BY <1>1, <1>6, <1>8, <2>1 DEF CreationInv, KeptInv, FormInv, OneAgent
  <2>2. CASE poll.state = "succeeded" /\ kept' = NothingKept
    <3>1. ASSUME NEW p \in Requests \ givenUp, Out(p) PROVE tasks[p] = "succeeded"
      <4> SUFFICES ASSUME tasks[p] # "succeeded" PROVE FALSE
        OBVIOUS
      <4>1. p = form.request
        BY <1>2, <3>1, OutIsDialogs
      <4>2. form.task = form.request
        BY <1>2, <3>1, <4>1 DEF CreationInv, FormInv, OneAgent
      <4> QED BY <1>2, <2>2, <4>1, <4>2
    <3>2. kept'.request = NoTask /\ kept'.task = NoTask /\ NoTask \in 0..drawn
      BY <1>0, <2>2, Nothing, RequestNumbers
    <3>3. KeptInv'
      BY <1>1, <1>8, <3>1, <3>2, RequestNumbers DEF CreationInv, KeptInv, OneAgent
    <3>4. FormInv'
      BY <1>1, <1>2, <1>6, <3>2 DEF CreationInv, FormInv, OneAgent
    <3> QED BY <3>3, <3>4
  <2> QED BY <1>3, <2>1, <2>2
<1>10. DraftInv'
  <2>1. \/ kept' = kept
        \/ kept'.request = NoTask /\ NoTask \notin rejected
    BY <1>0, <1>3, Nothing, RequestNumbers, TypeParts
  <2> QED BY <1>1, <1>6, <2>1 DEF CreationInv, DraftInv
<1> QED BY <1>6, <1>7, <1>9, <1>10 DEF CreationInv

------------------------------------------------------------------------------
(* A cancellation is about a task, and its answer is the task's state.       *)
CancelInv ==
  action.kind = "cancel" =>
    action.request \in Requests /\ action.reply \in TaskStates \cup {"lost"}

LEMMA CancelAgentKeeps == ASSUME CreationInv, CancelAgent PROVE CreationInv' /\ CancelInv'
<1>0. CreationTypeOK /\ form \in FormType
  BY TypeParts DEF CreationInv
<1>1. /\ form.task # NoTask
      /\ action' = [kind |-> "cancel", pc |-> "sent", request |-> form.task,
                    again |-> FALSE, reply |-> "none"]
      /\ UNCHANGED <<tasks, posts, drawn, kept, form, recovery, poll,
                     finished, givenUp, rejected, cuts, stale>>
  BY DEF CancelAgent
<1>2. action' \in ActionType /\ action'.kind = "cancel" /\ CancelInv'
  BY <1>0, <1>1, States DEF ActionType, CancelInv, FormType, Request
<1>3. Later
  BY <1>1 DEF Later, Out
<1> QED BY <1>0, <1>1, <1>2, <1>3, ServerMoves, TypeParts DEF ActionInv

LEMMA ServeCancelKeeps ==
  ASSUME CreationInv, CancelInv, ServeCancel
  PROVE  CreationInv' /\ CancelInv'
<1> DEFINE q == action.request
<1>0. CreationTypeOK /\ tasks \in [Requests -> TaskStates] /\ action \in ActionType
  BY TypeParts DEF CreationInv
<1>1. /\ action.kind = "cancel" /\ q \in Requests
      /\ UNCHANGED <<posts, drawn, kept, form, recovery, poll, finished,
                     givenUp, rejected, cuts>>
  BY DEF ServeCancel, CancelInv
<1>2. tasks[q] \in TaskStates
  BY <1>0, <1>1
<1>3. /\ tasks' = tasks \/ /\ tasks[q] = "running"
                           /\ tasks' = [tasks EXCEPT ![q] = "cancelling"]
      /\ action' = [action EXCEPT !.pc = "stopping"]
         \/ action' = [action EXCEPT !.pc = "answered", !.reply = tasks[q]]
      /\ stale' \subseteq stale \cup {q}
  BY DEF ServeCancel
<1> HIDE DEF q
<1>4. action' \in ActionType /\ action'.kind = "cancel" /\ CancelInv'
  <2>1. /\ action' \in ActionType /\ action'.kind = action.kind
        /\ action'.request = action.request
        /\ action'.reply = action.reply \/ action'.reply = tasks[q]
    BY <1>0, <1>2, <1>3 DEF ActionType
  <2> QED BY <1>1, <1>2, <2>1 DEF CancelInv
<1>5. tasks' \in [Requests -> TaskStates] /\ Later
  BY <1>0, <1>1, <1>3, States DEF Later, Out
<1> QED BY <1>0, <1>1, <1>3, <1>4, <1>5, ServerMoves, TypeParts DEF ActionInv

LEMMA CancelEndsKeeps ==
  ASSUME CreationInv, CancelInv, CancelEnds
  PROVE  CreationInv' /\ CancelInv'
<1>0. CreationTypeOK /\ kept \in Entries /\ poll \in PollType /\ form \in FormType
  BY TypeParts DEF CreationInv
<1>1. /\ action.kind = "cancel" /\ action' = NoAction
      /\ form' = IF action.reply = "lost" THEN form
                 ELSE [form EXCEPT !.shown = action.reply]
      /\ UNCHANGED <<tasks, posts, drawn, kept, recovery, poll, finished,
                     givenUp, rejected, cuts, stale>>
  BY DEF CancelEnds
<1>2. ActionInv' /\ action' \in ActionType /\ CancelInv'
  BY <1>1, NoSubmission, NewRecords DEF CancelInv
<1>3. finished' \in BOOLEAN
  <2>1. finished \in BOOLEAN
    BY <1>0, TypeParts
  <2> QED BY <1>1, <2>1, Zenon
<1>4. /\ CreationTypeOK' /\ RecoveryInv'
      /\ form'.open = form.open /\ form'.request = form.request
      /\ form'.submitted = form.submitted /\ form'.task = form.task
      /\ form'.typed = form.typed
  <2>1. CASE action.reply = "lost"
    <3>1. CreationTypeOK'
      BY <1>0, <1>1, <1>2, <1>3, <2>1, TypeParts, TypeNext
    <3> QED BY <1>1, <2>1, <3>1 DEF CreationInv, RecoveryInv
  <2>2. CASE action.reply # "lost"
    <3>1. action.reply \in TaskStates
      BY <1>1, <2>2 DEF CancelInv
    <3> QED BY <1>0, <1>1, <1>2, <1>3, <2>2, <3>1, ShownKeeps
  <2> QED BY <2>1, <2>2
<1>5. KeptInv' /\ FormInv' /\ PollInv'
  BY <1>1, <1>4 DEF CreationInv, KeptInv, FormInv, PollInv, Out, OneAgent
<1>6. DraftInv'
  BY <1>1, <1>4, NewRecords DEF CreationInv, DraftInv
<1> QED BY <1>2, <1>4, <1>5, <1>6 DEF CreationInv

(* Only the cancellation itself makes a call one.                            *)
LEMMA CancelKept ==
  ASSUME CreationTypeOK, CancelInv,
         \/ UNCHANGED action \/ action' = NoAction \/ action'.kind = "submit"
         \/ \E q \in Requests, reply \in TaskStates \cup Refusals \cup {"lost"} :
              action' = Answered(q, reply)
         \/ LoseAnswer
  PROVE  CancelInv'
<1>1. action \in ActionType
  BY TypeParts
<1>2. CASE UNCHANGED action \/ action' = NoAction \/ action'.kind = "submit"
  BY <1>2, NewRecords DEF CancelInv
<1>3. CASE \E q \in Requests, reply \in TaskStates \cup Refusals \cup {"lost"} :
             action' = Answered(q, reply)
  <2>1. action' = action \/ action'.kind = "submit"
    BY <1>3, AnsweredCases
  <2> QED BY <2>1 DEF CancelInv
<1>4. CASE LoseAnswer
  <2>1. /\ action'.kind = action.kind /\ action'.request = action.request
        /\ action'.reply = "lost"
    BY <1>1, <1>4 DEF LoseAnswer, ActionType
  <2> QED BY <2>1 DEF CancelInv
<1> QED BY <1>2, <1>3, <1>4

------------------------------------------------------------------------------
LEMMA NextCreationInv ==
  CreationInv /\ CancelInv /\ [CreationNext]_creationVars => CreationInv' /\ CancelInv'
<1> SUFFICES ASSUME CreationInv, CancelInv, [CreationNext]_creationVars
             PROVE  CreationInv' /\ CancelInv'
  OBVIOUS
<1>0. CreationTypeOK /\ tasks \in [Requests -> TaskStates]
  BY TypeParts DEF CreationInv
<1>1. CASE Open
  BY <1>0, <1>1, OpenKeeps, CancelKept DEF Open
<1>2. CASE Close
  BY <1>0, <1>2, CloseKeeps, CancelKept DEF Close
<1>3. CASE Type
  BY <1>0, <1>3, TypeKeeps, CancelKept DEF Type
<1>4. CASE StartAnother
  BY <1>0, <1>4, StartAnotherKeeps, CancelKept DEF StartAnother
<1>5. CASE SubmitAgent
  <2>1. action'.kind = "submit"
    BY <1>5 DEF SubmitAgent
  <2> QED BY <1>0, <1>5, <2>1, SubmitAgentKeeps, CancelKept
<1>6. CASE CancelAgent
  BY <1>6, CancelAgentKeeps
<1>7. ASSUME NEW q \in Requests, ServeCreation(q) PROVE CreationInv' /\ CancelInv'
  <2>1. tasks[q] \in TaskStates
    BY <1>0
  <2>2. \E reply \in TaskStates \cup Refusals \cup {"lost"} :
          action' = Answered(q, reply)
    BY <1>7, <2>1, States DEF ServeCreation, Started
  <2> QED BY <1>0, <1>7, <2>2, ServeCreationKeeps, CancelKept
<1>8. ASSUME NEW q \in Requests, LoseCreation(q) PROVE CreationInv' /\ CancelInv'
  <2>1. \E reply \in TaskStates \cup Refusals \cup {"lost"} :
          action' = Answered(q, reply)
    BY <1>8 DEF LoseCreation
  <2> QED BY <1>0, <1>8, <2>1, LoseKeeps, CancelKept
<1>9. ASSUME NEW q \in Requests, EndTask(q) PROVE CreationInv' /\ CancelInv'
  <2>1. UNCHANGED action
    BY <1>9 DEF EndTask
  <2> QED BY <1>0, <1>9, <2>1, EndTaskKeeps, CancelKept
<1>10. CASE LoseAnswer
  BY <1>0, <1>10, LoseKeeps, CancelKept
<1>11. CASE SubmitEnds
  BY <1>0, <1>11, SubmitEndsKeeps, CancelKept DEF SubmitEnds
<1>12. CASE ServeCancel
  BY <1>12, ServeCancelKeeps
<1>13. CASE CancelEnds
  BY <1>13, CancelEndsKeeps
<1>14. CASE ReadTasks
  BY <1>0, <1>14, ReadTasksKeeps, CancelKept DEF ReadTasks
<1>15. CASE Recover
  BY <1>0, <1>15, RecoverKeeps, CancelKept DEF Recover
<1>16. CASE RecoveryFails
  BY <1>0, <1>16, RecoveryOver, CancelKept DEF RecoveryFails
<1>17. CASE PollRead
  BY <1>0, <1>17, PollReadKeeps, CancelKept DEF PollRead
<1>18. CASE PollEnds
  BY <1>0, <1>18, PollEndsKeeps, CancelKept DEF PollEnds
<1>19. CASE UNCHANGED creationVars
  <2>1. UNCHANGED <<tasks, posts, drawn, kept, form, recovery, poll, action,
                    finished, givenUp, rejected, cuts, stale>>
    BY <1>19 DEF creationVars
  <2>2. CreationTypeOK'
    BY <1>0, <2>1, TypeParts, TypeNext
  <2> QED BY <2>1, <2>2 DEF CreationInv, KeptInv, FormInv, DraftInv, RecoveryInv, PollInv,
                            ActionInv, CancelInv, Out, OneAgent
<1> QED BY <1>1, <1>2, <1>3, <1>4, <1>5, <1>6, <1>7, <1>8, <1>9, <1>10, <1>11,
           <1>12, <1>13, <1>14, <1>15, <1>16, <1>17, <1>18, <1>19 DEF CreationNext

LEMMA CreationInvHolds == CreationSpec => []CreationInv
<1>1. CreationInit => CreationInv /\ CancelInv
  <2>1. CreationInit => CancelInv
    BY NewRecords DEF CreationInit, CancelInv
  <2> QED BY <2>1, InitCreationInv
<1> QED BY <1>1, NextCreationInv, PTL DEF CreationSpec

(* Every variable of the dialog, the storage and the server's tasks keeps to *)
(* its domain, and an open dialog is about a request that was drawn.         *)
THEOREM CreationTypes == CreationSpec => []CreationTypeOK
<1>1. CreationInv => CreationTypeOK
  BY DEF CreationInv
<1> QED BY <1>1, CreationInvHolds, PTL

(* A task that works at the server is in the browser's storage, unless the   *)
(* user left it or the recovery chose another one; it is stored as submitted *)
(* unless the inputs of a retry were called invalid, which the server may do *)
(* while the task works (mpa_creation.py:223-296).                           *)
THEOREM WorkStaysKept == CreationSpec => []WorkIsKept
<1>1. CreationInv => WorkIsKept
  BY States DEF CreationInv, KeptInv, WorkIsKept, Out
<1> QED BY <1>1, CreationInvHolds, PTL

(* The form of a request that has a task is locked, whatever becomes of the  *)
(* answers of its submissions, as long as none of them called the inputs     *)
(* invalid since the task was last given as the answer.                      *)
THEOREM FormStaysLocked == CreationSpec => []FormIsLocked
<1>1. ASSUME CreationInv PROVE FormIsLocked
  <2> SUFFICES ASSUME form.open, form.request \notin givenUp \cup rejected,
                      tasks[form.request] # "none", ~form.submitted
               PROVE  FALSE
    BY DEF FormIsLocked
  <2>1. kept.request = form.request /\ ~kept.submitted
    BY <1>1 DEF CreationInv, FormInv
  <2>2. form.request \in Requests
    <3>1. form.request \in 1..drawn /\ drawn \in 0..MaxRequests
      BY <1>1, TypeParts DEF CreationInv
    <3> QED BY <3>1 DEF Requests
  <2> QED BY <1>1, <2>1, <2>2 DEF CreationInv, KeptInv, Out
<1> QED BY <1>1, CreationInvHolds, PTL

=============================================================================
