--------------------------- MODULE DevelopmentTask ---------------------------
(* The development task of one intelligent-creation session: the hook that   *)
(* submits and stops it in the browser (useDevelopmentRun.ts) and the store  *)
(* of runs behind its endpoints (intelligent_development_runs).              *)
(*                                                                           *)
(* A submission is several requests, each of which the server may execute    *)
(* without the browser ever hearing of it; the user types, stops, retries    *)
(* and leaves the session in between.  One browser tab and one session are   *)
(* modelled: here says whether the tab shows it.  The hook's retry inputs    *)
(* are objects that calls still in flight keep, so they have identities of   *)
(* their own (inputs), and retryInput is a reference to one of them.         *)
EXTENDS Naturals, FiniteSets

CONSTANTS
  Texts,        \* messages the user may submit
  MaxInputs,    \* client ids the hook may draw
  MaxRuns,      \* runs the session may hold
  MaxTroubles,  \* stop presses, departures and lost requests, together
  NoInput       \* no retry input

ASSUME TaskBounds == /\ MaxInputs \in Nat /\ MaxRuns \in Nat
                     /\ MaxTroubles \in Nat /\ Texts # {}
                     /\ NoInput \notin 1..MaxInputs

VARIABLES
  runs,         \* the server's runs of the session, in creation order
  here,         \* currentIdentity is this session
  inputs,       \* the retry inputs drawn so far
  retryInput,   \* retryInput.current
  sending,      \* sending.current
  stopIntent,   \* stopIntent.current
  submits,      \* the submit call of each input
  halt,         \* the stop call in flight
  seen,         \* the observer's last run, and whether it saw the run end
  left,         \* history: the user left the session once
  troubles      \* stop presses, departures and lost requests so far

taskVars == <<runs, here, inputs, retryInput, sending, stopIntent, submits,
              halt, seen, left, troubles>>

InputIds == 1..MaxInputs
RunIds == 1..MaxRuns
Created == {r \in RunIds : runs[r].state # "none"}
Active == {r \in Created : runs[r].state # "ended"}
LastRun == CHOOSE r \in Created \cup {0} : \A q \in Created : q <= r

(* Replies: what the browser holds of its outstanding request.               *)
Waiting == [kind |-> "waiting"]
Failed == [kind |-> "failed"]
Reply(r) == [kind |-> "run", run |-> r,
             ended |-> r # 0 /\ runs[r].state = "ended"]

Idle == [pc |-> "idle", reply |-> Waiting, accepted |-> 0]
NewInput == [used |-> FALSE, text |-> CHOOSE t \in Texts : TRUE, run |-> 0,
             stop |-> FALSE]
NoHalt == [pc |-> "idle", reply |-> Waiting, run |-> 0, fresh |-> FALSE]

(* Queued, running and recovering are one state here: no endpoint tells them *)
(* apart.  inbox holds the client ids of the run's messages; how far each    *)
(* message was delivered is the worker's affair and left out.                *)
RunStates == {"none", "working", "waiting_user", "stopping", "ended"}
NoRun == [state |-> "none", request |-> 0, inbox |-> {}]

Replies == {Waiting, Failed} \cup
           [kind : {"run"}, run : 0..MaxRuns, ended : BOOLEAN]

(* Every variable keeps to its domain: runs are records of the store, calls  *)
(* are at one of their awaits.                                               *)
TaskTypeOK ==
  /\ runs \in [RunIds -> [state : RunStates, request : 0..MaxInputs,
                          inbox : SUBSET InputIds]]
  /\ here \in BOOLEAN /\ sending \in BOOLEAN /\ stopIntent \in BOOLEAN
  /\ inputs \in [InputIds -> [used : BOOLEAN, text : Texts,
                              run : 0..MaxRuns, stop : BOOLEAN]]
  /\ retryInput \in InputIds \cup {NoInput}
  /\ submits \in [InputIds -> [pc : {"idle", "list", "send", "stop", "done"},
                               reply : Replies, accepted : 0..MaxRuns]]
  /\ halt \in [pc : {"idle", "list", "stop"}, reply : Replies,
               run : 0..MaxRuns, fresh : BOOLEAN]
  /\ seen \in [run : 0..MaxRuns, ended : BOOLEAN]
  /\ left \in BOOLEAN /\ troubles \in 0..MaxTroubles

TaskInit ==
  /\ runs = [r \in RunIds |-> NoRun]
  /\ here = TRUE /\ sending = FALSE /\ stopIntent = FALSE
  /\ inputs = [i \in InputIds |-> NewInput]
  /\ retryInput = NoInput
  /\ submits = [i \in InputIds |-> Idle]
  /\ halt = NoHalt
  /\ seen = [run |-> 0, ended |-> FALSE]
  /\ left = FALSE /\ troubles = 0

------------------------------------------------------------------------------
(* The store: one transaction of the repository each.                        *)

(* create: the run of this request id if there is one, a conflict while      *)
(* another run of the session is active, otherwise a new run.                *)
CreateRun(i) ==
  IF \E r \in Created : runs[r].request = i
  THEN [runs |-> runs, reply |-> Reply(CHOOSE r \in Created : runs[r].request = i)]
  ELSE IF Active # {} \/ LastRun = MaxRuns
  THEN [runs |-> runs, reply |-> Failed]
  ELSE [runs |-> [runs EXCEPT ![LastRun + 1] =
                    [state |-> "working", request |-> i, inbox |-> {i}]],
        reply |-> [kind |-> "run", run |-> LastRun + 1, ended |-> FALSE]]

(* add_input: idempotent by client id; refused once the run ended or is      *)
(* asked to stop; a run waiting for the user goes on.                        *)
AddInput(r, i) ==
  IF i \in runs[r].inbox
  THEN [runs |-> runs, reply |-> Reply(r)]
  ELSE IF runs[r].state \in {"stopping", "ended"}
  THEN [runs |-> runs, reply |-> Failed]
  ELSE [runs |-> [runs EXCEPT ![r].inbox = @ \cup {i},
                              ![r].state = "working"],
        reply |-> Reply(r)]

(* Mutation: a stop that withdraws the run.                                  *)
StopRunAway(r) == [runs EXCEPT ![r].state = "withdrawn"]

(* request_stop: stop_requested and the state stopping come together, and    *)
(* update() lets the worker of such a run only end it.                       *)
StopRun(r) ==
  IF runs[r].state \in {"stopping", "ended"}
  THEN runs
  ELSE [runs EXCEPT ![r].state = "stopping"]

------------------------------------------------------------------------------
(* The hook.                                                                 *)

(* submit: refused while another call is sending or a stop is intended.      *)
(* prepare keeps the retry input, and with it the client id, when the same   *)
(* text is sent again.                                                       *)
Submit(t) ==
  /\ here /\ ~sending /\ ~stopIntent
  /\ sending' = TRUE
  /\ \/ /\ retryInput # NoInput
        /\ inputs[retryInput].text = t
        /\ submits' = [submits EXCEPT ![retryInput] = [Idle EXCEPT !.pc = "list"]]
        /\ UNCHANGED <<inputs, retryInput>>
     \/ /\ retryInput # NoInput => inputs[retryInput].text # t
        /\ \E i \in InputIds :
             /\ ~inputs[i].used /\ \A j \in 1..(i - 1) : inputs[j].used
             /\ inputs' = [inputs EXCEPT ![i] =
                  [NewInput EXCEPT !.used = TRUE, !.text = t]]
             /\ retryInput' = i
             /\ submits' = [submits EXCEPT ![i] = [Idle EXCEPT !.pc = "list"]]
  /\ UNCHANGED <<runs, here, stopIntent, halt, seen, left, troubles>>

(* The server answers the request a submission waits for.                    *)
ServeSubmit(i) ==
  LET call == submits[i]
      steered == inputs[i].run
      sent == IF steered # 0 THEN AddInput(steered, i) ELSE CreateRun(i)
  IN /\ call.pc \in {"list", "send", "stop"} /\ call.reply = Waiting
     /\ CASE call.pc = "list" ->
               /\ submits' = [submits EXCEPT ![i].reply = Reply(LastRun)]
               /\ UNCHANGED runs
          [] call.pc = "send" ->
               /\ runs' = sent.runs
               /\ submits' = [submits EXCEPT ![i].reply = sent.reply]
          [] call.pc = "stop" ->
               /\ runs' = StopRun(call.accepted)
               /\ submits' = [submits EXCEPT ![i].reply = Reply(call.accepted)]
     /\ UNCHANGED <<here, inputs, retryInput, sending, stopIntent, halt, seen,
                    left, troubles>>

(* A request or its answer is lost: the browser sees a failure either way.   *)
LoseSubmit(i) ==
  /\ submits[i].pc \in {"list", "send", "stop"} /\ submits[i].reply # Failed
  /\ troubles < MaxTroubles /\ troubles' = troubles + 1
  /\ submits' = [submits EXCEPT ![i].reply = Failed]
  /\ UNCHANGED <<runs, here, inputs, retryInput, sending, stopIntent, halt,
                 seen, left>>

(* Mutation: the run of an earlier attempt is forgotten.                     *)
TargetOfLastList(i, reply) ==
  IF reply.run # 0 /\ ~reply.ended /\ runs[reply.run].request # i
  THEN reply.run ELSE 0

(* Where a message goes: to the run it went to before, else to the last run  *)
(* of the session when that one is active and not this message's own, else   *)
(* (0) to a new run.                                                         *)
Target(i, reply) ==
  IF inputs[i].run # 0 THEN inputs[i].run
  ELSE IF reply.run # 0 /\ ~reply.ended /\ runs[reply.run].request # i
  THEN reply.run ELSE 0

(* The list came: the input keeps its target for its retries.  Away from the *)
(* session the call returns and its finally touches nothing.                 *)
SubmitListed(i) ==
  LET reply == submits[i].reply
  IN /\ submits[i].pc = "list" /\ reply.kind = "run"
     /\ IF here
        THEN /\ submits' = [submits EXCEPT ![i] = [Idle EXCEPT !.pc = "send"]]
             /\ inputs' = [inputs EXCEPT ![i].run = Target(i, reply)]
        ELSE /\ submits' = [submits EXCEPT ![i] = Idle]
             /\ UNCHANGED inputs
     /\ UNCHANGED <<runs, here, retryInput, sending, stopIntent, halt, seen,
                    left, troubles>>

(* The run accepted the message: it is stopped at once when the user asked   *)
(* for that meanwhile, otherwise the call succeeds.                          *)
Succeed(i, r) ==
  /\ submits' = [submits EXCEPT ![i] = [Idle EXCEPT !.pc = "done", !.accepted = r]]
  /\ IF here
     THEN /\ retryInput' = NoInput /\ sending' = FALSE
          /\ seen' = IF r > seen.run
                     THEN [run |-> r, ended |-> submits[i].reply.ended] ELSE seen
     ELSE UNCHANGED <<retryInput, sending, seen>>
  /\ UNCHANGED <<runs, here, inputs, stopIntent, halt, left, troubles>>

StopMeantByFlag(i) == here /\ stopIntent    \* mutation
StopMeant(i) == inputs[i].stop \/ (here /\ stopIntent)

SubmitAccepted(i) ==
  /\ submits[i].pc = "send" /\ submits[i].reply.kind = "run"
  /\ IF StopMeant(i)
     THEN /\ submits' = [submits EXCEPT ![i] =
               [Idle EXCEPT !.pc = "stop", !.accepted = submits[i].reply.run]]
          /\ UNCHANGED <<runs, here, inputs, retryInput, sending, stopIntent,
                         halt, seen, left, troubles>>
     ELSE Succeed(i, submits[i].reply.run)

SubmitStopped(i) ==
  /\ submits[i].pc = "stop" /\ submits[i].reply.kind = "run"
  /\ Succeed(i, submits[i].accepted)

(* The call fails: the retry input stays; a stop that was meant for it is    *)
(* taken back so that the user may try again.                                *)
IntentKept(i) == stopIntent    \* mutation
IntentAfterFailure(i) == stopIntent /\ ~inputs[i].stop

SubmitFailed(i) ==
  /\ submits[i].reply = Failed
  /\ submits' = [submits EXCEPT ![i] = Idle]
  /\ IF here
     THEN /\ sending' = FALSE
          /\ stopIntent' = IntentAfterFailure(i)
     ELSE UNCHANGED <<sending, stopIntent>>
  /\ UNCHANGED <<runs, here, inputs, retryInput, halt, seen, left, troubles>>

------------------------------------------------------------------------------
(* stop: the intent is recorded before anything is awaited.                  *)
PressStop ==
  /\ here /\ ~stopIntent /\ halt.pc = "idle" /\ troubles < MaxTroubles
  /\ sending \/ seen.run # 0
  /\ stopIntent' = TRUE /\ troubles' = troubles + 1
  /\ inputs' = IF retryInput # NoInput
               THEN [inputs EXCEPT ![retryInput].stop = TRUE] ELSE inputs
  /\ halt' = [NoHalt EXCEPT !.pc = "list", !.fresh = TRUE]
  /\ UNCHANGED <<runs, here, retryInput, sending, submits, seen, left>>

ServeHalt ==
  /\ halt.pc # "idle" /\ halt.reply = Waiting
  /\ IF halt.pc = "list"
     THEN /\ halt' = [halt EXCEPT !.reply =
                        Reply(IF Active = {} THEN 0
                              ELSE CHOOSE r \in Active : \A q \in Active : r <= q)]
          /\ UNCHANGED runs
     ELSE /\ halt' = [halt EXCEPT !.reply = Reply(halt.run)]
          /\ runs' = StopRun(halt.run)
  /\ UNCHANGED <<here, inputs, retryInput, sending, stopIntent, submits, seen,
                 left, troubles>>

LoseHalt ==
  /\ halt.pc # "idle" /\ halt.reply # Failed
  /\ troubles < MaxTroubles /\ troubles' = troubles + 1
  /\ halt' = [halt EXCEPT !.reply = Failed]
  /\ UNCHANGED <<runs, here, inputs, retryInput, sending, stopIntent, submits,
                 seen, left>>

(* An active run is stopped; without one the intent stays only for the       *)
(* submission that is still sending, and a failure takes it back.            *)
HaltAnswered ==
  /\ halt.pc # "idle" /\ halt.reply # Waiting
  /\ \/ /\ halt.pc = "list" /\ halt.reply.kind = "run" /\ halt.reply.run # 0
        /\ halt' = [halt EXCEPT !.pc = "stop", !.reply = Waiting,
                                !.run = halt.reply.run]
        /\ UNCHANGED stopIntent
     \/ /\ halt.pc = "stop" /\ halt.reply.kind = "run"
        /\ halt' = NoHalt
        /\ UNCHANGED stopIntent
     \/ /\ \/ /\ halt.pc = "list" /\ halt.reply.kind = "run"
              /\ halt.reply.run = 0 /\ ~sending
           \/ halt.reply = Failed
        /\ halt' = NoHalt
        /\ stopIntent' = (stopIntent /\ ~halt.fresh)
     \/ /\ halt.pc = "list" /\ halt.reply.kind = "run"
        /\ halt.reply.run = 0 /\ sending
        /\ halt' = NoHalt
        /\ UNCHANGED stopIntent
  /\ UNCHANGED <<runs, here, inputs, retryInput, sending, submits, seen,
                 left, troubles>>

------------------------------------------------------------------------------
(* The effect on the session's identity.  Leaving drops the retry input and  *)
(* the flags; calls in flight keep running.                                  *)
Leave ==
  /\ here /\ troubles < MaxTroubles
  /\ troubles' = troubles + 1 /\ left' = TRUE
  /\ here' = FALSE /\ stopIntent' = FALSE /\ sending' = FALSE
  /\ retryInput' = NoInput
  /\ seen' = [run |-> 0, ended |-> FALSE]
  /\ halt' = [halt EXCEPT !.fresh = FALSE]
  /\ UNCHANGED <<runs, inputs, submits>>

Return ==
  /\ ~here
  /\ here' = TRUE
  /\ seen' = [run |-> 0, ended |-> FALSE]
  /\ halt' = [halt EXCEPT !.fresh = FALSE]
  /\ UNCHANGED <<runs, inputs, retryInput, sending, stopIntent, submits,
                 left, troubles>>

(* The observer's report: fresh from the server, or the one it holds again.  *)
(* A last run that ended clears the intent to stop.                          *)
Report(view) ==
  /\ here
  /\ seen' = view
  /\ stopIntent' = (stopIntent /\ ~view.ended)
  /\ UNCHANGED <<runs, here, inputs, retryInput, sending, submits, halt,
                 left, troubles>>

Observe == Report([run |-> LastRun,
                   ended |-> LastRun # 0 /\ runs[LastRun].state = "ended"])

ReportAgain == Report(seen)

(* resume: only a run that waits for the user.                               *)
Resume ==
  \E r \in Created :
    /\ here /\ seen.run = r /\ runs[r].state = "waiting_user"
    /\ runs' = [runs EXCEPT ![r].state = "working"]
    /\ UNCHANGED <<here, inputs, retryInput, sending, stopIntent, submits, halt,
                   seen, left, troubles>>

------------------------------------------------------------------------------
(* The worker of a run, and the scheduler that stops one that is too old.    *)
AwaitUser(r) ==
  /\ runs[r].state = "working"
  /\ runs' = [runs EXCEPT ![r].state = "waiting_user"]

EndRun(r) ==
  /\ runs[r].state \in {"working", "stopping"}
  /\ runs' = [runs EXCEPT ![r].state = "ended"]

(* max_active_seconds are over. *)
ExpireRun(r) ==
  runs[r].state \in {"working", "waiting_user"} /\ runs' = StopRun(r)

Work(r) ==
  /\ \/ AwaitUser(r)
     \/ EndRun(r)
     \/ ExpireRun(r)
  /\ UNCHANGED <<here, inputs, retryInput, sending, stopIntent, submits, halt,
                 seen, left, troubles>>

AnswerSubmit(i) ==
  ServeSubmit(i) \/ SubmitListed(i) \/ SubmitAccepted(i) \/ SubmitStopped(i)
  \/ SubmitFailed(i)

AnswerHalt == ServeHalt \/ HaltAnswered

TaskNext ==
  \/ \E t \in Texts : Submit(t)
  \/ \E i \in InputIds : AnswerSubmit(i) \/ LoseSubmit(i)
  \/ PressStop \/ AnswerHalt \/ LoseHalt
  \/ Leave \/ Return
  \/ Observe \/ ReportAgain \/ Resume
  \/ \E r \in RunIds : Work(r)

(* Requests are answered or time out, the observer polls while the session   *)
(* is shown, and the worker of a run asked to stop ends it.                  *)
EndStopping(r) == runs[r].state = "stopping" /\ Work(r)

TaskFairness ==
  /\ \A i \in InputIds : WF_taskVars(AnswerSubmit(i))
  /\ WF_taskVars(AnswerHalt)
  /\ WF_taskVars(Observe)
  /\ \A r \in RunIds : WF_taskVars(EndStopping(r))

TaskSpec == TaskInit /\ [][TaskNext]_taskVars /\ TaskFairness

------------------------------------------------------------------------------
(* A message is recorded once: a client id that a run took as a steered      *)
(* input is never also the request of another run, although a submission     *)
(* whose answer was lost is sent again (useDevelopmentRun.ts:149-161).  A    *)
(* call that survives a departure runs beside the calls made after the       *)
(* return, and then one message may reach two runs.                          *)
RecordedOnce ==
  ~left => \A i \in InputIds :
    Cardinality({r \in Created : i \in runs[r].inbox}) <= 1

(* A stop pressed during a submission reaches it: when the call succeeds,    *)
(* the run that took the message is being stopped or over, whatever the      *)
(* observer reported in between (useDevelopmentRun.ts:163).                  *)
StopReachesSubmission ==
  \A i \in InputIds :
    submits[i].pc = "done" /\ inputs[i].stop =>
      runs[submits[i].accepted].state \in {"stopping", "ended"}

(* The intent to stop does not stay for ever: it blocks every submission     *)
(* (useDevelopmentRun.ts:119), so some answer, failure or report ends it.    *)
StopSettles == []<>~stopIntent

=============================================================================
