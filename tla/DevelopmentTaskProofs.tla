------------------------ MODULE DevelopmentTaskProofs ------------------------
(* A stop reaches the submission it was pressed for (DevelopmentTask), for   *)
(* any number of messages, runs, stops, departures and lost requests.        *)
EXTENDS DevelopmentTask, TLAPS, WellFoundedInduction,
        FiniteSetTheorems

USE TaskBounds

Halted(r) == runs[r].state \in {"stopping", "ended"}

Calls == [pc : {"idle", "list", "send", "stop", "done"},
          reply : Replies, accepted : 0..MaxRuns]

(* One submission: a run that answered it exists, a stop that was answered   *)
(* halted its run, and a finished one is no retry input, so that nobody can  *)
(* mean a stop for it any more.                                              *)
SubmitInv(i) ==
  LET call == submits[i] IN
  /\ call.pc \in {"send", "stop"} /\ call.reply.kind = "run" =>
       call.reply.run \in RunIds
  /\ call.pc \in {"stop", "done"} => call.accepted \in RunIds
  /\ call.pc = "stop" /\ call.reply.kind = "run" => Halted(call.accepted)
  /\ call.pc = "done" /\ inputs[i].stop => Halted(call.accepted)
  /\ call.pc = "done" => retryInput # i

TaskInv ==
  /\ TaskTypeOK
  /\ ~here => retryInput = NoInput
  /\ halt.pc = "stop" => halt.run \in RunIds
  /\ \A i \in InputIds : SubmitInv(i)

------------------------------------------------------------------------------
(* The store.                                                                *)

Run == [state : RunStates, request : 0..MaxInputs, inbox : SUBSET InputIds]

LEMMA WaitingFailed ==
  /\ Waiting \in Replies /\ Failed \in Replies
  /\ Waiting.kind # "run" /\ Failed.kind # "run" /\ Waiting # Failed
BY DEF Waiting, Failed, Replies

LEMMA ReplyType ==
  ASSUME NEW r \in 0..MaxRuns
  PROVE  Reply(r) \in Replies /\ Reply(r).kind = "run" /\ Reply(r).run = r
<1>1. (r # 0 /\ runs[r].state = "ended") \in BOOLEAN
  OBVIOUS
<1> QED BY <1>1 DEF Reply, Replies

LEMMA RunReply ==
  ASSUME NEW x \in Replies, x.kind = "run"
  PROVE  x \in [kind : {"run"}, run : 0..MaxRuns, ended : BOOLEAN]
BY DEF Replies, Waiting, Failed

LEMMA LeastElement ==
  ASSUME NEW S \in SUBSET Nat, S # {}
  PROVE  \E m \in S : \A k \in S : m <= k
<1>1. PICK R : IsWellFoundedOn(R, Nat)
               /\ \A x, y \in Nat : <<y, x>> \in R <=> y < x
  <2>1. \A x, y \in Nat : <<y, x>> \in OpToRel(<, Nat) <=> y < x
    BY DEF OpToRel
  <2> QED BY <2>1, NatLessThanWellFounded
<1>2. PICK n \in S : \A k \in S : ~(<<k, n>> \in R)
  BY <1>1, WFMin
<1>3. ASSUME NEW k \in S PROVE n <= k
  <2>1. n \in Nat /\ k \in Nat
    OBVIOUS
  <2>2. ~(k < n)
    BY <1>1, <1>2, <2>1, Zenon
  <2> QED BY <2>1, <2>2
<1> QED BY <1>3

(* The session's last run.                                                   *)
LEMMA LastRunType ==
  /\ LastRun \in 0..MaxRuns /\ LastRun \in Created \cup {0}
  /\ \A q \in Created : q <= LastRun
<1> DEFINE S == Created \cup {0}
           Above == {n \in 0..MaxRuns : \A q \in S : q <= n}
<1>1. S \subseteq 0..MaxRuns
  BY DEF Created, RunIds
<1>2. MaxRuns \in Above
  BY <1>1
<1>3. PICK n \in Above : \A m \in Above : n <= m
  <2>1. Above \in SUBSET Nat /\ Above # {}
    BY <1>2
  <2> HIDE DEF Above
  <2> QED BY <2>1, LeastElement
<1>5. n \in S
  <2> SUFFICES ASSUME n \notin S PROVE FALSE
    OBVIOUS
  <2>1. n # 0 /\ n \in Nat /\ n - 1 \in 0..MaxRuns /\ ~(n <= n - 1)
    OBVIOUS
  <2>2. \A q \in S : q <= n /\ q # n /\ q \in Nat
    BY <1>1
  <2>3. \A q \in S : q <= n - 1
    BY <2>1, <2>2
  <2>4. n - 1 \in Above
    BY <2>1, <2>3
  <2> QED BY <2>1, <2>4, <1>3
<1>6. \E r \in Created \cup {0} : \A q \in Created : q <= r
  BY <1>5
<1>7. LastRun \in Created \cup {0} /\ \A q \in Created : q <= LastRun
  BY <1>6 DEF LastRun
<1> QED BY <1>1, <1>7

(* A call to the store leaves the runs well typed, and those that are        *)
(* stopping or over stay so.                                                 *)
Stays(next) ==
  /\ next \in [RunIds -> Run]
  /\ \A r \in RunIds : Halted(r) => next[r].state \in {"stopping", "ended"}

LEMMA CreateRunStays ==
  ASSUME TaskTypeOK, NEW i \in InputIds
  PROVE  /\ Stays(CreateRun(i).runs)
         /\ CreateRun(i).reply \in Replies
         /\ CreateRun(i).reply.kind = "run" => CreateRun(i).reply.run \in RunIds
<1>0. runs \in [RunIds -> Run]
  BY DEF TaskTypeOK, Run
<1>1. CASE \E r \in Created : runs[r].request = i
  <2> DEFINE r == CHOOSE r \in Created : runs[r].request = i
  <2>1. r \in RunIds
    BY <1>1 DEF Created
  <2>2. CreateRun(i) = [runs |-> runs, reply |-> Reply(r)]
    BY <1>1 DEF CreateRun
  <2> HIDE DEF r
  <2>3. Reply(r) \in Replies /\ Reply(r).run = r
    BY <2>1, ReplyType DEF RunIds
  <2> QED BY <1>0, <2>1, <2>2, <2>3 DEF Stays, Halted
<1>2. CASE /\ ~\E r \in Created : runs[r].request = i
           /\ Active # {} \/ LastRun = MaxRuns
  <2>1. CreateRun(i) = [runs |-> runs, reply |-> Failed]
    BY <1>2 DEF CreateRun
  <2> QED BY <1>0, <2>1, WaitingFailed DEF Stays, Halted
<1>3. CASE /\ ~\E r \in Created : runs[r].request = i
           /\ ~(Active # {} \/ LastRun = MaxRuns)
  <2> DEFINE l == LastRun + 1
             new == [state |-> "working", request |-> i, inbox |-> {i}]
             ran == [kind |-> "run", run |-> l, ended |-> FALSE]
  <2>1. CreateRun(i) = [runs |-> [runs EXCEPT ![l] = new], reply |-> ran]
    BY <1>3 DEF CreateRun
  <2>2. l \in RunIds
    BY <1>3, LastRunType DEF RunIds
  <2>3. l \notin Created
    BY LastRunType
  <2>4. ~Halted(l)
    BY <2>2, <2>3 DEF Created, Halted
  <2>5. new \in Run
    BY DEF Run, RunStates, InputIds
  <2>6. ran \in Replies /\ ran.run = l
    BY <2>2 DEF Replies, RunIds
  <2> HIDE DEF l, new, ran
  <2> QED BY <1>0, <2>1, <2>2, <2>4, <2>5, <2>6 DEF Stays, Halted
<1> QED BY <1>1, <1>2, <1>3

LEMMA AddInputStays ==
  ASSUME TaskTypeOK, NEW i \in InputIds, NEW r \in RunIds
  PROVE  /\ Stays(AddInput(r, i).runs)
         /\ AddInput(r, i).reply \in Replies
         /\ AddInput(r, i).reply.kind = "run" => AddInput(r, i).reply.run = r
<1> DEFINE added == [runs EXCEPT ![r].inbox = @ \cup {i}, ![r].state = "working"]
<1>0. runs \in [RunIds -> Run]
  BY DEF TaskTypeOK, Run
<1>1. Reply(r) \in Replies /\ Reply(r).run = r
  BY ReplyType DEF RunIds
<1>2. added \in [RunIds -> Run]
  BY <1>0 DEF Run, RunStates
<1>3. \A q \in RunIds \ {r} : added[q] = runs[q]
  BY <1>0
<1>4. CASE i \in runs[r].inbox
  BY <1>0, <1>1, <1>4 DEF AddInput, Stays, Halted
<1>5. CASE i \notin runs[r].inbox /\ Halted(r)
  BY <1>0, <1>5, WaitingFailed DEF AddInput, Stays, Halted
<1>6. CASE i \notin runs[r].inbox /\ ~Halted(r)
  <2>1. AddInput(r, i) = [runs |-> added, reply |-> Reply(r)]
    BY <1>6 DEF AddInput, Halted
  <2> HIDE DEF added
  <2> QED BY <1>1, <1>2, <1>3, <1>6, <2>1 DEF Stays, Halted
<1> QED BY <1>4, <1>5, <1>6

LEMMA StopRunStays ==
  ASSUME TaskTypeOK, NEW r \in RunIds
  PROVE  Stays(StopRun(r)) /\ StopRun(r)[r].state \in {"stopping", "ended"}
<1> DEFINE stopped == [runs EXCEPT ![r].state = "stopping"]
<1>0. runs \in [RunIds -> Run]
  BY DEF TaskTypeOK, Run
<1>1. stopped \in [RunIds -> Run] /\ stopped[r].state = "stopping"
  BY <1>0 DEF Run, RunStates
<1>2. \A q \in RunIds \ {r} : stopped[q] = runs[q]
  BY <1>0
<1>3. CASE Halted(r)
  BY <1>0, <1>3 DEF StopRun, Stays, Halted
<1>4. CASE ~Halted(r)
  <2>1. StopRun(r) = stopped
    BY <1>4 DEF StopRun, Halted
  <2> HIDE DEF stopped
  <2> QED BY <1>1, <1>2, <1>4, <2>1 DEF Stays, Halted
<1> QED BY <1>3, <1>4

------------------------------------------------------------------------------
(* The steps.  A submission that does not move keeps its part: the runs that *)
(* halted stay so, and nobody means another stop for it.                     *)
LEMMA OthersKeep ==
  ASSUME TaskInv, NEW j \in InputIds, submits'[j] = submits[j],
         inputs'[j].stop => inputs[j].stop,
         \A r \in RunIds : Halted(r) => Halted(r)',
         retryInput' \in {retryInput, NoInput}
  PROVE  SubmitInv(j)'
BY DEF TaskInv, SubmitInv, InputIds

LEMMA SubmissionType ==
  ASSUME TaskTypeOK
  PROVE  /\ submits \in [InputIds -> Calls]
         /\ runs \in [RunIds -> Run]
         /\ \A i \in InputIds : inputs[i].run \in 0..MaxRuns
                               /\ inputs[i].stop \in BOOLEAN
         /\ \A x \in Calls : x.reply \in Replies /\ x.accepted \in 0..MaxRuns
BY DEF TaskTypeOK, Calls, Run

LEMMA IdleCall ==
  ASSUME NEW pc \in {"idle", "list", "send", "stop", "done"}, NEW r \in 0..MaxRuns
  PROVE  LET c == [Idle EXCEPT !.pc = pc, !.accepted = r]
             d == [Idle EXCEPT !.pc = pc]
         IN /\ c \in Calls /\ c.pc = pc /\ c.reply = Waiting /\ c.accepted = r
            /\ d \in Calls /\ d.pc = pc /\ d.reply = Waiting
<1>1. Idle \in Calls /\ Idle.reply = Waiting
  BY WaitingFailed DEF Idle, Calls
<1>2. ASSUME NEW c \in Calls, c.reply = Waiting
      PROVE  /\ [c EXCEPT !.pc = pc] \in Calls
             /\ [c EXCEPT !.pc = pc].pc = pc
             /\ [c EXCEPT !.pc = pc].reply = Waiting
             /\ [c EXCEPT !.accepted = r] \in Calls
             /\ [c EXCEPT !.accepted = r].pc = c.pc
             /\ [c EXCEPT !.accepted = r].reply = Waiting
             /\ [c EXCEPT !.accepted = r].accepted = r
  BY <1>2 DEF Calls
<1>3. [Idle EXCEPT !.pc = pc, !.accepted = r]
        = [[Idle EXCEPT !.pc = pc] EXCEPT !.accepted = r]
  OBVIOUS
<1> QED BY <1>1, <1>2, <1>3

Input == [used : BOOLEAN, text : Texts, run : 0..MaxRuns, stop : BOOLEAN]

LEMMA NewInputType ==
  /\ NewInput \in Input
  /\ \A t \in Texts : /\ [NewInput EXCEPT !.used = TRUE, !.text = t] \in Input
                      /\ [NewInput EXCEPT !.used = TRUE, !.text = t].stop = FALSE
<1>1. (CHOOSE t \in Texts : TRUE) \in Texts
  OBVIOUS
<1>2. NewInput \in Input
  BY <1>1 DEF NewInput, Input
<1>3. ASSUME NEW t \in Texts, NEW n \in Input, n.stop = FALSE
      PROVE  /\ [n EXCEPT !.used = TRUE, !.text = t] \in Input
             /\ [n EXCEPT !.used = TRUE, !.text = t].stop = FALSE
  BY <1>3 DEF Input
<1>4. NewInput.stop = FALSE
  BY DEF NewInput
<1> QED BY <1>2, <1>3, <1>4

Halt == [pc : {"idle", "list", "stop"}, reply : Replies, run : 0..MaxRuns,
         fresh : BOOLEAN]

LEMMA NoHaltType == NoHalt \in Halt /\ NoHalt.pc = "idle"
BY WaitingFailed DEF NoHalt, Halt

LEMMA InitInv == TaskInit => TaskInv
<1> SUFFICES ASSUME TaskInit PROVE TaskInv
  OBVIOUS
<1>1. NoRun \in Run
  BY DEF NoRun, Run, RunStates
<1>2. Idle \in Calls
  BY WaitingFailed DEF Idle, Calls
<1>3. /\ runs \in [RunIds -> Run] /\ submits \in [InputIds -> Calls]
      /\ inputs \in [InputIds -> Input] /\ halt \in Halt
  BY <1>1, <1>2, NewInputType, NoHaltType DEF TaskInit
<1>4. TaskTypeOK
  <2>1. /\ here \in BOOLEAN /\ sending \in BOOLEAN /\ stopIntent \in BOOLEAN
        /\ left \in BOOLEAN /\ retryInput \in InputIds \cup {NoInput}
    BY Zenon DEF TaskInit
  <2>2. troubles \in 0..MaxTroubles
    BY DEF TaskInit
  <2>3. seen \in [run : 0..MaxRuns, ended : BOOLEAN]
    BY DEF TaskInit
  <2> QED BY <1>3, <2>1, <2>2, <2>3 DEF TaskTypeOK, Run, Calls, Input, Halt
<1>5. \A i \in InputIds : submits[i].pc = "idle"
  BY DEF TaskInit, Idle
<1> QED BY <1>4, <1>5, NoHaltType DEF TaskInv, TaskInit, SubmitInv

LEMMA SubmitKeeps ==
  ASSUME TaskInv, NEW t \in Texts, Submit(t)
  PROVE  TaskInv'
<1> DEFINE fresh == [Idle EXCEPT !.pc = "list"]
<1>1. PICK i \in InputIds :
        /\ submits' = [submits EXCEPT ![i] = fresh]
        /\ retryInput' = i
        /\ \/ UNCHANGED inputs
           \/ inputs' = [inputs EXCEPT ![i] = [NewInput EXCEPT !.used = TRUE, !.text = t]]
  <2>1. CASE /\ retryInput # NoInput
             /\ submits' = [submits EXCEPT ![retryInput] = fresh]
             /\ UNCHANGED <<inputs, retryInput>>
    BY <2>1 DEF TaskInv, TaskTypeOK
  <2>2. CASE \E i \in InputIds :
             /\ inputs' = [inputs EXCEPT ![i] =
                  [NewInput EXCEPT !.used = TRUE, !.text = t]]
             /\ retryInput' = i
             /\ submits' = [submits EXCEPT ![i] = fresh]
    BY <2>2
  <2> QED BY <2>1, <2>2 DEF Submit
<1>2. fresh \in Calls /\ fresh.pc = "list"
  <2>1. 0 \in 0..MaxRuns
    OBVIOUS
  <2> QED BY <2>1, IdleCall
<1>3. [NewInput EXCEPT !.used = TRUE, !.text = t] \in Input
  BY NewInputType
<1> HIDE DEF fresh
<1>4. here /\ UNCHANGED <<runs, here, stopIntent, halt, seen, left, troubles>>
      /\ sending' = TRUE
  BY DEF Submit
<1>5. TaskTypeOK'
  <2>1. submits' \in [InputIds -> Calls]
    BY <1>1, <1>2, SubmissionType DEF TaskInv
  <2>2. inputs' \in [InputIds -> Input]
    <3> DEFINE new == [NewInput EXCEPT !.used = TRUE, !.text = t]
    <3>1. inputs \in [InputIds -> Input] /\ new \in Input
      BY <1>3 DEF TaskInv, TaskTypeOK, Input
    <3> HIDE DEF new
    <3>2. inputs' = inputs \/ inputs' = [inputs EXCEPT ![i] = new]
      BY <1>1 DEF new
    <3> QED BY <3>1, <3>2
  <2> QED BY <1>1, <1>4, <2>1, <2>2 DEF TaskInv, TaskTypeOK, Calls, Input
<1>6. SubmitInv(i)'
  BY <1>1, <1>2 DEF SubmitInv, TaskInv, TaskTypeOK
<1>7. ASSUME NEW j \in InputIds \ {i} PROVE SubmitInv(j)'
  <2>1. submits'[j] = submits[j] /\ inputs'[j] = inputs[j] /\ retryInput' # j
    BY <1>1 DEF TaskInv, TaskTypeOK
  <2> QED BY <1>4, <2>1 DEF SubmitInv, TaskInv, Halted
<1> QED BY <1>4, <1>5, <1>6, <1>7 DEF TaskInv

(* What a call asks for, and what it makes of the answer.                    *)
LEMMA ServeSubmitKeeps ==
  ASSUME TaskInv, NEW i \in InputIds, ServeSubmit(i)
  PROVE  TaskInv'
<1> DEFINE call == submits[i]
           steered == inputs[i].run
           sent == IF steered # 0 THEN AddInput(steered, i) ELSE CreateRun(i)
<1>0. TaskTypeOK /\ SubmitInv(i)
  BY DEF TaskInv
<1>1. call.pc \in {"list", "send", "stop"} /\ call \in Calls
      /\ UNCHANGED <<here, inputs, retryInput, sending, stopIntent, halt, seen,
                     left, troubles>>
  BY <1>0, SubmissionType DEF ServeSubmit
<1>2. PICK x \in Replies :
        /\ submits' = [submits EXCEPT ![i].reply = x]
        /\ Stays(runs')
        /\ call.pc \in {"send", "stop"} /\ x.kind = "run" => x.run \in RunIds
        /\ call.pc = "stop" => runs'[call.accepted].state \in {"stopping", "ended"}
  <2>1. CASE call.pc = "list"
    <3>1. submits' = [submits EXCEPT ![i].reply = Reply(LastRun)] /\ runs' = runs
      BY <2>1 DEF ServeSubmit
    <3> QED BY <1>0, <2>1, <3>1, LastRunType, ReplyType, SubmissionType DEF Stays, Halted
  <2>2. CASE call.pc = "send"
    <3>1. submits' = [submits EXCEPT ![i].reply = sent.reply] /\ runs' = sent.runs
      BY <2>2 DEF ServeSubmit
    <3>2. /\ Stays(sent.runs) /\ sent.reply \in Replies
          /\ sent.reply.kind = "run" => sent.reply.run \in RunIds
      <4>1. CASE steered # 0
        <5>1. steered \in RunIds
          BY <1>0, <4>1, SubmissionType DEF RunIds
        <5> QED BY <1>0, <4>1, <5>1, AddInputStays
      <4>2. CASE steered = 0
        BY <1>0, <4>2, CreateRunStays
      <4> QED BY <4>1, <4>2
    <3> HIDE DEF sent
    <3> QED BY <2>2, <3>1, <3>2
  <2>3. CASE call.pc = "stop"
    <3>1. /\ submits' = [submits EXCEPT ![i].reply = Reply(call.accepted)]
          /\ runs' = StopRun(call.accepted)
      BY <2>3 DEF ServeSubmit
    <3>2. call.accepted \in RunIds
      BY <1>0, <2>3 DEF SubmitInv
    <3>3. Reply(call.accepted) \in Replies /\ Reply(call.accepted).run = call.accepted
      BY <3>2, ReplyType DEF RunIds
    <3> QED BY <1>0, <2>3, <3>1, <3>2, <3>3, StopRunStays
  <2> QED BY <1>1, <2>1, <2>2, <2>3
<1>3. submits'[i] = [call EXCEPT !.reply = x] /\ submits' \in [InputIds -> Calls]
      /\ \A j \in InputIds \ {i} : submits'[j] = submits[j]
  BY <1>0, <1>1, <1>2, SubmissionType DEF Calls
<1>4. submits'[i].pc = call.pc /\ submits'[i].accepted = call.accepted
      /\ submits'[i].reply = x
  BY <1>1, <1>3 DEF Calls
<1>5. \A r \in RunIds : Halted(r) => Halted(r)'
  BY <1>2 DEF Stays, Halted
<1>6. TaskTypeOK'
  BY <1>0, <1>1, <1>2, <1>3 DEF TaskTypeOK, Calls, Stays, Run
<1>7. SubmitInv(i)'
  BY <1>0, <1>1, <1>2, <1>4 DEF SubmitInv, Halted
<1>8. \A j \in InputIds \ {i} : SubmitInv(j)'
  BY <1>1, <1>3, <1>5, OthersKeep
<1> QED BY <1>1, <1>6, <1>7, <1>8 DEF TaskInv

(* A submission goes on to call c and nothing else of the server changes.    *)
LEMMA CallStepKeeps ==
  ASSUME TaskInv, NEW i \in InputIds, NEW c \in Calls,
         submits' = [submits EXCEPT ![i] = c],
         UNCHANGED runs,
         \A j \in InputIds : inputs'[j].stop = inputs[j].stop,
         retryInput' \in {retryInput, NoInput}
  PROVE  /\ submits' \in [InputIds -> Calls] /\ submits'[i] = c
         /\ \A j \in InputIds \ {i} : SubmitInv(j)'
<1>1. submits' \in [InputIds -> Calls] /\ submits'[i] = c
      /\ \A j \in InputIds \ {i} : submits'[j] = submits[j]
  BY SubmissionType DEF TaskInv
<1> QED BY <1>1, OthersKeep DEF Halted

LEMMA LoseSubmitKeeps ==
  ASSUME TaskInv, NEW i \in InputIds, LoseSubmit(i)
  PROVE  TaskInv'
<1> DEFINE c == [submits[i] EXCEPT !.reply = Failed]
<1>1. submits[i] \in Calls /\ TaskTypeOK
  BY SubmissionType DEF TaskInv
<1>2. c \in Calls /\ c.reply = Failed /\ c.pc = submits[i].pc
      /\ c.accepted = submits[i].accepted
  BY <1>1, WaitingFailed DEF Calls
<1>3. /\ submits' = [submits EXCEPT ![i] = c]
      /\ UNCHANGED <<runs, here, inputs, retryInput, sending, stopIntent, halt,
                     seen, left>>
      /\ troubles < MaxTroubles /\ troubles' = troubles + 1
  BY DEF LoseSubmit
<1> HIDE DEF c
<1>4. submits' \in [InputIds -> Calls] /\ submits'[i] = c
      /\ \A j \in InputIds \ {i} : SubmitInv(j)'
  BY <1>2, <1>3, CallStepKeeps
<1>5. TaskTypeOK'
  BY <1>1, <1>3, <1>4 DEF TaskTypeOK, Calls
<1>6. SubmitInv(i)'
  BY <1>2, <1>3, <1>4, WaitingFailed DEF TaskInv, SubmitInv, Halted
<1> QED BY <1>3, <1>4, <1>5, <1>6 DEF TaskInv

LEMMA SubmitListedKeeps ==
  ASSUME TaskInv, NEW i \in InputIds, SubmitListed(i)
  PROVE  TaskInv'
<1> DEFINE t == Target(i, submits[i].reply)
<1>1. submits[i] \in Calls /\ TaskTypeOK /\ submits[i].reply \in Replies
      /\ submits[i].reply.kind = "run"
  BY SubmissionType DEF TaskInv, SubmitListed
<1>2. t \in 0..MaxRuns
  BY <1>1, RunReply, SubmissionType DEF Target
<1>3. PICK c \in Calls :
        /\ c.pc \in {"send", "idle"} /\ c.reply = Waiting
        /\ submits' = [submits EXCEPT ![i] = c]
        /\ UNCHANGED inputs \/ inputs' = [inputs EXCEPT ![i].run = t]
        /\ UNCHANGED <<runs, here, retryInput, sending, stopIntent, halt, seen,
                       left, troubles>>
  <2>1. 0 \in 0..MaxRuns /\ Idle \in Calls /\ Idle.pc = "idle" /\ Idle.reply = Waiting
    BY WaitingFailed DEF Idle, Calls
  <2>2. CASE here
    BY <2>1, <2>2, IdleCall DEF SubmitListed
  <2>3. CASE ~here
    BY <2>1, <2>3 DEF SubmitListed
  <2> QED BY <2>2, <2>3
<1> HIDE DEF t
<1>4. inputs' \in [InputIds -> Input]
      /\ \A j \in InputIds : inputs'[j].stop = inputs[j].stop
  <2>1. inputs \in [InputIds -> Input]
    BY <1>1 DEF TaskTypeOK, Input
  <2> QED BY <1>2, <1>3, <2>1 DEF Input
<1>5. submits' \in [InputIds -> Calls] /\ submits'[i] = c
      /\ \A j \in InputIds \ {i} : SubmitInv(j)'
  BY <1>3, <1>4, CallStepKeeps
<1>6. TaskTypeOK'
  BY <1>1, <1>3, <1>4, <1>5 DEF TaskTypeOK, Calls, Input
<1>7. SubmitInv(i)'
  BY <1>3, <1>5, WaitingFailed DEF SubmitInv
<1> QED BY <1>3, <1>5, <1>6, <1>7 DEF TaskInv

(* A submission that succeeds: a stop that was meant for it reached the run, *)
(* and it is no retry input from now on.                                     *)
LEMMA SucceedKeeps ==
  ASSUME TaskInv, NEW i \in InputIds, NEW r \in RunIds, Succeed(i, r),
         submits[i].reply.kind = "run",
         inputs[i].stop => Halted(r)
  PROVE  TaskInv'
<1> DEFINE c == [Idle EXCEPT !.pc = "done", !.accepted = r]
<1>1. submits[i] \in Calls /\ TaskTypeOK /\ submits[i].reply \in Replies
  BY SubmissionType DEF TaskInv
<1>2. c \in Calls /\ c.pc = "done" /\ c.accepted = r /\ c.reply = Waiting
  <2>1. r \in 0..MaxRuns
    BY DEF RunIds
  <2> QED BY <2>1, IdleCall
<1>3. /\ submits' = [submits EXCEPT ![i] = c]
      /\ UNCHANGED <<runs, here, inputs, stopIntent, halt, left, troubles>>
      /\ retryInput' = NoInput
  BY DEF Succeed, TaskInv
<1>4. sending' \in BOOLEAN /\ seen' \in [run : 0..MaxRuns, ended : BOOLEAN]
  <2>1. submits[i].reply.ended \in BOOLEAN
    BY <1>1, RunReply
  <2>2. CASE here
    <3>1. sending' = FALSE
      BY <2>2 DEF Succeed
    <3>2. seen' = seen \/ seen' = [run |-> r, ended |-> submits[i].reply.ended]
      BY <2>2 DEF Succeed
    <3>3. [run |-> r, ended |-> submits[i].reply.ended] \in
            [run : 0..MaxRuns, ended : BOOLEAN]
      BY <2>1 DEF RunIds
    <3>4. seen \in [run : 0..MaxRuns, ended : BOOLEAN]
      BY <1>1 DEF TaskTypeOK
    <3> QED BY <3>1, <3>2, <3>3, <3>4
  <2>3. CASE ~here
    BY <1>1, <2>3 DEF Succeed, TaskTypeOK
  <2> QED BY <2>2, <2>3
<1> HIDE DEF c
<1>5. submits' \in [InputIds -> Calls] /\ submits'[i] = c
      /\ \A j \in InputIds \ {i} : SubmitInv(j)'
  BY <1>2, <1>3, CallStepKeeps
<1>6. TaskTypeOK'
  BY <1>1, <1>3, <1>4, <1>5 DEF TaskTypeOK, Calls
<1>7. SubmitInv(i)'
  BY <1>2, <1>3, <1>5, WaitingFailed DEF SubmitInv, Halted, InputIds
<1> QED BY <1>3, <1>5, <1>6, <1>7 DEF TaskInv

LEMMA SubmitAcceptedKeeps ==
  ASSUME TaskInv, NEW i \in InputIds, SubmitAccepted(i)
  PROVE  TaskInv'
<1> DEFINE r == submits[i].reply.run
           c == [Idle EXCEPT !.pc = "stop", !.accepted = r]
<1>1. submits[i].pc = "send" /\ submits[i].reply.kind = "run" /\ r \in RunIds
  BY DEF TaskInv, SubmitInv, SubmitAccepted
<1>2. CASE StopMeant(i)
  <2>1. c \in Calls /\ c.pc = "stop" /\ c.accepted = r /\ c.reply = Waiting
    <3>1. r \in 0..MaxRuns
      BY <1>1 DEF RunIds
    <3> HIDE DEF r
    <3> QED BY <3>1, IdleCall
  <2>2. /\ submits' = [submits EXCEPT ![i] = c]
        /\ UNCHANGED <<runs, here, inputs, retryInput, sending, stopIntent, halt,
                       seen, left, troubles>>
    BY <1>2 DEF SubmitAccepted
  <2> HIDE DEF c
  <2>3. submits' \in [InputIds -> Calls] /\ submits'[i] = c
        /\ \A j \in InputIds \ {i} : SubmitInv(j)'
    BY <2>1, <2>2, CallStepKeeps
  <2>4. TaskTypeOK'
    BY <2>2, <2>3 DEF TaskInv, TaskTypeOK, Calls
  <2>5. SubmitInv(i)'
    BY <1>1, <2>1, <2>3, WaitingFailed DEF SubmitInv
  <2> QED BY <2>2, <2>3, <2>4, <2>5 DEF TaskInv
<1>3. CASE ~StopMeant(i)
  <2>1. Succeed(i, r) /\ ~inputs[i].stop
    BY <1>3 DEF SubmitAccepted, StopMeant
  <2> QED BY <1>1, <2>1, SucceedKeeps
<1> QED BY <1>2, <1>3

LEMMA SubmitStoppedKeeps ==
  ASSUME TaskInv, NEW i \in InputIds, SubmitStopped(i)
  PROVE  TaskInv'
<1>1. submits[i].accepted \in RunIds /\ Halted(submits[i].accepted)
  BY DEF TaskInv, SubmitInv, SubmitStopped
<1> QED BY <1>1, SucceedKeeps DEF SubmitStopped

LEMMA SubmitFailedKeeps ==
  ASSUME TaskInv, NEW i \in InputIds, SubmitFailed(i)
  PROVE  TaskInv'
<1>1. Idle \in Calls /\ Idle.pc = "idle"
  BY WaitingFailed DEF Idle, Calls
<1>2. /\ submits' = [submits EXCEPT ![i] = Idle]
      /\ UNCHANGED <<runs, here, inputs, retryInput, halt, seen, left, troubles>>
  BY DEF SubmitFailed
<1>3. sending' \in BOOLEAN /\ stopIntent' \in BOOLEAN
  BY Zenon DEF SubmitFailed, IntentAfterFailure, TaskInv, TaskTypeOK
<1>4. submits' \in [InputIds -> Calls] /\ submits'[i] = Idle
      /\ \A j \in InputIds \ {i} : SubmitInv(j)'
  BY <1>1, <1>2, CallStepKeeps
<1>5. TaskTypeOK'
  BY <1>2, <1>3, <1>4 DEF TaskInv, TaskTypeOK, Calls
<1>6. SubmitInv(i)'
  BY <1>1, <1>4 DEF SubmitInv
<1> QED BY <1>2, <1>4, <1>5, <1>6 DEF TaskInv

------------------------------------------------------------------------------
(* The stop call, the session and the workers: no submission moves.          *)
LEMMA NoSubmissionMoves ==
  ASSUME TaskInv, UNCHANGED submits,
         \A r \in RunIds : Halted(r) => Halted(r)',
         retryInput' \in {retryInput, NoInput},
         \A j \in InputIds : inputs'[j].stop =>
           inputs[j].stop \/ submits[j].pc # "done"
  PROVE  \A j \in InputIds : SubmitInv(j)'
BY DEF TaskInv, SubmitInv, InputIds

LEMMA PressStopKeeps == ASSUME TaskInv, PressStop PROVE TaskInv'
<1>1. /\ UNCHANGED <<runs, here, retryInput, sending, submits, seen, left>>
      /\ halt' = [NoHalt EXCEPT !.pc = "list", !.fresh = TRUE]
      /\ stopIntent' = TRUE /\ troubles < MaxTroubles /\ troubles' = troubles + 1
  BY DEF PressStop
<1>2. halt' \in Halt /\ halt'.pc = "list"
  <2>1. ASSUME NEW h \in Halt
        PROVE  /\ [h EXCEPT !.pc = "list", !.fresh = TRUE] \in Halt
               /\ [h EXCEPT !.pc = "list", !.fresh = TRUE].pc = "list"
    BY DEF Halt
  <2> QED BY <1>1, <2>1, NoHaltType
<1>3. /\ inputs' \in [InputIds -> Input]
      /\ \A j \in InputIds : inputs'[j].stop => inputs[j].stop \/ j = retryInput
  <2>1. inputs \in [InputIds -> Input]
    BY DEF TaskInv, TaskTypeOK, Input
  <2>2. CASE retryInput # NoInput
    <3>1. retryInput \in InputIds /\ inputs' = [inputs EXCEPT ![retryInput].stop = TRUE]
      BY <2>2 DEF PressStop, TaskInv, TaskTypeOK
    <3> QED BY <2>1, <3>1 DEF Input
  <2>3. CASE retryInput = NoInput
    BY <2>1, <2>3 DEF PressStop
  <2> QED BY <2>2, <2>3
<1>4. \A j \in InputIds : SubmitInv(j)'
  <2>1. \A j \in InputIds : j = retryInput => submits[j].pc # "done"
    BY DEF TaskInv, SubmitInv
  <2> QED BY <1>1, <1>3, <2>1, NoSubmissionMoves DEF Halted
<1>5. TaskTypeOK'
  BY <1>1, <1>2, <1>3 DEF TaskInv, TaskTypeOK, Halt, Input
<1> QED BY <1>1, <1>2, <1>4, <1>5 DEF TaskInv

LEMMA ServeHaltKeeps == ASSUME TaskInv, ServeHalt PROVE TaskInv'
<1>0. TaskTypeOK /\ halt \in Halt
  BY DEF TaskInv, TaskTypeOK, Halt
<1>1. UNCHANGED <<here, inputs, retryInput, sending, stopIntent, submits, seen,
                  left, troubles>>
  BY DEF ServeHalt
<1>2. PICK r \in 0..MaxRuns : halt' = [halt EXCEPT !.reply = Reply(r)] /\ Stays(runs')
  <2>1. CASE halt.pc = "list"
    <3> DEFINE r == IF Active = {} THEN 0
                    ELSE CHOOSE r \in Active : \A q \in Active : r <= q
    <3>1. r \in 0..MaxRuns
      <4>1. Active \in SUBSET Nat
        BY DEF Active, Created, RunIds
      <4>2. CASE Active # {}
        <5>1. \E q \in Active : \A p \in Active : q <= p
          BY <4>1, <4>2, LeastElement
        <5>2. r \in Active
          BY <4>2, <5>1
        <5> QED BY <5>2 DEF Active, Created, RunIds
      <4> QED BY <4>2
    <3>2. halt' = [halt EXCEPT !.reply = Reply(r)] /\ runs' = runs
      BY <2>1 DEF ServeHalt
    <3> QED BY <1>0, <3>1, <3>2, SubmissionType DEF Stays, Halted
  <2>2. CASE halt.pc # "list"
    <3>1. /\ halt' = [halt EXCEPT !.reply = Reply(halt.run)]
          /\ runs' = StopRun(halt.run) /\ halt.pc = "stop"
      BY <1>0, <2>2 DEF ServeHalt, Halt
    <3>2. halt.run \in RunIds /\ halt.run \in 0..MaxRuns
      BY <1>0, <3>1 DEF TaskInv, Halt
    <3> QED BY <1>0, <3>1, <3>2, StopRunStays
  <2> QED BY <2>1, <2>2
<1>3. halt' \in Halt /\ halt'.pc = halt.pc /\ halt'.run = halt.run
  BY <1>0, <1>2, ReplyType DEF Halt
<1>4. \A j \in InputIds : SubmitInv(j)'
  BY <1>1, <1>2, NoSubmissionMoves DEF Stays, Halted
<1>5. TaskTypeOK'
  BY <1>0, <1>1, <1>2, <1>3 DEF TaskTypeOK, Halt, Stays, Run
<1> QED BY <1>1, <1>3, <1>4, <1>5 DEF TaskInv

LEMMA LoseHaltKeeps == ASSUME TaskInv, LoseHalt PROVE TaskInv'
<1>1. halt \in Halt /\ halt' = [halt EXCEPT !.reply = Failed]
      /\ UNCHANGED <<runs, here, inputs, retryInput, sending, stopIntent, submits,
                     seen, left>>
      /\ troubles < MaxTroubles /\ troubles' = troubles + 1
  BY DEF TaskInv, TaskTypeOK, Halt, LoseHalt
<1>2. halt' \in Halt /\ halt'.pc = halt.pc /\ halt'.run = halt.run
  BY <1>1, WaitingFailed DEF Halt
<1>3. \A j \in InputIds : SubmitInv(j)'
  BY <1>1, NoSubmissionMoves DEF Halted
<1>4. TaskTypeOK'
  BY <1>1, <1>2 DEF TaskInv, TaskTypeOK, Halt
<1> QED BY <1>1, <1>2, <1>3, <1>4 DEF TaskInv

LEMMA HaltAnsweredKeeps == ASSUME TaskInv, HaltAnswered PROVE TaskInv'
<1>0. halt \in Halt /\ halt.reply \in Replies /\ TaskTypeOK
  BY DEF TaskInv, TaskTypeOK, Halt
<1>1. UNCHANGED <<runs, here, inputs, retryInput, sending, submits, seen,
                  left, troubles>>
  BY DEF HaltAnswered
<1>2. stopIntent' \in BOOLEAN
  BY <1>0, Zenon DEF HaltAnswered, TaskTypeOK
<1>3. halt' \in Halt /\ (halt'.pc = "stop" => halt'.run \in RunIds)
  <2>1. CASE /\ halt.reply.kind = "run" /\ halt.reply.run # 0
             /\ halt' = [halt EXCEPT !.pc = "stop", !.reply = Waiting,
                                     !.run = halt.reply.run]
    <3>1. halt.reply.run \in 0..MaxRuns /\ halt.reply.run \in RunIds
      BY <1>0, <2>1, RunReply DEF RunIds
    <3> QED BY <1>0, <2>1, <3>1, WaitingFailed DEF Halt
  <2>2. CASE halt' = NoHalt
    BY <2>2, NoHaltType
  <2> QED BY <2>1, <2>2 DEF HaltAnswered
<1>4. \A j \in InputIds : SubmitInv(j)'
  BY <1>1, NoSubmissionMoves DEF Halted
<1>5. TaskTypeOK'
  BY <1>0, <1>1, <1>2, <1>3 DEF TaskTypeOK, Halt
<1> QED BY <1>1, <1>3, <1>4, <1>5 DEF TaskInv

LEMMA LeaveKeeps == ASSUME TaskInv, Leave PROVE TaskInv'
<1>1. /\ halt \in Halt /\ halt' = [halt EXCEPT !.fresh = FALSE]
      /\ UNCHANGED <<runs, inputs, submits>> /\ retryInput' = NoInput
      /\ seen' = [run |-> 0, ended |-> FALSE]
      /\ troubles < MaxTroubles /\ troubles' = troubles + 1
  BY DEF TaskInv, TaskTypeOK, Halt, Leave
<1>2. here' \in BOOLEAN /\ sending' \in BOOLEAN /\ stopIntent' \in BOOLEAN
      /\ left' \in BOOLEAN
  BY Zenon DEF Leave
<1>3. halt' \in Halt /\ halt'.pc = halt.pc /\ halt'.run = halt.run
  BY <1>1 DEF Halt
<1>4. \A j \in InputIds : SubmitInv(j)'
  BY <1>1, NoSubmissionMoves DEF Halted
<1>5. TaskTypeOK'
  BY <1>1, <1>2, <1>3 DEF TaskInv, TaskTypeOK, Halt
<1> QED BY <1>1, <1>3, <1>4, <1>5 DEF TaskInv

LEMMA ReturnKeeps == ASSUME TaskInv, Return PROVE TaskInv'
<1>1. /\ halt \in Halt /\ halt' = [halt EXCEPT !.fresh = FALSE]
      /\ UNCHANGED <<runs, inputs, retryInput, sending, stopIntent, submits, left,
                     troubles>>
      /\ seen' = [run |-> 0, ended |-> FALSE] /\ here' = TRUE
  BY DEF TaskInv, TaskTypeOK, Halt, Return
<1>3. halt' \in Halt /\ halt'.pc = halt.pc /\ halt'.run = halt.run
  BY <1>1 DEF Halt
<1>4. \A j \in InputIds : SubmitInv(j)'
  BY <1>1, NoSubmissionMoves DEF Halted
<1>5. TaskTypeOK'
  BY <1>1, <1>3 DEF TaskInv, TaskTypeOK, Halt
<1> QED BY <1>1, <1>3, <1>4, <1>5 DEF TaskInv

LEMMA ReportKeeps ==
  ASSUME TaskInv, NEW view \in [run : 0..MaxRuns, ended : BOOLEAN], Report(view)
  PROVE  TaskInv'
<1>1. /\ UNCHANGED <<runs, here, inputs, retryInput, sending, submits, halt,
                     left, troubles>>
      /\ seen' = view
  BY DEF Report
<1>2. stopIntent' \in BOOLEAN
  BY Zenon DEF Report, TaskInv, TaskTypeOK
<1>3. \A j \in InputIds : SubmitInv(j)'
  BY <1>1, NoSubmissionMoves DEF Halted
<1>4. TaskTypeOK'
  BY <1>1, <1>2 DEF TaskInv, TaskTypeOK
<1> QED BY <1>1, <1>3, <1>4 DEF TaskInv

LEMMA ObserveKeeps == ASSUME TaskInv, Observe \/ ReportAgain PROVE TaskInv'
<1>1. CASE Observe
  <2>1. (LastRun # 0 /\ runs[LastRun].state = "ended") \in BOOLEAN
    OBVIOUS
  <2>2. [run |-> LastRun, ended |-> LastRun # 0 /\ runs[LastRun].state = "ended"]
          \in [run : 0..MaxRuns, ended : BOOLEAN]
    BY <2>1, LastRunType
  <2> QED BY <1>1, <2>2, ReportKeeps DEF Observe
<1>2. CASE ReportAgain
  BY <1>2, ReportKeeps DEF ReportAgain, TaskInv, TaskTypeOK
<1> QED BY <1>1, <1>2

(* One run moves, and does not leave the halted states.                      *)
LEMMA RunStepKeeps ==
  ASSUME TaskInv, Stays(runs'),
         UNCHANGED <<here, inputs, retryInput, sending, stopIntent, submits, halt,
                     seen, left, troubles>>
  PROVE  TaskInv'
<1>1. \A j \in InputIds : SubmitInv(j)'
  BY NoSubmissionMoves DEF Stays, Halted
<1>2. TaskTypeOK'
  BY DEF TaskInv, TaskTypeOK, Stays, Run
<1> QED BY <1>1, <1>2 DEF TaskInv

LEMMA StateStays ==
  ASSUME TaskTypeOK, NEW r \in RunIds, NEW new \in RunStates,
         Halted(r) => new = "ended"
  PROVE  Stays([runs EXCEPT ![r].state = new])
<1> DEFINE next == [runs EXCEPT ![r].state = new]
<1> SUFFICES Stays(next)
  OBVIOUS
<1>1. runs \in [RunIds -> Run]
  BY DEF TaskTypeOK, Run
<1>2. next \in [RunIds -> Run] /\ next[r].state = new
      /\ \A q \in RunIds \ {r} : next[q] = runs[q]
  BY <1>1 DEF Run
<1> HIDE DEF next
<1> QED BY <1>2 DEF Stays, Halted

LEMMA ResumeKeeps == ASSUME TaskInv, Resume PROVE TaskInv'
<1>1. PICK r \in RunIds :
        /\ runs[r].state = "waiting_user"
        /\ runs' = [runs EXCEPT ![r].state = "working"]
        /\ UNCHANGED <<here, inputs, retryInput, sending, stopIntent, submits, halt,
                       seen, left, troubles>>
  BY DEF Resume, Created
<1>2. Stays(runs')
  BY <1>1, StateStays DEF TaskInv, Halted, RunStates
<1> QED BY <1>1, <1>2, RunStepKeeps

LEMMA WorkKeeps == ASSUME TaskInv, NEW r \in RunIds, Work(r) PROVE TaskInv'
<1>1. Stays(runs')
  <2>1. CASE AwaitUser(r)
    BY <2>1, StateStays DEF TaskInv, Halted, RunStates, AwaitUser
  <2>2. CASE EndRun(r)
    BY <2>2, StateStays DEF TaskInv, RunStates, EndRun
  <2>3. CASE ExpireRun(r)
    BY <2>3, StopRunStays DEF TaskInv, ExpireRun
  <2> QED BY <2>1, <2>2, <2>3 DEF Work
<1> QED BY <1>1, RunStepKeeps DEF Work

LEMMA NextInv == TaskInv /\ [TaskNext]_taskVars => TaskInv'
<1> SUFFICES ASSUME TaskInv, [TaskNext]_taskVars PROVE TaskInv'
  OBVIOUS
<1>1. CASE \E t \in Texts : Submit(t)
  BY <1>1, SubmitKeeps
<1>2. CASE \E i \in InputIds : AnswerSubmit(i) \/ LoseSubmit(i)
  BY <1>2, ServeSubmitKeeps, SubmitListedKeeps, SubmitAcceptedKeeps,
     SubmitStoppedKeeps, SubmitFailedKeeps, LoseSubmitKeeps DEF AnswerSubmit
<1>3. CASE PressStop \/ AnswerHalt \/ LoseHalt
  BY <1>3, PressStopKeeps, ServeHaltKeeps, HaltAnsweredKeeps, LoseHaltKeeps
     DEF AnswerHalt
<1>4. CASE Leave \/ Return
  BY <1>4, LeaveKeeps, ReturnKeeps
<1>5. CASE Observe \/ ReportAgain \/ Resume
  BY <1>5, ObserveKeeps, ResumeKeeps
<1>6. CASE \E r \in RunIds : Work(r)
  BY <1>6, WorkKeeps
<1>7. CASE UNCHANGED taskVars
  BY <1>7 DEF taskVars, TaskInv, TaskTypeOK, SubmitInv, Halted
<1> QED BY <1>1, <1>2, <1>3, <1>4, <1>5, <1>6, <1>7 DEF TaskNext

------------------------------------------------------------------------------
LEMMA InvHolds == TaskSpec => []TaskInv
BY InitInv, NextInv, PTL DEF TaskSpec

(* Whatever is submitted, stopped, lost and left, the hook and the store     *)
(* keep to their domains.                                                    *)
THEOREM TaskTypes == TaskSpec => []TaskTypeOK
<1>1. TaskInv => TaskTypeOK
  BY DEF TaskInv
<1> QED BY <1>1, InvHolds, PTL

(* When a submission succeeds, the run that took its message is halting or   *)
(* over if a stop was pressed for it, whatever the observer reported, and    *)
(* it stays so (useDevelopmentRun.ts:163).                                   *)
THEOREM StopsReachSubmissions == TaskSpec => []StopReachesSubmission
<1>1. TaskInv => StopReachesSubmission
  BY DEF TaskInv, SubmitInv, StopReachesSubmission, Halted
<1> QED BY <1>1, InvHolds, PTL

------------------------------------------------------------------------------
(* Where a message goes, as long as the user stays in the session.           *)

Sent(i) == submits[i].pc \in {"list", "send", "stop"}
Last(r) == r \in Created \cup {0} /\ \A q \in Created : q <= r

(* One submission at a time, of the retry input.                             *)
Alone ==
  /\ here
  /\ \A i \in InputIds : Sent(i) => sending /\ retryInput = i
  /\ \A i \in InputIds : submits[i].reply = Failed => Sent(i)
  /\ retryInput # NoInput => inputs[retryInput].used

(* A run has the request it was created for, and is the last one while that  *)
(* request is the retry input; a message is in the run it created or in the  *)
(* one it was steered to, never both.                                        *)
Owned ==
  /\ \A r \in Created :
       /\ runs[r].request \in InputIds /\ inputs[runs[r].request].used
       /\ runs[r].request = retryInput => Last(r)
       /\ \A q \in Created : runs[q].request = runs[r].request => q = r
  /\ \A i \in InputIds : inputs[i].run # 0 =>
       inputs[i].run \in Created /\ \A r \in Created : runs[r].request # i
  /\ \A i \in InputIds, r \in Created : i \in runs[r].inbox =>
       inputs[i].used /\ (runs[r].request = i \/ inputs[i].run = r)

(* The browser speaks of runs that exist, and a list it holds is current.    *)
Known ==
  /\ \A i \in InputIds :
       /\ submits[i].pc = "list" /\ submits[i].reply.kind = "run" =>
            Last(submits[i].reply.run)
       /\ submits[i].pc = "send" /\ submits[i].reply.kind = "run" =>
            submits[i].reply.run \in Created
       /\ submits[i].pc = "stop" => submits[i].accepted \in Created
  /\ halt.pc = "list" /\ halt.reply.kind = "run" =>
       halt.reply.run \in Created \cup {0}
  /\ halt.pc = "stop" => halt.run \in Created

OnceInv == Alone /\ Owned /\ Known

(* Runs that change nothing but their state.                                 *)
SameRuns(next) ==
  \A r \in RunIds : /\ next[r].request = runs[r].request
                    /\ next[r].inbox = runs[r].inbox
                    /\ next[r].state = "none" <=> runs[r].state = "none"

LEMMA OwnedFrame ==
  ASSUME Owned, SameRuns(runs'), retryInput' \in {retryInput, NoInput},
         \A i \in InputIds : inputs'[i].run = inputs[i].run
                           /\ inputs'[i].used = inputs[i].used
  PROVE  Owned' /\ Created' = Created
<1>1. Created' = Created
  BY DEF SameRuns, Created
<1>2. \A r \in Created : runs'[r].request = runs[r].request
                        /\ runs'[r].inbox = runs[r].inbox
  BY DEF SameRuns, Created
<1>3. \A r : Last(r)' <=> Last(r)
  BY <1>1 DEF Last
<1>4. NoInput \notin InputIds
  BY DEF InputIds
<1> QED BY <1>1, <1>2, <1>3, <1>4 DEF Owned

(* Known when neither a call nor the set of runs changes.                    *)
LEMMA KnownFrame ==
  ASSUME Known, Created' = Created, UNCHANGED <<submits, halt>>
  PROVE  Known'
BY DEF Known, Last

LEMMA SameRunsUnchanged == UNCHANGED runs => SameRuns(runs')
BY DEF SameRuns

LEMMA StopRunSame ==
  ASSUME TaskTypeOK, NEW r \in Created
  PROVE  SameRuns(StopRun(r))
<1> DEFINE stopped == [runs EXCEPT ![r].state = "stopping"]
<1>0. runs \in [RunIds -> Run] /\ r \in RunIds /\ runs[r].state # "none"
  BY DEF TaskTypeOK, Run, Created
<1>1. /\ stopped[r].state = "stopping"
      /\ stopped[r].request = runs[r].request /\ stopped[r].inbox = runs[r].inbox
      /\ \A q \in RunIds \ {r} : stopped[q] = runs[q]
  BY <1>0 DEF Run
<1>2. StopRun(r) = runs \/ StopRun(r) = stopped
  BY DEF StopRun
<1> HIDE DEF stopped
<1> QED BY <1>0, <1>1, <1>2 DEF SameRuns

LEMMA InitOnce == TaskInit => OnceInv
<1> SUFFICES ASSUME TaskInit PROVE OnceInv
  OBVIOUS
<1>1. Created = {}
  BY DEF TaskInit, Created, NoRun
<1>2. /\ \A i \in InputIds : /\ submits[i].pc = "idle" /\ inputs[i].run = 0
                              /\ submits[i].reply = Waiting
      /\ halt.pc = "idle" /\ here /\ retryInput = NoInput
  BY DEF TaskInit, Idle, NewInput, NoHalt
<1> QED BY <1>1, <1>2, WaitingFailed DEF OnceInv, Alone, Owned, Known, Sent

LEMMA SubmitOnce ==
  ASSUME TaskInv, OnceInv, NEW t \in Texts, Submit(t)
  PROVE  OnceInv'
<1> DEFINE fresh == [Idle EXCEPT !.pc = "list"]
           new == [NewInput EXCEPT !.used = TRUE, !.text = t]
<1>0. /\ inputs \in [InputIds -> Input] /\ submits \in [InputIds -> Calls]
      /\ fresh.pc = "list" /\ fresh.reply = Waiting
      /\ new \in Input /\ new.run = 0 /\ new.used
  <2>1. fresh.pc = "list" /\ fresh.reply = Waiting
    BY DEF Idle
  <2>2. new \in Input /\ new.run = 0 /\ new.used
    BY NewInputType DEF NewInput
  <2> QED BY <2>1, <2>2, SubmissionType DEF TaskInv, TaskTypeOK, Input
<1>1. here /\ ~sending /\ sending' = TRUE /\ UNCHANGED <<runs, here, halt>>
  BY DEF Submit
<1>2. \A i \in InputIds : ~Sent(i)
  BY <1>1 DEF OnceInv, Alone
<1>3. PICK i \in InputIds :
        /\ submits' = [submits EXCEPT ![i] = fresh] /\ retryInput' = i
        /\ \/ i = retryInput /\ UNCHANGED inputs
           \/ ~inputs[i].used /\ inputs' = [inputs EXCEPT ![i] = new]
  <2>1. CASE /\ retryInput # NoInput
             /\ submits' = [submits EXCEPT ![retryInput] = fresh]
             /\ UNCHANGED <<inputs, retryInput>>
    BY <2>1 DEF TaskInv, TaskTypeOK
  <2>2. CASE \E i \in InputIds :
             /\ ~inputs[i].used
             /\ inputs' = [inputs EXCEPT ![i] = new]
             /\ retryInput' = i
             /\ submits' = [submits EXCEPT ![i] = fresh]
    BY <2>2
  <2> QED BY <2>1, <2>2 DEF Submit
<1> HIDE DEF fresh, new
<1>4. Created' = Created /\ UNCHANGED runs
  BY <1>1 DEF Created
<1>5. \A j \in InputIds : submits'[j] = IF j = i THEN fresh ELSE submits[j]
  BY <1>0, <1>3
<1>6. Alone'
  <2>1. inputs'[i].used
    BY <1>0, <1>3 DEF OnceInv, Alone, InputIds
  <2> QED BY <1>0, <1>1, <1>2, <1>3, <1>5, <2>1, WaitingFailed DEF OnceInv, Alone, Sent
<1>7. Known'
  BY <1>0, <1>1, <1>4, <1>5, WaitingFailed DEF OnceInv, Known, Last
<1>8. Owned'
  <2>1. CASE i = retryInput /\ UNCHANGED inputs
    BY <1>3, <1>4, <2>1 DEF OnceInv, Owned, Last
  <2>2. CASE ~inputs[i].used /\ inputs' = [inputs EXCEPT ![i] = new]
    <3>1. \A r \in Created : runs[r].request # i /\ i \notin runs[r].inbox
      BY <2>2 DEF OnceInv, Owned
    <3>2. \A j \in InputIds : inputs'[j] = IF j = i THEN new ELSE inputs[j]
      BY <1>0, <2>2
    <3> QED BY <1>0, <1>3, <1>4, <3>1, <3>2 DEF OnceInv, Owned, Last
  <2> QED BY <1>3, <2>1, <2>2
<1> QED BY <1>6, <1>7, <1>8 DEF OnceInv

(* What the store does with a message: nothing, or a run more, or a message  *)
(* more in the run it was steered to.                                        *)
Creates(next, i) ==
  \E l \in RunIds :
    /\ l \notin Created /\ \A q \in Created : q < l
    /\ \A r \in Created : runs[r].request # i
    /\ next = [runs EXCEPT ![l] =
                [state |-> "working", request |-> i, inbox |-> {i}]]

LEMMA CreateRunCases ==
  ASSUME TaskTypeOK, NEW i \in InputIds
  PROVE  CreateRun(i).runs = runs \/ Creates(CreateRun(i).runs, i)
<1>1. CASE \E r \in Created : runs[r].request = i
  BY <1>1 DEF CreateRun
<1>2. CASE Active # {} \/ LastRun = MaxRuns
  BY <1>2 DEF CreateRun
<1>3. CASE /\ ~\E r \in Created : runs[r].request = i
           /\ ~(Active # {} \/ LastRun = MaxRuns)
  <2> DEFINE l == LastRun + 1
  <2>1. CreateRun(i).runs = [runs EXCEPT ![l] =
           [state |-> "working", request |-> i, inbox |-> {i}]]
    BY <1>3 DEF CreateRun
  <2>2. l \in RunIds /\ l \notin Created /\ \A q \in Created : q < l
    BY <1>3, LastRunType DEF RunIds, Created
  <2> HIDE DEF l
  <2> QED BY <1>3, <2>1, <2>2 DEF Creates
<1> QED BY <1>1, <1>2, <1>3

LEMMA CreateRunKnown ==
  ASSUME TaskTypeOK, NEW i \in InputIds, CreateRun(i).reply.kind = "run",
         runs' = CreateRun(i).runs
  PROVE  CreateRun(i).reply.run \in Created'
<1>0. runs \in [RunIds -> Run]
  BY SubmissionType
<1>1. CASE \E r \in Created : runs[r].request = i
  <2> DEFINE r == CHOOSE r \in Created : runs[r].request = i
  <2>1. r \in Created
    BY <1>1
  <2>2. CreateRun(i) = [runs |-> runs, reply |-> Reply(r)]
    BY <1>1 DEF CreateRun
  <2> HIDE DEF r
  <2>3. Reply(r).run = r
    BY DEF Reply
  <2> QED BY <2>1, <2>2, <2>3 DEF Created
<1>2. CASE ~(\E r \in Created : runs[r].request = i) /\ (Active # {} \/ LastRun = MaxRuns)
  BY <1>2, WaitingFailed DEF CreateRun
<1>3. CASE /\ ~\E r \in Created : runs[r].request = i
           /\ ~(Active # {} \/ LastRun = MaxRuns)
  <2> DEFINE l == LastRun + 1
             new == [state |-> "working", request |-> i, inbox |-> {i}]
  <2>1. CreateRun(i).runs = [runs EXCEPT ![l] = new] /\ CreateRun(i).reply.run = l
    BY <1>3 DEF CreateRun
  <2>2. l \in RunIds /\ new.state # "none"
    BY <1>3, LastRunType DEF RunIds
  <2> HIDE DEF l, new
  <2> QED BY <1>0, <2>1, <2>2 DEF Created
<1> QED BY <1>1, <1>2, <1>3

(* A run is created for message i.                                           *)
LEMMA CreatedOwned ==
  ASSUME TaskInv, OnceInv, NEW i \in InputIds, NEW l \in RunIds,
         Sent(i), inputs[i].run = 0,
         l \notin Created, \A q \in Created : q < l,
         \A r \in Created : runs[r].request # i,
         runs' = [runs EXCEPT ![l] =
                    [state |-> "working", request |-> i, inbox |-> {i}]],
         UNCHANGED <<inputs, retryInput>>
  PROVE  Owned' /\ Created' = Created \cup {l}
<1> DEFINE new == [state |-> "working", request |-> i, inbox |-> {i}]
<1>0. runs \in [RunIds -> Run]
  BY SubmissionType DEF TaskInv
<1>1. /\ new.state = "working" /\ new.request = i /\ new.inbox = {i}
      /\ \A r \in RunIds : runs'[r] = IF r = l THEN new ELSE runs[r]
  BY <1>0
<1> HIDE DEF new
<1>2. Created' = Created \cup {l}
  BY <1>1 DEF Created
<1>3. retryInput = i /\ inputs[i].used
  BY DEF OnceInv, Alone, InputIds
<1>4. \A r \in Created : r # l /\ r \in RunIds /\ runs[r].request # retryInput
  BY <1>3 DEF Created
<1>5. Last(l)'
  BY <1>2 DEF Last, RunIds, Created
<1>6. \A r \in Created' :
        /\ runs'[r].request \in InputIds /\ inputs'[runs'[r].request].used
        /\ runs'[r].request = retryInput' => Last(r)'
        /\ \A q \in Created' : runs'[q].request = runs'[r].request => q = r
  BY <1>1, <1>2, <1>3, <1>4, <1>5 DEF OnceInv, Owned
<1>7. \A j \in InputIds : inputs'[j].run # 0 =>
        inputs'[j].run \in Created' /\ \A r \in Created' : runs'[r].request # j
  BY <1>1, <1>2, <1>4 DEF OnceInv, Owned
<1>8. \A j \in InputIds, r \in Created' : j \in runs'[r].inbox =>
        inputs'[j].used /\ (runs'[r].request = j \/ inputs'[j].run = r)
  BY <1>1, <1>2, <1>3, <1>4 DEF OnceInv, Owned
<1> QED BY <1>2, <1>6, <1>7, <1>8 DEF Owned

LEMMA AddInputOwned ==
  ASSUME TaskInv, OnceInv, NEW i \in InputIds, Sent(i), inputs[i].run # 0,
         runs' = AddInput(inputs[i].run, i).runs,
         UNCHANGED <<inputs, retryInput>>
  PROVE  Owned' /\ Created' = Created
<1> DEFINE s == inputs[i].run
           added == [runs EXCEPT ![s].inbox = @ \cup {i}, ![s].state = "working"]
<1>0. runs \in [RunIds -> Run] /\ s \in Created /\ s \in RunIds /\ inputs[i].used
  BY SubmissionType DEF TaskInv, OnceInv, Owned, Alone, Created, InputIds
<1>1. runs' = runs \/ runs' = added
  BY DEF AddInput
<1>2. CASE runs' = runs
  BY <1>2, OwnedFrame, SameRunsUnchanged DEF OnceInv
<1>3. CASE runs' = added
  <2>1. /\ runs'[s].inbox = runs[s].inbox \cup {i} /\ runs'[s].state = "working"
        /\ runs'[s].request = runs[s].request
        /\ \A r \in RunIds \ {s} : runs'[r] = runs[r]
    BY <1>0, <1>3 DEF Run
  <2> HIDE DEF s
  <2>2. Created' = Created
    BY <1>0, <2>1 DEF Created
  <2>3. \A r \in Created : runs'[r].request = runs[r].request
    BY <2>1 DEF Created
  <2>4. \A j \in InputIds, r \in Created : j \in runs'[r].inbox =>
          inputs[j].used /\ (runs[r].request = j \/ inputs[j].run = r)
    <3> SUFFICES ASSUME NEW j \in InputIds, NEW r \in Created, j \in runs'[r].inbox
                 PROVE  inputs[j].used /\ (runs[r].request = j \/ inputs[j].run = r)
      OBVIOUS
    <3>1. CASE j \in runs[r].inbox
      BY <3>1 DEF OnceInv, Owned
    <3>2. CASE j \notin runs[r].inbox
      <4>1. r = s /\ j = i
        BY <2>1, <3>2 DEF Created
      <4> QED BY <1>0, <4>1 DEF s
    <3> QED BY <3>1, <3>2
  <2>5. \A r : Last(r)' <=> Last(r)
    BY <2>2 DEF Last
  <2> QED BY <2>2, <2>3, <2>4, <2>5 DEF OnceInv, Owned
<1> QED BY <1>1, <1>2, <1>3

(* One submission moves on to call c.                                        *)
LEMMA CallOnce ==
  ASSUME TaskInv, OnceInv, NEW i \in InputIds, Sent(i), NEW c \in Calls,
         submits' = [submits EXCEPT ![i] = c],
         Owned', Created \subseteq Created', UNCHANGED <<here, halt>>,
         \A j \in InputIds : inputs'[j].used = inputs[j].used,
         retryInput' \in {retryInput, NoInput},
         c.pc \in {"list", "send", "stop"} => UNCHANGED <<sending, retryInput>>,
         c.reply = Failed => c.pc \in {"list", "send", "stop"},
         c.pc = "list" /\ c.reply.kind = "run" => Last(c.reply.run)',
         c.pc = "send" /\ c.reply.kind = "run" => c.reply.run \in Created',
         c.pc = "stop" => c.accepted \in Created'
  PROVE  OnceInv'
<1>1. /\ submits'[i] = c
      /\ \A j \in InputIds \ {i} : submits'[j] = submits[j] /\ ~Sent(j)
                                   /\ submits[j].reply # Failed
  BY SubmissionType DEF TaskInv, OnceInv, Alone
<1>2. retryInput' # NoInput => retryInput' = i
  BY DEF OnceInv, Alone
<1>3. inputs[i].used
  BY DEF OnceInv, Alone, InputIds
<1>4. Alone'
  BY <1>1, <1>2, <1>3 DEF OnceInv, Alone, Sent
<1>5. Known'
  BY <1>1 DEF OnceInv, Known, Sent
<1> QED BY <1>4, <1>5 DEF OnceInv

LEMMA ServeSubmitOnce ==
  ASSUME TaskInv, OnceInv, NEW i \in InputIds, ServeSubmit(i)
  PROVE  OnceInv'
<1> DEFINE call == submits[i]
           steered == inputs[i].run
           sent == IF steered # 0 THEN AddInput(steered, i) ELSE CreateRun(i)
<1>0. TaskTypeOK /\ call \in Calls /\ Sent(i)
  BY SubmissionType DEF TaskInv, ServeSubmit, Sent
<1>1. UNCHANGED <<here, inputs, retryInput, sending, stopIntent, halt>>
  BY DEF ServeSubmit
<1>2. PICK x \in Replies :
        /\ submits' = [submits EXCEPT ![i].reply = x]
        /\ Owned' /\ Created \subseteq Created'
        /\ call.pc = "list" /\ x.kind = "run" => Last(x.run)'
        /\ call.pc = "send" /\ x.kind = "run" => x.run \in Created'
  <2>1. CASE call.pc = "list"
    <3>1. submits' = [submits EXCEPT ![i].reply = Reply(LastRun)] /\ UNCHANGED runs
      BY <2>1 DEF ServeSubmit
    <3>2. Owned' /\ Created' = Created
      BY <1>1, <3>1, OwnedFrame, SameRunsUnchanged DEF OnceInv
    <3>3. PICK y \in Replies : y = Reply(LastRun) /\ Last(y.run)
      BY LastRunType, ReplyType DEF Last
    <3>4. Last(y.run)'
      BY <3>2, <3>3 DEF Last
    <3> QED BY <2>1, <3>1, <3>2, <3>3, <3>4
  <2>2. CASE call.pc = "send" /\ steered # 0
    <3>1. /\ submits' = [submits EXCEPT ![i].reply = AddInput(steered, i).reply]
          /\ runs' = AddInput(steered, i).runs
      BY <2>2 DEF ServeSubmit
    <3>2. Owned' /\ Created' = Created
      BY <1>0, <1>1, <2>2, <3>1, AddInputOwned
    <3>3. steered \in Created /\ steered \in RunIds
      BY <2>2 DEF OnceInv, Owned, Created
    <3>4. /\ AddInput(steered, i).reply \in Replies
          /\ AddInput(steered, i).reply.kind = "run" =>
               AddInput(steered, i).reply.run = steered
      BY <1>0, <3>3, AddInputStays
    <3> QED BY <2>2, <3>1, <3>2, <3>3, <3>4
  <2>3. CASE call.pc = "send" /\ steered = 0
    <3>1. /\ submits' = [submits EXCEPT ![i].reply = CreateRun(i).reply]
          /\ runs' = CreateRun(i).runs
      BY <2>3 DEF ServeSubmit
    <3>2. CreateRun(i).reply \in Replies
      BY <1>0, CreateRunStays
    <3>3. CreateRun(i).reply.kind = "run" => CreateRun(i).reply.run \in Created'
      BY <1>0, <3>1, CreateRunKnown
    <3>4. Owned' /\ Created \subseteq Created'
      <4>1. CASE runs' = runs
        BY <1>1, <4>1, OwnedFrame, SameRunsUnchanged DEF OnceInv
      <4>2. CASE Creates(runs', i)
        <5>1. Owned' /\ \E l : Created' = Created \cup {l}
          BY <1>0, <1>1, <2>3, <4>2, CreatedOwned DEF Creates
        <5> QED BY <5>1
      <4>3. runs' = runs \/ Creates(runs', i)
        BY <1>0, <3>1, CreateRunCases
      <4> QED BY <4>1, <4>2, <4>3
    <3> QED BY <2>3, <3>1, <3>2, <3>3, <3>4
  <2>4. CASE call.pc = "stop"
    <3>1. /\ submits' = [submits EXCEPT ![i].reply = Reply(call.accepted)]
          /\ runs' = StopRun(call.accepted)
      BY <2>4 DEF ServeSubmit
    <3>2. call.accepted \in Created
      BY <2>4 DEF OnceInv, Known
    <3>3. Owned' /\ Created' = Created
      BY <1>0, <1>1, <3>1, <3>2, OwnedFrame, StopRunSame DEF OnceInv
    <3>4. Reply(call.accepted) \in Replies
      BY <1>0, ReplyType DEF Calls
    <3> QED BY <2>4, <3>1, <3>3, <3>4
  <2> QED BY <1>0, <2>1, <2>2, <2>3, <2>4 DEF Sent
<1> DEFINE c == [call EXCEPT !.reply = x]
<1>3. c \in Calls /\ c.pc = call.pc /\ c.accepted = call.accepted /\ c.reply = x
  BY <1>0 DEF Calls
<1>4. submits' = [submits EXCEPT ![i] = c]
  BY <1>2
<1> HIDE DEF c
<1>5. call.pc = "stop" => call.accepted \in Created'
  BY <1>2 DEF OnceInv, Known
<1> QED BY <1>0, <1>1, <1>2, <1>3, <1>4, <1>5, CallOnce DEF Sent

LEMMA LoseSubmitOnce ==
  ASSUME TaskInv, OnceInv, NEW i \in InputIds, LoseSubmit(i)
  PROVE  OnceInv'
<1> DEFINE c == [submits[i] EXCEPT !.reply = Failed]
<1>1. submits[i] \in Calls /\ Sent(i)
  BY SubmissionType DEF TaskInv, LoseSubmit, Sent
<1>2. c \in Calls /\ c.reply = Failed /\ c.pc = submits[i].pc
      /\ c.accepted = submits[i].accepted
  BY <1>1, WaitingFailed DEF Calls
<1>3. /\ submits' = [submits EXCEPT ![i] = c]
      /\ UNCHANGED <<runs, here, inputs, retryInput, sending, halt>>
  BY DEF LoseSubmit
<1> HIDE DEF c
<1>4. Owned' /\ Created' = Created
  BY <1>3, OwnedFrame, SameRunsUnchanged DEF OnceInv
<1>5. c.pc \in {"list", "send", "stop"} /\ c.reply.kind # "run"
      /\ (c.pc = "stop" => c.accepted \in Created')
  BY <1>1, <1>2, <1>4, WaitingFailed DEF Sent, OnceInv, Known
<1> QED BY <1>1, <1>2, <1>3, <1>4, <1>5, CallOnce

LEMMA SubmitListedOnce ==
  ASSUME TaskInv, OnceInv, NEW i \in InputIds, SubmitListed(i)
  PROVE  OnceInv'
<1> DEFINE reply == submits[i].reply
           t == Target(i, reply)
           c == [Idle EXCEPT !.pc = "send"]
<1>1. /\ Sent(i) /\ submits[i].pc = "list" /\ reply.kind = "run"
      /\ retryInput = i /\ here /\ Last(reply.run)
  BY DEF SubmitListed, Sent, OnceInv, Alone, Known
<1>2. /\ submits' = [submits EXCEPT ![i] = c]
      /\ inputs' = [inputs EXCEPT ![i].run = t]
      /\ UNCHANGED <<runs, here, retryInput, sending, halt>>
  BY <1>1 DEF SubmitListed
<1>3. c \in Calls /\ c.pc = "send" /\ c.reply = Waiting
  <2>1. 0 \in 0..MaxRuns
    OBVIOUS
  <2> QED BY <2>1, IdleCall
<1>4. inputs \in [InputIds -> Input]
  BY DEF TaskInv, TaskTypeOK, Input
<1>5. \/ t = inputs[i].run
      \/ /\ inputs[i].run = 0 /\ t = reply.run /\ t \in Created
         /\ runs[t].request # i
  BY <1>1 DEF Target, Last
<1> HIDE DEF t, c
<1>6. /\ inputs'[i].run = t
      /\ \A j \in InputIds \ {i} : inputs'[j].run = inputs[j].run
      /\ \A j \in InputIds : inputs'[j].used = inputs[j].used
  BY <1>2, <1>4 DEF Input
<1>7. Created' = Created
  BY <1>2 DEF Created
<1>8. Owned'
  <2>1. CASE t = inputs[i].run
    <3>1. \A j \in InputIds : inputs'[j].run = inputs[j].run
      BY <1>6, <2>1
    <3> QED BY <1>2, <1>6, <3>1, OwnedFrame, SameRunsUnchanged DEF OnceInv
  <2>2. CASE /\ inputs[i].run = 0 /\ t = reply.run /\ t \in Created
             /\ runs[t].request # i
    <3>1. ASSUME NEW r \in Created, runs[r].request = i PROVE FALSE
      <4>1. Last(r) /\ Last(t)
        BY <1>1, <2>2, <3>1 DEF OnceInv, Owned
      <4>2. r <= t /\ t <= r /\ r \in RunIds /\ t \in RunIds
        BY <2>2, <4>1 DEF Last, Created
      <4>3. r = t
        BY <4>2 DEF RunIds
      <4> QED BY <2>2, <3>1, <4>3
    <3>2. \A r : Last(r)' <=> Last(r)
      BY <1>7 DEF Last
    <3>3. \A r \in Created : runs'[r] = runs[r]
      BY <1>2
    <3>4. \A j \in InputIds, r \in Created : j \in runs[r].inbox =>
            inputs[j].used /\ (runs[r].request = j \/ inputs'[j].run = r)
      <4>1. ASSUME NEW r \in Created, i \in runs[r].inbox PROVE FALSE
        <5>1. inputs[i].run = r /\ r # 0
          BY <3>1, <4>1 DEF OnceInv, Owned, Created, RunIds
        <5> QED BY <2>2, <5>1
      <4> QED BY <1>6, <4>1 DEF OnceInv, Owned
    <3>5. \A j \in InputIds : inputs'[j].run # 0 =>
            inputs'[j].run \in Created /\ \A r \in Created : runs[r].request # j
      BY <1>6, <2>2, <3>1 DEF OnceInv, Owned
    <3>6. \A r \in Created :
            /\ runs[r].request \in InputIds /\ inputs'[runs[r].request].used
            /\ runs[r].request = retryInput => Last(r)
            /\ \A q \in Created : runs[q].request = runs[r].request => q = r
      BY <1>6 DEF OnceInv, Owned
    <3> QED BY <1>2, <1>6, <1>7, <3>2, <3>3, <3>4, <3>5, <3>6 DEF Owned
  <2> QED BY <1>5, <2>1, <2>2
<1> QED BY <1>1, <1>2, <1>3, <1>6, <1>7, <1>8, WaitingFailed, CallOnce

(* The call ends: for good, or to be tried again.                            *)
LEMMA CallEndsOnce ==
  ASSUME TaskInv, OnceInv, NEW i \in InputIds, Sent(i),
         NEW c \in Calls, c.pc \in {"idle", "done"}, c.reply = Waiting,
         submits' = [submits EXCEPT ![i] = c],
         UNCHANGED <<runs, here, inputs, halt>>,
         retryInput' \in {retryInput, NoInput}
  PROVE  OnceInv'
<1>1. Owned' /\ Created' = Created
  BY OwnedFrame, SameRunsUnchanged DEF OnceInv
<1> QED BY <1>1, WaitingFailed, CallOnce

LEMMA SucceedOnce ==
  ASSUME TaskInv, OnceInv, NEW i \in InputIds, Sent(i), NEW r \in 0..MaxRuns,
         Succeed(i, r)
  PROVE  OnceInv'
<1> DEFINE c == [Idle EXCEPT !.pc = "done", !.accepted = r]
<1>1. c \in Calls /\ c.pc = "done" /\ c.reply = Waiting
  BY IdleCall
<1>2. /\ submits' = [submits EXCEPT ![i] = c]
      /\ UNCHANGED <<runs, here, inputs, halt>>
      /\ retryInput' \in {retryInput, NoInput}
  BY DEF Succeed
<1> HIDE DEF c
<1> QED BY <1>1, <1>2, CallEndsOnce

LEMMA SubmitAcceptedOnce ==
  ASSUME TaskInv, OnceInv, NEW i \in InputIds, SubmitAccepted(i) \/ SubmitStopped(i)
  PROVE  OnceInv'
<1> DEFINE r == submits[i].reply.run
           c == [Idle EXCEPT !.pc = "stop", !.accepted = r]
<1>0. Sent(i) /\ submits[i] \in Calls
  BY SubmissionType DEF TaskInv, SubmitAccepted, SubmitStopped, Sent
<1>1. CASE SubmitStopped(i)
  BY <1>0, <1>1, SucceedOnce DEF SubmitStopped, Calls
<1>2. CASE SubmitAccepted(i)
  <2>1. submits[i].pc = "send" /\ r \in Created /\ r \in 0..MaxRuns
    BY <1>2 DEF SubmitAccepted, OnceInv, Known, Created, RunIds
  <2> HIDE DEF r
  <2>2. CASE StopMeant(i)
    <3>1. /\ submits' = [submits EXCEPT ![i] = c]
          /\ UNCHANGED <<runs, here, inputs, retryInput, sending, halt>>
      BY <1>2, <2>2 DEF SubmitAccepted, r
    <3>2. c \in Calls /\ c.pc = "stop" /\ c.reply = Waiting /\ c.accepted = r
      BY <2>1, IdleCall
    <3> HIDE DEF c
    <3>3. Owned' /\ Created' = Created
      BY <3>1, OwnedFrame, SameRunsUnchanged DEF OnceInv
    <3> QED BY <1>0, <2>1, <3>1, <3>2, <3>3, WaitingFailed, CallOnce
  <2>3. CASE ~StopMeant(i)
    BY <1>0, <1>2, <2>1, <2>3, SucceedOnce DEF SubmitAccepted, r
  <2> QED BY <2>2, <2>3
<1> QED BY <1>1, <1>2

LEMMA SubmitFailedOnce ==
  ASSUME TaskInv, OnceInv, NEW i \in InputIds, SubmitFailed(i)
  PROVE  OnceInv'
<1>1. Idle \in Calls /\ Idle.pc = "idle" /\ Idle.reply = Waiting
  BY WaitingFailed DEF Idle, Calls
<1>2. /\ submits' = [submits EXCEPT ![i] = Idle]
      /\ UNCHANGED <<runs, here, inputs, retryInput, halt>>
  BY DEF SubmitFailed
<1>3. Sent(i)
  BY DEF SubmitFailed, OnceInv, Alone
<1> QED BY <1>1, <1>2, <1>3, CallEndsOnce

------------------------------------------------------------------------------
(* The steps that move no submission.                                        *)
LEMMA OthersOnce ==
  ASSUME TaskInv, OnceInv, SameRuns(runs'),
         UNCHANGED <<here, sending, retryInput, submits>>,
         \A j \in InputIds : inputs'[j].run = inputs[j].run
                           /\ inputs'[j].used = inputs[j].used,
         halt'.pc = "list" /\ halt'.reply.kind = "run" =>
           halt'.reply.run \in Created \cup {0},
         halt'.pc = "stop" => halt'.run \in Created
  PROVE  OnceInv'
<1>1. Owned' /\ Created' = Created
  BY OwnedFrame DEF OnceInv
<1>2. Alone'
  <2>1. retryInput # NoInput => retryInput \in InputIds
    BY DEF TaskInv, TaskTypeOK
  <2>2. retryInput' # NoInput => inputs'[retryInput'].used
    BY <2>1 DEF OnceInv, Alone
  <2>3. here' /\ \A i \in InputIds :
          /\ Sent(i)' => sending' /\ retryInput' = i
          /\ submits'[i].reply = Failed => Sent(i)'
    BY Zenon DEF OnceInv, Alone, Sent, Failed
  <2> QED BY <2>2, <2>3, Zenon DEF Alone, Failed
<1>3. Known'
  BY <1>1 DEF OnceInv, Known, Last
<1> QED BY <1>1, <1>2, <1>3 DEF OnceInv

(* The runs move, or nothing that matters does.                              *)
LEMMA RunStepOnce ==
  ASSUME TaskInv, OnceInv, SameRuns(runs'),
         UNCHANGED <<here, inputs, sending, retryInput, submits, halt>>
  PROVE  OnceInv'
BY OthersOnce DEF OnceInv, Known

LEMMA StateSame ==
  ASSUME TaskTypeOK, NEW r \in RunIds, NEW new, runs[r].state # "none", new # "none"
  PROVE  SameRuns([runs EXCEPT ![r].state = new])
<1> DEFINE next == [runs EXCEPT ![r].state = new]
<1> SUFFICES SameRuns(next)
  OBVIOUS
<1>1. runs \in [RunIds -> Run]
  BY DEF TaskTypeOK, Run
<1>2. /\ next[r].state = new /\ next[r].request = runs[r].request
      /\ next[r].inbox = runs[r].inbox
      /\ \A q \in RunIds \ {r} : next[q] = runs[q]
  BY <1>1 DEF Run
<1> HIDE DEF next
<1> QED BY <1>2 DEF SameRuns

LEMMA RunsOnce ==
  ASSUME TaskInv, OnceInv,
         Observe \/ ReportAgain \/ Resume \/ \E r \in RunIds : Work(r)
  PROVE  OnceInv'
<1>1. UNCHANGED <<here, inputs, sending, retryInput, submits, halt>>
  BY DEF Observe, ReportAgain, Report, Resume, Work
<1>2. SameRuns(runs')
  <2>1. CASE Observe \/ ReportAgain
    BY <2>1, SameRunsUnchanged DEF Observe, ReportAgain, Report
  <2>2. CASE Resume
    <3>1. PICK r \in RunIds :
            /\ runs[r].state = "waiting_user"
            /\ runs' = [runs EXCEPT ![r].state = "working"]
      BY <2>2 DEF Resume, Created
    <3> QED BY <3>1, StateSame DEF TaskInv
  <2>3. ASSUME NEW r \in RunIds, Work(r) PROVE SameRuns(runs')
    <3>1. CASE AwaitUser(r) \/ EndRun(r)
      BY <3>1, StateSame DEF AwaitUser, EndRun, TaskInv
    <3>2. CASE ExpireRun(r)
      <4>1. r \in Created /\ runs' = StopRun(r)
        BY <3>2 DEF ExpireRun, Created
      <4> QED BY <4>1, StopRunSame DEF TaskInv
    <3> QED BY <2>3, <3>1, <3>2 DEF Work
  <2> QED BY <2>1, <2>2, <2>3
<1> QED BY <1>1, <1>2, RunStepOnce

LEMMA PressStopOnce == ASSUME TaskInv, OnceInv, PressStop PROVE OnceInv'
<1>1. /\ UNCHANGED <<runs, here, retryInput, sending, submits>>
      /\ halt' = [NoHalt EXCEPT !.pc = "list", !.fresh = TRUE]
  BY DEF PressStop
<1>2. halt'.pc = "list" /\ halt'.reply.kind # "run"
  BY <1>1, WaitingFailed DEF NoHalt
<1>3. \A j \in InputIds : inputs'[j].run = inputs[j].run
                         /\ inputs'[j].used = inputs[j].used
  <2>1. inputs \in [InputIds -> Input]
    BY DEF TaskInv, TaskTypeOK, Input
  <2>2. CASE retryInput # NoInput
    <3>1. retryInput \in InputIds /\ inputs' = [inputs EXCEPT ![retryInput].stop = TRUE]
      BY <2>2 DEF PressStop, TaskInv, TaskTypeOK
    <3> QED BY <2>1, <3>1 DEF Input
  <2>3. CASE retryInput = NoInput
    BY <2>3 DEF PressStop
  <2> QED BY <2>2, <2>3
<1> QED BY <1>1, <1>2, <1>3, SameRunsUnchanged, OthersOnce

LEMMA HaltOnce ==
  ASSUME TaskInv, OnceInv, ServeHalt \/ HaltAnswered \/ LoseHalt
  PROVE  OnceInv'
<1>0. halt \in Halt /\ TaskTypeOK
  BY DEF TaskInv, TaskTypeOK, Halt
<1>1. UNCHANGED <<here, inputs, sending, retryInput, submits>>
  BY DEF ServeHalt, HaltAnswered, LoseHalt
<1>2. /\ SameRuns(runs')
      /\ halt'.pc = "list" /\ halt'.reply.kind = "run" =>
           halt'.reply.run \in Created \cup {0}
      /\ halt'.pc = "stop" => halt'.run \in Created
  <2>1. CASE ServeHalt /\ halt.pc = "list"
    <3> DEFINE r == IF Active = {} THEN 0
                    ELSE CHOOSE r \in Active : \A q \in Active : r <= q
    <3>1. r \in Created \cup {0}
      <4>1. Active \in SUBSET Nat
        BY DEF Active, Created, RunIds
      <4>2. CASE Active # {}
        <5>1. \E q \in Active : \A p \in Active : q <= p
          BY <4>1, <4>2, LeastElement
        <5>2. r \in Active
          BY <4>2, <5>1
        <5> QED BY <5>2 DEF Active
      <4> QED BY <4>2
    <3>2. halt' = [halt EXCEPT !.reply = Reply(r)] /\ runs' = runs
      BY <2>1 DEF ServeHalt
    <3> HIDE DEF r
    <3>3. r \in 0..MaxRuns
      BY <3>1 DEF Created, RunIds
    <3>4. halt'.pc = "list" /\ halt'.reply = Reply(r)
      BY <1>0, <2>1, <3>2 DEF Halt
    <3> QED BY <3>1, <3>2, <3>3, <3>4, ReplyType, SameRunsUnchanged
  <2>2. CASE ServeHalt /\ halt.pc # "list"
    <3>1. /\ halt' = [halt EXCEPT !.reply = Reply(halt.run)]
          /\ runs' = StopRun(halt.run) /\ halt.pc = "stop"
      BY <1>0, <2>2 DEF ServeHalt, Halt
    <3>2. halt.run \in Created
      BY <3>1 DEF OnceInv, Known
    <3>3. halt'.pc = "stop" /\ halt'.run = halt.run
      BY <1>0, <3>1 DEF Halt
    <3> QED BY <1>0, <3>1, <3>2, <3>3, StopRunSame
  <2>3. CASE HaltAnswered
    <3>1. UNCHANGED runs
      BY <2>3 DEF HaltAnswered
    <3>2. \/ halt' = NoHalt
          \/ /\ halt.pc = "list" /\ halt.reply.kind = "run" /\ halt.reply.run # 0
             /\ halt' = [halt EXCEPT !.pc = "stop", !.reply = Waiting,
                                     !.run = halt.reply.run]
      BY <2>3 DEF HaltAnswered
    <3>3. CASE halt' = NoHalt
      BY <3>1, <3>3, NoHaltType, SameRunsUnchanged
    <3>4. CASE /\ halt.pc = "list" /\ halt.reply.kind = "run" /\ halt.reply.run # 0
               /\ halt' = [halt EXCEPT !.pc = "stop", !.reply = Waiting,
                                       !.run = halt.reply.run]
      <4>1. halt'.pc = "stop" /\ halt'.run = halt.reply.run
        BY <1>0, <3>4 DEF Halt
      <4>2. halt.reply.run \in Created
        BY <3>4 DEF OnceInv, Known
      <4> QED BY <3>1, <4>1, <4>2, SameRunsUnchanged
    <3> QED BY <3>2, <3>3, <3>4
  <2>4. CASE LoseHalt
    <3>1. halt' = [halt EXCEPT !.reply = Failed] /\ UNCHANGED runs
      BY <2>4 DEF LoseHalt
    <3>2. halt'.pc = halt.pc /\ halt'.run = halt.run /\ halt'.reply = Failed
      BY <1>0, <3>1 DEF Halt
    <3> QED BY <3>1, <3>2, WaitingFailed, SameRunsUnchanged DEF OnceInv, Known
  <2> QED BY <2>1, <2>2, <2>3, <2>4
<1> QED BY <1>1, <1>2, OthersOnce

LEMMA NextOnce ==
  TaskInv /\ (left \/ OnceInv) /\ [TaskNext]_taskVars => (left \/ OnceInv)'
<1> SUFFICES ASSUME TaskInv, left \/ OnceInv, [TaskNext]_taskVars
             PROVE  (left \/ OnceInv)'
  OBVIOUS
<1>0. CASE left
  <2>1. left' = left \/ left' = TRUE
    BY DEF TaskNext, taskVars, Submit, AnswerSubmit, ServeSubmit, SubmitListed,
           SubmitAccepted, SubmitStopped, SubmitFailed, Succeed, LoseSubmit,
           PressStop, AnswerHalt, ServeHalt, HaltAnswered, LoseHalt, Leave,
           Return, Observe, ReportAgain, Report, Resume, Work
  <2> QED BY <1>0, <2>1
<1>1. CASE OnceInv /\ \E t \in Texts : Submit(t)
  BY <1>1, SubmitOnce
<1>2. CASE OnceInv /\ \E i \in InputIds : AnswerSubmit(i) \/ LoseSubmit(i)
  BY <1>2, ServeSubmitOnce, SubmitListedOnce, SubmitAcceptedOnce,
     SubmitFailedOnce, LoseSubmitOnce DEF AnswerSubmit
<1>3. CASE OnceInv /\ (PressStop \/ AnswerHalt \/ LoseHalt)
  BY <1>3, PressStopOnce, HaltOnce DEF AnswerHalt
<1>4. CASE Leave
  BY <1>4 DEF Leave
<1>5. CASE OnceInv /\ Return
  BY <1>5 DEF Return, OnceInv, Alone
<1>6. CASE /\ OnceInv
           /\ Observe \/ ReportAgain \/ Resume \/ \E r \in RunIds : Work(r)
  BY <1>6, RunsOnce
<1>7. CASE OnceInv /\ UNCHANGED taskVars
  BY <1>7, RunStepOnce, SameRunsUnchanged DEF taskVars
<1> QED BY <1>0, <1>1, <1>2, <1>3, <1>4, <1>5, <1>6, <1>7 DEF TaskNext

LEMMA OnceRecorded ==
  ASSUME Owned, NEW i \in InputIds
  PROVE  Cardinality({r \in Created : i \in runs[r].inbox}) <= 1
<1> DEFINE S == {r \in Created : i \in runs[r].inbox}
<1>1. ASSUME NEW r \in S, NEW q \in S PROVE r = q
  <2>1. r # 0 /\ q # 0
    BY DEF Created, RunIds
  <2>2. /\ runs[r].request = i \/ inputs[i].run = r
        /\ runs[q].request = i \/ inputs[i].run = q
    BY DEF Owned
  <2>3. inputs[i].run # 0 => runs[r].request # i /\ runs[q].request # i
    BY DEF Owned
  <2>4. runs[r].request = i /\ runs[q].request = i => r = q
    BY DEF Owned
  <2> QED BY <2>1, <2>2, <2>3, <2>4
<1>2. CASE S = {}
  BY <1>2, FS_EmptySet
<1>3. CASE S # {}
  <2>1. PICK r \in S : S = {r}
    BY <1>1, <1>3
  <2> QED BY <2>1, FS_Singleton
<1> QED BY <1>2, <1>3

(* As long as the user stays in the session, no message is in two runs:      *)
(* neither a lost answer nor a retry, a stop or a run that ends meanwhile    *)
(* sends it to another run than before (useDevelopmentRun.ts:149-161).       *)
THEOREM MessagesAreRecordedOnce == TaskSpec => []RecordedOnce
<1>1. TaskInit => left \/ OnceInv
  BY InitOnce
<1>2. left \/ OnceInv => RecordedOnce
  BY OnceRecorded DEF OnceInv, RecordedOnce
<1> QED BY <1>1, <1>2, NextOnce, InvHolds, PTL DEF TaskSpec

=============================================================================
