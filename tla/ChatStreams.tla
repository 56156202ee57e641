----------------------------- MODULE ChatStreams -----------------------------
(* The conversations of the Studio's chat page (App.tsx): which session is   *)
(* shown, the reply streams that run in each of them, the controller that    *)
(* can stop a stream, and the transcript that streams, the history and the   *)
(* persisted transcript all write.  The backend saves a message with its     *)
(* reply.                                                                    *)
(*                                                                           *)
(* An await is a step boundary: a handler goes on later, on state that other *)
(* handlers changed meanwhile.  Session Old exists with a history when the   *)
(* page opens; the others are created by the first message of a new chat.    *)
(* A transcript is a sequence of turns: a message, the call whose final      *)
(* event completed its reply (None while there is none: meta.eventId), and   *)
(* whether the page made the turn or the history (meta.localId).             *)
EXTENDS Naturals, Sequences

CONSTANTS
  Sids,        \* session ids the backend may hand out
  Old,         \* the one that exists at the start
  MaxCalls,    \* calls of send, onAuth and applyTurnControl
  None,        \* no session, no transcript
  Asked        \* a getSession the backend has not answered yet

ASSUME ChatBounds ==
  /\ Old \in Sids /\ MaxCalls \in Nat
  /\ None \notin Sids /\ None \notin 0..MaxCalls

Calls == 1..MaxCalls
NoCall == 0
History == 0    \* the message of Old's history

VARIABLES
  exists,         \* sessions the backend has
  saved,          \* the transcript the backend has of each session
  current,        \* sessionId: the session shown, None in a new chat
  creating,       \* creatingSessionRef holds a promise
  initializing,   \* initializingSession
  calls,          \* the calls that stream, in the order they were made
  aborts,         \* streamAbortsRef: the call whose controller a session has
  streamingSids,  \* the sessions shown as streaming
  turns,          \* turnsBySession
  loads,          \* pickSession's getSession: none, asked, or what it read
  reads,          \* refreshSessionTranscript's getSession, by call
  removal         \* the session being removed, and whether it was shown

chatVars == <<exists, saved, current, creating, initializing, calls, aborts,
              streamingSids, turns, loads, reads, removal>>

Turn(m, reply, local) == [msg |-> m, reply |-> reply, local |-> local]
Shown(t) == IF t = None THEN <<>> ELSE t
Messages(t) == {t[k].msg : k \in DOMAIN t}
FreeCall == [pc |-> "free", sid |-> None, kind |-> "send", aborted |-> FALSE,
             msg |-> NoCall, local |-> TRUE]
Live(m) == calls[m].pc = "live"
NoRemoval == [sid |-> None, shown |-> FALSE]

ConversationBusy == current \in streamingSids \/ initializing

(* Every variable keeps to its domain; no two turns of a transcript have the *)
(* same identity, by which streams find the turn they write.                 *)
ChatTypeOK ==
  /\ exists \subseteq Sids /\ streamingSids \subseteq Sids
  /\ current \in Sids \cup {None}
  /\ creating \in BOOLEAN /\ initializing \in BOOLEAN
  /\ calls \in [Calls -> [pc : {"free", "creating", "asking", "live", "over"},
                          sid : Sids \cup {None}, aborted : BOOLEAN,
                          kind : {"send", "auth", "resume"},
                          msg : Calls \cup {History}, local : BOOLEAN]]
  /\ aborts \in [Sids -> Calls \cup {NoCall}]
  /\ removal \in [sid : Sids \cup {None}, shown : BOOLEAN]
  /\ \A s \in Sids :
       \A j, k \in DOMAIN Shown(turns[s]) :
         /\ turns[s][j].msg \in Calls \cup {History}
         /\ turns[s][j].reply \in Calls \cup {History, None}
         /\ /\ turns[s][j].msg = turns[s][k].msg
            /\ turns[s][j].local = turns[s][k].local
            => j = k

ChatInit ==
  /\ exists = {Old}
  /\ saved = [s \in Sids |-> IF s = Old THEN <<Turn(History, History, FALSE)>> ELSE <<>>]
  /\ current = None /\ creating = FALSE /\ initializing = FALSE
  /\ calls = [m \in Calls |-> FreeCall]
  /\ aborts = [s \in Sids |-> NoCall]
  /\ streamingSids = {}
  /\ turns = [s \in Sids |-> None]
  /\ loads = [s \in Sids |-> None]
  /\ reads = [m \in Calls |-> None]
  /\ removal = NoRemoval

------------------------------------------------------------------------------
(* Streams.                                                                  *)

NextCall(m) == calls[m].pc = "free" /\ \A k \in 1..(m - 1) : calls[k].pc # "free"

(* send in a session: the optimistic turns and the stream start at once.     *)
SendHere(m) ==
  LET s == current
  IN /\ s # None /\ ~ConversationBusy /\ NextCall(m)
     /\ calls' = [calls EXCEPT ![m] =
          [FreeCall EXCEPT !.pc = "live", !.sid = s, !.msg = m]]
     /\ turns' = [turns EXCEPT ![s] = Shown(@) \o <<Turn(m, None, TRUE)>>]
     /\ aborts' = [aborts EXCEPT ![s] = m]
     /\ streamingSids' = streamingSids \cup {s}
     /\ UNCHANGED <<exists, saved, current, creating, initializing, loads,
                    reads, removal>>

(* send in a new chat: ensureSession asks for a session, or waits for the    *)
(* one that another call asked for.                                          *)
SendNew(m) ==
  /\ current = None /\ ~ConversationBusy /\ NextCall(m)
  /\ calls' = [calls EXCEPT ![m] =
       [FreeCall EXCEPT !.pc = "creating", !.msg = m]]
  /\ creating' = TRUE /\ initializing' = TRUE
  /\ UNCHANGED <<exists, saved, current, aborts, streamingSids, turns, loads,
                 reads, removal>>

Waiters == {m \in Calls : calls[m].pc = "creating"}

(* The new session's id reaches every call that waits for it, one after the  *)
(* other: the transcript and the controller are those of the last one.       *)
CreateSession(s) ==
  LET last == CHOOSE m \in Waiters : \A k \in Waiters : k <= m
  IN /\ creating /\ s \notin exists /\ saved[s] = <<>> /\ turns[s] = None
     /\ creating' = FALSE /\ initializing' = FALSE
     /\ exists' = exists \cup {s}
     /\ current' = s
     /\ calls' = [m \in Calls |->
          IF m \in Waiters THEN [calls[m] EXCEPT !.pc = "live", !.sid = s]
          ELSE calls[m]]
     /\ turns' = [turns EXCEPT ![s] = <<Turn(last, None, TRUE)>>]
     /\ aborts' = [aborts EXCEPT ![s] = last]
     /\ streamingSids' = streamingSids \cup {s}
     /\ UNCHANGED <<saved, loads, reads, removal>>

CreateSessionFails ==
  /\ creating
  /\ creating' = FALSE /\ initializing' = FALSE
  /\ calls' = [m \in Calls |->
       IF m \in Waiters THEN [calls[m] EXCEPT !.pc = "over"] ELSE calls[m]]
  /\ UNCHANGED <<exists, saved, current, aborts, streamingSids, turns, loads,
                 reads, removal>>

AbortOf(s) ==
  IF aborts[s] = NoCall THEN calls
  ELSE [calls EXCEPT ![aborts[s]].aborted = TRUE]

(* onAuth waits for its popup and applyTurnControl for the runtime's answer; *)
(* both keep the session of the click while the page goes on.  The stream    *)
(* that follows an authorization writes the turn that was last then; a       *)
(* resumed turn is a new one.                                                *)
Ask(m, kind) ==
  LET shown == Shown(turns[current])
      turn == IF kind = "auth" THEN shown[Len(shown)] ELSE Turn(m, None, TRUE)
  IN /\ current # None /\ turns[current] \notin {None, <<>>} /\ NextCall(m)
     /\ calls' = [calls EXCEPT ![m] =
          [FreeCall EXCEPT !.pc = "asking", !.sid = current, !.kind = kind,
                           !.msg = turn.msg, !.local = turn.local]]
     /\ UNCHANGED <<exists, saved, current, creating, initializing, aborts,
                    streamingSids, turns, loads, reads, removal>>

(* The answer came: the resumed run streams into the session.  A turn that   *)
(* needs a new stream to go on has its old one aborted first.                *)
Resumed(m) ==
  LET s == calls[m].sid
      others == IF calls[m].kind = "resume" THEN AbortOf(s) ELSE calls
  IN /\ calls[m].pc = "asking"
     /\ calls' = [others EXCEPT ![m].pc = "live"]
     /\ aborts' = [aborts EXCEPT ![s] = m]
     /\ streamingSids' = streamingSids \cup {s}
     /\ UNCHANGED <<exists, saved, current, creating, initializing, turns,
                    loads, reads, removal>>

(* The popup was closed, or the turn was resumed where it was.               *)
NothingToStream(m) ==
  /\ calls[m].pc = "asking"
  /\ calls' = [calls EXCEPT ![m].pc = "over"]
  /\ UNCHANGED <<exists, saved, current, creating, initializing, aborts,
                 streamingSids, turns, loads, reads, removal>>

(* Mutation: a turn that is always appended.                                 *)
UpsertAtEnd(t, m, reply) ==
  Shown(t) \o <<Turn(calls[m].msg, reply, calls[m].local)>>

(* The projector's turn takes the place of the one it has the identity of,   *)
(* or is appended.                                                           *)
Upsert(t, m, reply) ==
  LET turn == Turn(calls[m].msg, reply, calls[m].local)
      Same(old) == old.msg = turn.msg /\ old.local = turn.local
  IN IF \E k \in DOMAIN Shown(t) : Same(t[k])
     THEN [k \in DOMAIN t |-> IF Same(t[k]) THEN turn ELSE t[k]]
     ELSE Append(Shown(t), turn)

(* The backend's transcript after call m completed its reply.                *)
Persisted(t, m) ==
  IF calls[m].msg \in Messages(t)
  THEN [k \in DOMAIN t |-> IF t[k].msg = calls[m].msg
                           THEN [t[k] EXCEPT !.reply = m] ELSE t[k]]
  ELSE Append(t, Turn(calls[m].msg, m, FALSE))

(* An event of the stream: its turn is there, without a final event.         *)
Project(m) ==
  /\ Live(m) /\ ~calls[m].aborted
  /\ turns' = [turns EXCEPT ![calls[m].sid] = Upsert(@, m, None)]
  /\ UNCHANGED <<exists, saved, current, creating, initializing, calls, aborts,
                 streamingSids, loads, reads, removal>>

(* The finally of a call: only the owner of the session's controller drops   *)
(* it; onAuth clears the session's streaming state in any case.              *)
OwnerNotAborted(m) == aborts[calls[m].sid] = m /\ ~calls[m].aborted \* mutation
Owner(m) == aborts[calls[m].sid] = m

(* Mutation: the controller is dropped whoever owns it.                      *)
ReleaseAnyway(m) ==
  LET s == calls[m].sid
  IN /\ aborts' = [aborts EXCEPT ![s] = NoCall]
     /\ streamingSids' = IF Owner(m) \/ calls[m].kind = "auth"
                         THEN streamingSids \ {s} ELSE streamingSids
     /\ calls' = [calls EXCEPT ![m].pc = "over"]

Release(m) ==
  LET s == calls[m].sid
  IN /\ aborts' = IF Owner(m) THEN [aborts EXCEPT ![s] = NoCall] ELSE aborts
     /\ streamingSids' = IF Owner(m) \/ calls[m].kind = "auth"
                         THEN streamingSids \ {s} ELSE streamingSids
     /\ calls' = [calls EXCEPT ![m].pc = "over"]

(* The stream ends with a reply: the backend has it, and the page asks for   *)
(* the persisted transcript.                                                 *)
EndWithReply(m) ==
  LET s == calls[m].sid
  IN /\ Live(m) /\ ~calls[m].aborted /\ s \in exists
     /\ Release(m)
     /\ turns' = [turns EXCEPT ![s] = Upsert(@, m, m)]
     /\ saved' = [saved EXCEPT ![s] = Persisted(@, m)]
     /\ reads' = [reads EXCEPT ![m] = Asked]
     /\ UNCHANGED <<exists, current, creating, initializing, loads, removal>>

(* It fails, ends without a reply, or was aborted: the turn is committed     *)
(* without an event id.                                                      *)
EndWithout(m) ==
  /\ Live(m)
  /\ Release(m)
  /\ turns' = [turns EXCEPT ![calls[m].sid] = Upsert(@, m, None)]
  /\ UNCHANGED <<exists, saved, current, creating, initializing, loads, reads,
                 removal>>

(* The stop button.                                                          *)
StopGeneration ==
  /\ current \in streamingSids
  /\ calls' = AbortOf(current)
  /\ UNCHANGED <<exists, saved, current, creating, initializing, aborts,
                 streamingSids, turns, loads, reads, removal>>

------------------------------------------------------------------------------
(* The page.                                                                 *)

NewChat ==
  /\ current' = None /\ initializing' = FALSE
  /\ UNCHANGED <<exists, saved, creating, calls, aborts, streamingSids, turns,
                 loads, reads, removal>>

(* pickSession: a cached transcript is shown as it is, another is loaded.    *)
PickSession(s) ==
  /\ s \in exists /\ (s = current => turns[s] = None)
  /\ current' = s /\ initializing' = FALSE
  /\ loads' = IF turns[s] = None THEN [loads EXCEPT ![s] = Asked] ELSE loads
  /\ UNCHANGED <<exists, saved, creating, calls, aborts, streamingSids, turns,
                 reads, removal>>

(* getSession reads at the backend; its answer comes later and is stored     *)
(* whatever the page did in between.                                         *)
ReadForLoad(s) ==
  /\ loads[s] = Asked
  /\ loads' = [loads EXCEPT ![s] = IF s \in exists THEN saved[s] ELSE None]
  /\ UNCHANGED <<exists, saved, current, creating, initializing, calls, aborts,
                 streamingSids, turns, reads, removal>>

HistoryLoaded(s) ==
  /\ loads[s] \notin {None, Asked}
  /\ turns' = [turns EXCEPT ![s] = loads[s]]
  /\ loads' = [loads EXCEPT ![s] = None]
  /\ UNCHANGED <<exists, saved, current, creating, initializing, calls, aborts,
                 streamingSids, reads, removal>>

(* refreshSessionTranscript after a reply.                                   *)
ReadForReconcile(m) ==
  LET s == calls[m].sid
  IN /\ reads[m] = Asked
     /\ reads' = [reads EXCEPT ![m] = IF s \in exists THEN saved[s] ELSE None]
     /\ UNCHANGED <<exists, saved, current, creating, initializing, calls,
                    aborts, streamingSids, turns, loads, removal>>

(* Mutation: whatever was sent meanwhile.                                    *)
ReconciledAlways(t, persisted, m) ==
  IF \E k \in DOMAIN persisted : persisted[k].reply = m THEN persisted ELSE t

(* reconcilePersistedTranscript: the persisted transcript replaces the local *)
(* one only when it has the reply and that reply is still the last one here. *)
Reconciled(t, persisted, m) ==
  IF /\ \E k \in DOMAIN persisted : persisted[k].reply = m
     /\ t \notin {None, <<>>} /\ t[Len(t)].reply = m
  THEN persisted ELSE t

Reconcile(m) ==
  LET s == calls[m].sid
  IN /\ reads[m] \notin {None, Asked}
     /\ turns' = [turns EXCEPT ![s] = Reconciled(@, reads[m], m)]
     /\ reads' = [reads EXCEPT ![m] = None]
     /\ UNCHANGED <<exists, saved, current, creating, initializing, calls,
                    aborts, streamingSids, loads, removal>>

(* removeSession: the stream is aborted first, the transcript goes when the  *)
(* backend has deleted the session.                                          *)
RemoveSession(s) ==
  /\ removal = NoRemoval /\ s \in exists
  /\ removal' = [sid |-> s, shown |-> s = current]
  /\ calls' = AbortOf(s)
  /\ UNCHANGED <<exists, saved, current, creating, initializing, aborts,
                 streamingSids, turns, loads, reads>>

SessionRemoved ==
  /\ removal # NoRemoval
  /\ removal' = NoRemoval
  /\ \/ /\ exists' = exists \ {removal.sid}
        /\ turns' = [turns EXCEPT ![removal.sid] = None]
        /\ IF removal.shown
           THEN current' = None /\ initializing' = FALSE
           ELSE UNCHANGED <<current, initializing>>
     \/ UNCHANGED <<exists, turns, current, initializing>>
  /\ UNCHANGED <<saved, creating, calls, aborts, streamingSids, loads, reads>>

EndStream(m) == EndWithReply(m) \/ EndWithout(m)
EndCreation == CreateSessionFails \/ \E s \in Sids : CreateSession(s)

ChatNext ==
  \/ \E m \in Calls : \/ SendHere(m) \/ SendNew(m)
                      \/ Ask(m, "auth") \/ Ask(m, "resume")
                      \/ Resumed(m) \/ NothingToStream(m)
                      \/ Project(m) \/ EndStream(m)
                      \/ ReadForReconcile(m) \/ Reconcile(m)
  \/ EndCreation
  \/ \E s \in Sids : \/ PickSession(s) \/ ReadForLoad(s) \/ HistoryLoaded(s)
                     \/ RemoveSession(s)
  \/ StopGeneration \/ NewChat \/ SessionRemoved

(* A stream ends, by its server or with its connection, and createSession is *)
(* answered.                                                                 *)
ChatFairness ==
  /\ \A m \in Calls : WF_chatVars(EndStream(m))
  /\ WF_chatVars(EndCreation)

ChatSpec == ChatInit /\ [][ChatNext]_chatVars /\ ChatFairness

------------------------------------------------------------------------------
(* The stop button works wherever it is shown: a session shown as streaming  *)
(* has a registered controller, and it belongs to a stream of that session   *)
(* that is still running (App.tsx:1594-1607, 5715-5719).                     *)
StreamingIsStoppable ==
  \A s \in streamingSids :
    aborts[s] # NoCall /\ Live(aborts[s]) /\ calls[aborts[s]].sid = s

(* The messages after the last completed reply of a transcript.              *)
Unanswered(t) ==
  {t[k].msg : k \in {j \in DOMAIN t : \A i \in j..Len(t) : t[i].reply = None}}

(* A message still waiting for its answer does not vanish from the page,     *)
(* unless its history is loaded or the session is removed: neither the end   *)
(* of another stream nor a late reconciliation with an earlier reply drops   *)
(* it (transcriptReconcile.ts, App.tsx:3844-3865).                           *)
UnansweredStay ==
  [][\A s \in Sids :
       \/ Unanswered(Shown(turns[s])) \subseteq Messages(Shown(turns'[s]))
       \/ HistoryLoaded(s) \/ turns'[s] = None]_chatVars

(* The composer is unlocked again, in every session, however streams,        *)
(* aborts, authorizations and new chats overlap (the user sends at most      *)
(* MaxCalls messages).                                                       *)
Locked == initializing \/ streamingSids # {}
ComposerUnlocks == []<>~Locked

=============================================================================
