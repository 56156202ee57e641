-------------------------- MODULE ChatStreamsProofs --------------------------
(* The safety properties of the chat page (ChatStreams), for any number of   *)
(* sessions and calls.                                                       *)
EXTENDS ChatStreams, WellFoundedInduction, TLAPS

USE ChatBounds

Call == [pc : {"free", "creating", "asking", "live", "over"},
         sid : Sids \cup {None}, aborted : BOOLEAN,
         kind : {"send", "auth", "resume"},
         msg : Calls \cup {History}, local : BOOLEAN]

Turns == [msg : Calls \cup {History}, reply : Calls \cup {History, None},
          local : BOOLEAN]

(* The messages that exist: those of the history and of the calls made.      *)
Used == {History} \cup {m \in Calls : calls[m].pc # "free"}

(* A transcript of existing messages in which no two turns have the same     *)
(* identity.                                                                 *)
Transcripts(used) ==
  {t \in Seq(Turns) :
     /\ \A j \in DOMAIN t : t[j].msg \in used
     /\ \A j, k \in DOMAIN t :
          t[j].msg = t[k].msg /\ t[j].local = t[k].local => j = k}

PageTypes ==
  /\ exists \subseteq Sids /\ streamingSids \subseteq Sids
  /\ current \in Sids \cup {None}
  /\ creating \in BOOLEAN /\ initializing \in BOOLEAN
  /\ calls \in [Calls -> Call]
  /\ aborts \in [Sids -> Calls \cup {NoCall}]
  /\ removal \in [sid : Sids \cup {None}, shown : BOOLEAN]

(* What is shown, saved and still to be answered are transcripts.            *)
TranscriptsInv ==
  /\ saved \in [Sids -> Transcripts(Used)]
  /\ turns \in [Sids -> Transcripts(Used) \cup {None}]
  /\ loads \in [Sids -> Transcripts(Used) \cup {None, Asked}]
  /\ reads \in [Calls -> Transcripts(Used) \cup {None, Asked}]

(* A call writes a message that exists, and streams into a session; whoever  *)
(* has a session's controller streams into that session, and a session that  *)
(* is shown as streaming has one.                                            *)
CallsInv ==
  /\ \A m \in Calls : /\ calls[m].pc # "free" => calls[m].msg \in Used
                      /\ calls[m].pc \in {"asking", "live"} => calls[m].sid \in Sids
  /\ creating => Waiters # {}

OwnersInv ==
  /\ \A s \in Sids : aborts[s] # NoCall =>
       Live(aborts[s]) /\ calls[aborts[s]].sid = s
  /\ \A s \in streamingSids : aborts[s] # NoCall

ChatInv == PageTypes /\ TranscriptsInv /\ CallsInv /\ OwnersInv

------------------------------------------------------------------------------
(* Transcripts.                                                              *)

LEMMA CallsAreNumbers ==
  Calls \subseteq Nat /\ History \notin Calls /\ NoCall \notin Calls
BY DEF Calls, History, NoCall

LEMMA TurnType ==
  ASSUME NEW m \in Calls \cup {History}, NEW r \in Calls \cup {History, None},
         NEW l \in BOOLEAN
  PROVE  /\ Turn(m, r, l) \in Turns
         /\ Turn(m, r, l).msg = m /\ Turn(m, r, l).reply = r /\ Turn(m, r, l).local = l
BY DEF Turn, Turns

LEMMA MoreMessages ==
  ASSUME NEW u, NEW v, u \subseteq v
  PROVE  Transcripts(u) \subseteq Transcripts(v)
BY DEF Transcripts

LEMMA EmptyTranscript ==
  ASSUME NEW u
  PROVE  <<>> \in Transcripts(u)
BY DEF Transcripts

LEMMA OneTurn ==
  ASSUME NEW u, NEW x \in Turns, x.msg \in u
  PROVE  <<x>> \in Transcripts(u)
<1>1. /\ <<x>> \in Seq(Turns) /\ DOMAIN <<x>> = {1} /\ <<x>>[1] = x
  OBVIOUS
<1> QED BY <1>1 DEF Transcripts

LEMMA AppendNew ==
  ASSUME NEW u, NEW t \in Transcripts(u), NEW x \in Turns, x.msg \in u,
         \A j \in DOMAIN t : ~(t[j].msg = x.msg /\ t[j].local = x.local)
  PROVE  /\ Append(t, x) \in Transcripts(u)
         /\ t \o <<x>> = Append(t, x)
         /\ Messages(t) \subseteq Messages(Append(t, x))
<1>1. t \in Seq(Turns) /\ DOMAIN t = 1..Len(t) /\ Len(t) \in Nat
  BY DEF Transcripts
<1> DEFINE y == Append(t, x)
<1>2. /\ y \in Seq(Turns) /\ DOMAIN y = 1..(Len(t) + 1)
      /\ \A j \in 1..Len(t) : y[j] = t[j]
      /\ y[Len(t) + 1] = x
  BY <1>1
<1> HIDE DEF y
<1>3. \A j \in DOMAIN y : \/ j \in DOMAIN t /\ y[j] = t[j]
                          \/ j = Len(t) + 1 /\ y[j] = x
  BY <1>1, <1>2
<1>4. /\ \A j \in DOMAIN y : y[j].msg \in u
      /\ \A j, k \in DOMAIN y :
           y[j].msg = y[k].msg /\ y[j].local = y[k].local => j = k
  BY <1>3 DEF Transcripts
<1>5. y \in Transcripts(u)
  BY <1>2, <1>4 DEF Transcripts
<1>6. Messages(t) \subseteq Messages(y)
  BY <1>1, <1>2 DEF Messages
<1> QED BY <1>1, <1>5, <1>6 DEF y

(* Turns that are replaced by turns with the same identity.                  *)
LEMMA SameIdentities ==
  ASSUME NEW u, NEW t \in Transcripts(u), NEW y, DOMAIN y = DOMAIN t,
         y = [k \in DOMAIN t |-> y[k]],
         \A k \in DOMAIN t : /\ y[k] \in Turns
                             /\ y[k].msg = t[k].msg /\ y[k].local = t[k].local
  PROVE  y \in Transcripts(u) /\ Messages(y) = Messages(t)
<1>1. t \in Seq(Turns) /\ DOMAIN t = 1..Len(t) /\ Len(t) \in Nat
  BY DEF Transcripts
<1>2. y \in [1..Len(t) -> Turns]
  BY <1>1
<1>3. y \in Seq(Turns)
  BY <1>1, <1>2
<1>4. Messages(y) = Messages(t)
  BY DEF Messages
<1> QED BY <1>3, <1>4 DEF Transcripts

LEMMA ShownType ==
  ASSUME NEW u, NEW t \in Transcripts(u) \cup {None}
  PROVE  Shown(t) \in Transcripts(u) /\ (t # None => Shown(t) = t)
BY EmptyTranscript DEF Shown

(* The projector's turn keeps a transcript one, and every message in it.     *)
LEMMA UpsertKeeps ==
  ASSUME PageTypes, NEW u, NEW t \in Transcripts(u) \cup {None}, NEW m \in Calls,
         calls[m].msg \in u, NEW r \in Calls \cup {None}
  PROVE  /\ Upsert(t, m, r) \in Transcripts(u)
         /\ Messages(Shown(t)) \subseteq Messages(Upsert(t, m, r))
<1> DEFINE x == Turn(calls[m].msg, r, calls[m].local)
           Same(old) == old.msg = x.msg /\ old.local = x.local
           y == [k \in DOMAIN t |-> IF Same(t[k]) THEN x ELSE t[k]]
<1>1. x \in Turns /\ x.msg = calls[m].msg
  <2>1. calls[m].msg \in Calls \cup {History} /\ calls[m].local \in BOOLEAN
    BY DEF PageTypes, Call
  <2> QED BY <2>1, TurnType
<1>2. Shown(t) \in Transcripts(u) /\ (t # None => Shown(t) = t)
  BY ShownType
<1>3. CASE \E k \in DOMAIN Shown(t) : Same(t[k])
  <2>1. t # None
    BY <1>3 DEF Shown
  <2>2. t \in Transcripts(u) /\ t \in Seq(Turns) /\ Shown(t) = t
    BY <1>2, <2>1 DEF Transcripts
  <2>3. \A k \in DOMAIN t : t[k] \in Turns
    BY <2>2
  <2>4. \A k \in DOMAIN t : /\ y[k] \in Turns
                            /\ y[k].msg = t[k].msg /\ y[k].local = t[k].local
    BY <1>1, <2>3
  <2>5. DOMAIN y = DOMAIN t /\ y = [k \in DOMAIN t |-> y[k]]
    OBVIOUS
  <2>6. Upsert(t, m, r) = y
    BY <1>3 DEF Upsert
  <2> HIDE DEF y
  <2> QED BY <2>2, <2>4, <2>5, <2>6, SameIdentities
<1>4. CASE ~\E k \in DOMAIN Shown(t) : Same(t[k])
  <2>1. Upsert(t, m, r) = Append(Shown(t), x)
    BY <1>4 DEF Upsert
  <2>2. \A k \in DOMAIN Shown(t) : ~Same(Shown(t)[k])
    BY <1>2, <1>4 DEF Shown
  <2> HIDE DEF x
  <2> QED BY <1>1, <1>2, <2>1, <2>2, AppendNew
<1> QED BY <1>3, <1>4

LEMMA PersistedKeeps ==
  ASSUME PageTypes, NEW u, NEW t \in Transcripts(u), NEW m \in Calls,
         calls[m].msg \in u
  PROVE  Persisted(t, m) \in Transcripts(u)
<1> DEFINE x == Turn(calls[m].msg, m, FALSE)
           y == [k \in DOMAIN t |-> IF t[k].msg = calls[m].msg
                                    THEN [t[k] EXCEPT !.reply = m] ELSE t[k]]
<1>1. x \in Turns /\ x.msg = calls[m].msg
  BY TurnType DEF PageTypes, Call
<1>2. t \in Seq(Turns) /\ \A k \in DOMAIN t : t[k] \in Turns
  BY DEF Transcripts
<1>3. CASE calls[m].msg \in Messages(t)
  <2>1. \A k \in DOMAIN t : /\ y[k] \in Turns
                            /\ y[k].msg = t[k].msg /\ y[k].local = t[k].local
    BY <1>2 DEF Turns
  <2>2. DOMAIN y = DOMAIN t /\ y = [k \in DOMAIN t |-> y[k]]
    OBVIOUS
  <2>3. Persisted(t, m) = y
    BY <1>3 DEF Persisted
  <2> HIDE DEF y
  <2> QED BY <2>1, <2>2, <2>3, SameIdentities
<1>4. CASE calls[m].msg \notin Messages(t)
  <2>1. \A j \in DOMAIN t : t[j].msg # x.msg
    BY <1>1, <1>4 DEF Messages
  <2>2. Persisted(t, m) = Append(t, x)
    BY <1>4 DEF Persisted
  <2> HIDE DEF x
  <2> QED BY <1>1, <2>1, <2>2, AppendNew
<1> QED BY <1>3, <1>4

------------------------------------------------------------------------------
(* Calls.                                                                    *)

LEMMA Grow ==
  ASSUME TranscriptsInv, Used \subseteq Used'
  PROVE  /\ Transcripts(Used) \subseteq Transcripts(Used')
         /\ saved \in [Sids -> Transcripts(Used')]
         /\ turns \in [Sids -> Transcripts(Used') \cup {None}]
         /\ loads \in [Sids -> Transcripts(Used') \cup {None, Asked}]
         /\ reads \in [Calls -> Transcripts(Used') \cup {None, Asked}]
<1>1. Transcripts(Used) \subseteq Transcripts(Used')
  BY MoreMessages
<1> QED BY <1>1 DEF TranscriptsInv

LEMMA TranscriptsStay ==
  ASSUME TranscriptsInv, Used \subseteq Used', UNCHANGED <<saved, turns, loads, reads>>
  PROVE  TranscriptsInv'
BY Grow DEF TranscriptsInv

(* Call k is where it was; it may have been aborted.                         *)
Stays(k) ==
  /\ calls'[k].pc = calls[k].pc
  /\ calls'[k].sid = calls[k].sid
  /\ calls'[k].msg = calls[k].msg

LEMMA AbortStays ==
  ASSUME ChatInv, NEW s \in Sids
  PROVE  /\ AbortOf(s) \in [Calls -> Call]
         /\ \A k \in Calls : /\ AbortOf(s)[k].pc = calls[k].pc
                             /\ AbortOf(s)[k].sid = calls[k].sid
                             /\ AbortOf(s)[k].msg = calls[k].msg
                             /\ AbortOf(s)[k].kind = calls[k].kind
<1>1. calls \in [Calls -> Call]
  BY DEF ChatInv, PageTypes
<1>2. CASE aborts[s] = NoCall
  BY <1>1, <1>2 DEF AbortOf
<1>3. CASE aborts[s] # NoCall
  <2>1. aborts[s] \in Calls
    BY <1>3 DEF ChatInv, PageTypes
  <2> DEFINE c == [calls[aborts[s]] EXCEPT !.aborted = TRUE]
  <2>2. AbortOf(s) = [calls EXCEPT ![aborts[s]] = c]
    BY <1>1, <1>3, <2>1 DEF AbortOf
  <2>3. /\ c \in Call /\ c.pc = calls[aborts[s]].pc /\ c.sid = calls[aborts[s]].sid
        /\ c.msg = calls[aborts[s]].msg /\ c.kind = calls[aborts[s]].kind
    BY <1>1, <2>1 DEF Call
  <2> HIDE DEF c
  <2> QED BY <1>1, <2>1, <2>2, <2>3
<1> QED BY <1>2, <1>3

(* No call goes anywhere.                                                    *)
LEMMA AllStay ==
  ASSUME ChatInv, calls' \in [Calls -> Call], \A k \in Calls : Stays(k),
         UNCHANGED <<creating, aborts, streamingSids>>
  PROVE  Used' = Used /\ CallsInv' /\ OwnersInv'
<1>1. Used' = Used
  BY DEF Used, Stays
<1>2. Waiters' = Waiters
  BY DEF Waiters, Stays
<1>3. CallsInv'
  BY <1>1, <1>2 DEF ChatInv, CallsInv, Stays
<1>4. OwnersInv'
  <2>1. ASSUME NEW s \in Sids, aborts[s] # NoCall
        PROVE  aborts[s] \in Calls
    BY <2>1 DEF ChatInv, PageTypes
  <2> QED BY <2>1 DEF ChatInv, OwnersInv, Live, Stays
<1> QED BY <1>1, <1>3, <1>4

LEMMA CallsUnchanged ==
  ASSUME ChatInv, UNCHANGED <<calls, creating, aborts, streamingSids>>
  PROVE  Used' = Used /\ CallsInv' /\ OwnersInv'
BY AllStay DEF ChatInv, PageTypes, Stays

(* Only call m goes on.                                                      *)
LEMMA OneGoes ==
  ASSUME ChatInv, NEW m \in Calls, calls' \in [Calls -> Call],
         \A k \in Calls \ {m} : Stays(k),
         calls'[m].pc # "free", calls'[m].msg \in Used \cup {m},
         calls'[m].pc \in {"asking", "live"} => calls'[m].sid \in Sids,
         creating' => \/ calls'[m].pc = "creating"
                      \/ creating /\ calls[m].pc # "creating"
  PROVE  Used \subseteq Used' /\ CallsInv'
<1>1. Used \subseteq Used' /\ m \in Used'
  BY DEF Used, Stays
<1>2. ASSUME creating' PROVE Waiters' # {}
  <2>1. CASE calls'[m].pc = "creating"
    BY <2>1 DEF Waiters
  <2>2. CASE creating /\ calls[m].pc # "creating"
    <3>1. PICK k \in Calls : calls[k].pc = "creating"
      BY <2>2 DEF ChatInv, CallsInv, Waiters
    <3> QED BY <2>2, <3>1 DEF Waiters, Stays
  <2> QED BY <1>2, <2>1, <2>2
<1>3. ASSUME NEW k \in Calls
      PROVE  /\ calls'[k].pc # "free" => calls'[k].msg \in Used'
             /\ calls'[k].pc \in {"asking", "live"} => calls'[k].sid \in Sids
  BY <1>1 DEF ChatInv, CallsInv, Stays
<1> QED BY <1>1, <1>2, <1>3 DEF CallsInv

(* The controller of one session changes hands.                              *)
LEMMA NewOwner ==
  ASSUME ChatInv, NEW m \in Calls, NEW s \in Sids,
         \A k \in Calls \ {m} : Stays(k),
         calls'[m].pc = "live" /\ calls'[m].sid = s,
         ~Live(m),
         aborts' = [aborts EXCEPT ![s] = m],
         streamingSids' = streamingSids \cup {s}
  PROVE  OwnersInv'
<1>1. ASSUME NEW x \in Sids, aborts'[x] # NoCall
      PROVE  Live(aborts[x])' /\ calls'[aborts'[x]].sid = x
  <2>1. CASE x = s
    BY <2>1 DEF Live, ChatInv, PageTypes
  <2>2. CASE x # s
    <3>1. aborts'[x] = aborts[x] /\ aborts[x] \in Calls
      BY <1>1, <2>2 DEF ChatInv, PageTypes
    <3>2. Live(aborts[x]) /\ calls[aborts[x]].sid = x
      BY <1>1, <3>1 DEF ChatInv, OwnersInv
    <3> QED BY <3>1, <3>2 DEF Live, Stays
  <2> QED BY <2>1, <2>2
<1>2. \A x \in streamingSids' : aborts'[x] # NoCall
  BY CallsAreNumbers DEF ChatInv, PageTypes, OwnersInv
<1> QED BY <1>1, <1>2 DEF OwnersInv, Live

(* A call that is not an owner goes on.                                      *)
LEMMA OwnersStay ==
  ASSUME ChatInv, NEW m \in Calls, ~Live(m), \A k \in Calls \ {m} : Stays(k),
         UNCHANGED <<aborts, streamingSids>>
  PROVE  OwnersInv'
<1>1. ASSUME NEW s \in Sids, aborts[s] # NoCall
      PROVE  aborts[s] \in Calls \ {m}
  <2>1. aborts[s] \in Calls /\ Live(aborts[s])
    BY <1>1 DEF ChatInv, PageTypes, OwnersInv
  <2> QED BY <2>1
<1> QED BY <1>1 DEF ChatInv, OwnersInv, Live, Stays

(* A stream ends.                                                            *)
LEMMA ReleaseKeeps ==
  ASSUME ChatInv, NEW m \in Calls, Live(m), Release(m), UNCHANGED creating
  PROVE  /\ calls' \in [Calls -> Call] /\ aborts' \in [Sids -> Calls \cup {NoCall}]
         /\ streamingSids' \subseteq Sids
         /\ Used \subseteq Used' /\ CallsInv' /\ OwnersInv'
         /\ calls[m].sid \in Sids /\ calls[m].msg \in Used
<1> DEFINE s == calls[m].sid
<1>1. s \in Sids /\ calls[m].msg \in Used /\ calls[m].pc = "live"
  BY DEF ChatInv, CallsInv, Live
<1>2. /\ calls' \in [Calls -> Call]
      /\ \A k \in Calls \ {m} : Stays(k)
      /\ calls'[m].pc = "over" /\ calls'[m].msg = calls[m].msg
  BY DEF ChatInv, PageTypes, Call, Release, Stays
<1>3. aborts' \in [Sids -> Calls \cup {NoCall}] /\ streamingSids' \subseteq Sids
  BY DEF ChatInv, PageTypes, Release
<1>4. Used \subseteq Used' /\ CallsInv'
  BY <1>1, <1>2, OneGoes
<1>5. ASSUME NEW x \in Sids, aborts'[x] # NoCall
      PROVE  Live(aborts[x])' /\ calls'[aborts'[x]].sid = x
  <2>1. aborts'[x] = aborts[x] /\ aborts[x] \in Calls
    BY <1>1, <1>5 DEF ChatInv, PageTypes, Release
  <2>2. Live(aborts[x]) /\ calls[aborts[x]].sid = x
    BY <1>5, <2>1 DEF ChatInv, OwnersInv
  <2>3. aborts[x] # m
    BY <1>1, <1>5, <2>1, <2>2 DEF Release, Owner, ChatInv, PageTypes
  <2> QED BY <1>2, <2>1, <2>2, <2>3 DEF Live, Stays
<1>6. ASSUME NEW x \in streamingSids' PROVE aborts'[x] # NoCall
  <2>1. x \in streamingSids /\ (Owner(m) => x # s)
    BY <1>6 DEF Release
  <2>2. aborts'[x] = aborts[x]
    BY <1>1, <2>1 DEF Release, ChatInv, PageTypes
  <2> QED BY <2>1, <2>2 DEF ChatInv, OwnersInv
<1> QED BY <1>1, <1>2, <1>3, <1>4, <1>5, <1>6 DEF OwnersInv, Live

------------------------------------------------------------------------------
(* The handlers.                                                             *)

LEMMA InitChatInv == ChatInit => ChatInv
<1> SUFFICES ASSUME ChatInit PROVE ChatInv
  OBVIOUS
<1>1. FreeCall \in Call /\ FreeCall.pc = "free"
  BY DEF FreeCall, Call, NoCall, History
<1>2. PageTypes
  BY <1>1 DEF ChatInit, PageTypes, NoRemoval
<1>3. /\ Turn(History, History, FALSE) \in Turns
      /\ Turn(History, History, FALSE).msg \in Used
  BY TurnType DEF Used
<1>4. <<Turn(History, History, FALSE)>> \in Transcripts(Used)
  BY <1>3, OneTurn
<1>5. TranscriptsInv
  BY <1>4, EmptyTranscript DEF ChatInit, TranscriptsInv
<1>6. CallsInv /\ OwnersInv
  BY <1>1 DEF ChatInit, CallsInv, OwnersInv
<1> QED BY <1>2, <1>5, <1>6 DEF ChatInv

LEMMA SendHereInv ==
  ASSUME ChatInv, NEW m \in Calls, SendHere(m)
  PROVE  ChatInv'
<1> DEFINE s == current
           c == [FreeCall EXCEPT !.pc = "live", !.sid = s, !.msg = m]
<1>1. /\ s \in Sids /\ calls[m].pc = "free"
      /\ calls' = [calls EXCEPT ![m] = c]
      /\ turns' = [turns EXCEPT ![s] = Shown(@) \o <<Turn(m, None, TRUE)>>]
      /\ aborts' = [aborts EXCEPT ![s] = m]
      /\ streamingSids' = streamingSids \cup {s}
      /\ UNCHANGED <<exists, saved, current, creating, initializing, loads,
                     reads, removal>>
  BY DEF SendHere, NextCall, ChatInv, PageTypes
<1>2. c \in Call /\ c.pc = "live" /\ c.sid = s /\ c.msg = m
  BY <1>1 DEF FreeCall, Call
<1> HIDE DEF c
<1>3. PageTypes'
  BY <1>1, <1>2 DEF ChatInv, PageTypes
<1>4. /\ calls' \in [Calls -> Call] /\ calls'[m] = c
      /\ \A k \in Calls \ {m} : Stays(k)
  BY <1>1, <1>2 DEF ChatInv, PageTypes, Stays
<1>5. Used \subseteq Used' /\ CallsInv'
  BY <1>1, <1>2, <1>4, OneGoes
<1>6. OwnersInv'
  BY <1>1, <1>2, <1>4, NewOwner DEF Live
<1>7. TranscriptsInv'
  <2> DEFINE x == Turn(m, None, TRUE)
             t == Shown(turns[s])
  <2>1. /\ x \in Turns /\ x.msg = m /\ m \in Used' /\ m \notin Used
    BY <1>1, <1>2, <1>4, TurnType, CallsAreNumbers DEF Used
  <2>2. t \in Transcripts(Used) /\ t \in Transcripts(Used')
    BY <1>1, <1>5, Grow, ShownType DEF ChatInv, TranscriptsInv
  <2>3. \A j \in DOMAIN t : t[j].msg # m
    BY <2>1, <2>2 DEF Transcripts
  <2>5. turns' = [turns EXCEPT ![s] = t \o <<x>>]
    BY <1>1 DEF ChatInv, TranscriptsInv
  <2>6. /\ saved \in [Sids -> Transcripts(Used')]
        /\ turns \in [Sids -> Transcripts(Used') \cup {None}]
        /\ loads \in [Sids -> Transcripts(Used') \cup {None, Asked}]
        /\ reads \in [Calls -> Transcripts(Used') \cup {None, Asked}]
    BY <1>5, Grow DEF ChatInv
  <2> HIDE DEF x, t
  <2>7. /\ x.msg \in Used'
        /\ \A j \in DOMAIN t : ~(t[j].msg = x.msg /\ t[j].local = x.local)
    BY <2>1, <2>3
  <2>4. Append(t, x) \in Transcripts(Used') /\ t \o <<x>> = Append(t, x)
    BY <2>1, <2>2, <2>7, AppendNew
  <2>8. turns' \in [Sids -> Transcripts(Used') \cup {None}]
    <3> DEFINE y == t \o <<x>>
    <3>1. y \in Transcripts(Used') /\ turns' = [turns EXCEPT ![s] = y]
      BY <2>4, <2>5
    <3> HIDE DEF y
    <3> QED BY <2>6, <3>1
  <2>9. UNCHANGED <<saved, loads, reads>>
    BY <1>1
  <2> QED BY <2>6, <2>8, <2>9 DEF TranscriptsInv
<1> QED BY <1>3, <1>5, <1>6, <1>7 DEF ChatInv

LEMMA SendNewInv ==
  ASSUME ChatInv, NEW m \in Calls, SendNew(m)
  PROVE  ChatInv'
<1> DEFINE c == [FreeCall EXCEPT !.pc = "creating", !.msg = m]
<1>1. /\ calls[m].pc = "free" /\ calls' = [calls EXCEPT ![m] = c]
      /\ creating' = TRUE /\ initializing' = TRUE
      /\ UNCHANGED <<exists, saved, current, aborts, streamingSids, turns, loads,
                     reads, removal>>
  BY DEF SendNew, NextCall
<1>2. c \in Call /\ c.pc = "creating" /\ c.msg = m
  BY DEF FreeCall, Call
<1> HIDE DEF c
<1>3. PageTypes'
  BY <1>1, <1>2 DEF ChatInv, PageTypes
<1>4. /\ calls' \in [Calls -> Call] /\ calls'[m] = c
      /\ \A k \in Calls \ {m} : Stays(k)
  BY <1>1, <1>2 DEF ChatInv, PageTypes, Stays
<1>5. Used \subseteq Used' /\ CallsInv'
  BY <1>2, <1>4, OneGoes
<1>6. OwnersInv'
  BY <1>1, <1>4, OwnersStay DEF Live
<1>7. TranscriptsInv'
  BY <1>1, <1>5, TranscriptsStay DEF ChatInv
<1> QED BY <1>3, <1>5, <1>6, <1>7 DEF ChatInv

LEMMA GreatestCall ==
  ASSUME NEW S \in SUBSET Calls, S # {}
  PROVE  \E m \in S : \A k \in S : k <= m
<1> DEFINE T == {n \in Nat : \A k \in S : k <= n}
<1>1. S \subseteq Nat /\ MaxCalls \in T
  BY DEF Calls
<1>2. PICK R : /\ IsWellFoundedOn(R, Nat)
               /\ \A x, y \in Nat : <<y, x>> \in R <=> y < x
  <2>1. \A x, y \in Nat : <<y, x>> \in OpToRel(<, Nat) <=> y < x
    BY DEF OpToRel
  <2> QED BY <2>1, NatLessThanWellFounded
<1>3. PICK n \in T : \A k \in T : ~(<<k, n>> \in R)
  <2>1. T \subseteq Nat /\ T # {}
    BY <1>1
  <2> HIDE DEF T
  <2> QED BY <1>2, <2>1, WFMin
<1>4. n \in S
  <2> SUFFICES ASSUME n \notin S PROVE FALSE
    OBVIOUS
  <2>1. \A k \in S : k < n
    BY <1>1, <1>3
  <2>2. PICK k \in S : k \in Nat
    BY <1>1
  <2>3. n - 1 \in Nat /\ n - 1 < n
    BY <2>1, <2>2, <1>3
  <2>4. n - 1 \in T
    BY <1>1, <2>1, <2>3
  <2> QED BY <1>2, <1>3, <2>3, <2>4
<1> QED BY <1>3, <1>4

LEMMA CreateSessionInv ==
  ASSUME ChatInv, NEW s \in Sids, CreateSession(s)
  PROVE  ChatInv'
<1> DEFINE last == CHOOSE m \in Waiters : \A k \in Waiters : k <= m
<1>1. /\ creating /\ creating' = FALSE /\ initializing' = FALSE
      /\ exists' = exists \cup {s} /\ current' = s
      /\ calls' = [m \in Calls |->
           IF m \in Waiters THEN [calls[m] EXCEPT !.pc = "live", !.sid = s]
           ELSE calls[m]]
      /\ turns' = [turns EXCEPT ![s] = <<Turn(last, None, TRUE)>>]
      /\ aborts' = [aborts EXCEPT ![s] = last]
      /\ streamingSids' = streamingSids \cup {s}
      /\ UNCHANGED <<saved, loads, reads, removal>>
  BY DEF CreateSession
<1>2. last \in Waiters /\ last \in Calls /\ calls[last].pc = "creating"
  <2>1. Waiters \in SUBSET Calls /\ Waiters # {}
    BY <1>1 DEF ChatInv, CallsInv, Waiters
  <2>2. \E m \in Waiters : \A k \in Waiters : k <= m
    BY <2>1, GreatestCall
  <2> QED BY <2>2 DEF Waiters
<1> HIDE DEF last
<1>3. ASSUME NEW m \in Calls
      PROVE  /\ calls'[m] \in Call /\ calls'[m].msg = calls[m].msg
             /\ IF m \in Waiters THEN calls'[m].pc = "live" /\ calls'[m].sid = s
                ELSE calls'[m] = calls[m]
  <2>1. calls[m] \in Call
    BY DEF ChatInv, PageTypes
  <2> QED BY <1>1, <2>1 DEF Call
<1>4. calls' \in [Calls -> Call]
  BY <1>1, <1>3
<1>5. PageTypes'
  BY <1>1, <1>2, <1>4 DEF ChatInv, PageTypes
<1>6. Used' = Used
  BY <1>3 DEF Used, Waiters
<1>7. CallsInv'
  <2>1. ASSUME NEW m \in Calls
        PROVE  /\ calls'[m].pc # "free" => calls'[m].msg \in Used'
               /\ calls'[m].pc \in {"asking", "live"} => calls'[m].sid \in Sids
    <3>1. CASE m \in Waiters
      <4>1. calls[m].msg \in Used
        BY <3>1 DEF Waiters, ChatInv, CallsInv
      <4> QED BY <1>3, <1>6, <3>1, <4>1
    <3>2. CASE m \notin Waiters
      BY <1>3, <1>6, <3>2 DEF ChatInv, CallsInv
    <3> QED BY <3>1, <3>2
  <2> QED BY <1>1, <2>1 DEF CallsInv
<1>8. OwnersInv'
  <2>1. ASSUME NEW x \in Sids, aborts'[x] # NoCall
        PROVE  Live(aborts[x])' /\ calls'[aborts'[x]].sid = x
    <3>1. CASE x = s
      BY <1>1, <1>2, <1>3, <3>1 DEF Live, ChatInv, PageTypes
    <3>2. CASE x # s
      <4>1. aborts'[x] = aborts[x] /\ aborts[x] \in Calls
        BY <1>1, <2>1, <3>2 DEF ChatInv, PageTypes
      <4>2. Live(aborts[x]) /\ calls[aborts[x]].sid = x
        BY <2>1, <4>1 DEF ChatInv, OwnersInv
      <4>3. aborts[x] \notin Waiters
        BY <4>2 DEF Live, Waiters
      <4> QED BY <1>3, <4>1, <4>2, <4>3 DEF Live
    <3> QED BY <3>1, <3>2
  <2>2. \A x \in streamingSids' : aborts'[x] # NoCall
    BY <1>1, <1>2, CallsAreNumbers DEF ChatInv, PageTypes, OwnersInv
  <2> QED BY <2>1, <2>2 DEF OwnersInv, Live
<1>9. TranscriptsInv'
  <2>1. Turn(last, None, TRUE) \in Turns /\ Turn(last, None, TRUE).msg = last
    BY <1>2, TurnType
  <2>3. last \in Used'
    BY <1>2, <1>6 DEF Used
  <2>2. <<Turn(last, None, TRUE)>> \in Transcripts(Used')
    BY <2>1, <2>3, OneTurn
  <2> QED BY <1>1, <1>6, <2>2 DEF ChatInv, TranscriptsInv
<1> QED BY <1>5, <1>7, <1>8, <1>9 DEF ChatInv

LEMMA CreateSessionFailsInv ==
  ASSUME ChatInv, CreateSessionFails
  PROVE  ChatInv'
<1>1. /\ creating' = FALSE /\ initializing' = FALSE
      /\ calls' = [m \in Calls |->
           IF m \in Waiters THEN [calls[m] EXCEPT !.pc = "over"] ELSE calls[m]]
      /\ UNCHANGED <<exists, saved, current, aborts, streamingSids, turns, loads,
                     reads, removal>>
  BY DEF CreateSessionFails
<1>2. ASSUME NEW m \in Calls
      PROVE  /\ calls'[m] \in Call /\ calls'[m].msg = calls[m].msg
             /\ IF m \in Waiters THEN calls'[m].pc = "over" ELSE calls'[m] = calls[m]
  <2>1. calls[m] \in Call
    BY DEF ChatInv, PageTypes
  <2> QED BY <1>1, <2>1 DEF Call
<1>3. PageTypes'
  BY <1>1, <1>2 DEF ChatInv, PageTypes
<1>4. Used' = Used
  BY <1>2 DEF Used, Waiters
<1>5. CallsInv'
  BY <1>1, <1>2, <1>4 DEF ChatInv, CallsInv, Waiters
<1>6. OwnersInv'
  <2>1. ASSUME NEW x \in Sids, aborts[x] # NoCall
        PROVE  aborts[x] \in Calls \ Waiters
    BY <2>1 DEF ChatInv, PageTypes, OwnersInv, Live, Waiters
  <2> QED BY <1>1, <1>2, <2>1 DEF ChatInv, OwnersInv, Live
<1>7. TranscriptsInv'
  BY <1>1, <1>4, TranscriptsStay DEF ChatInv
<1> QED BY <1>3, <1>5, <1>6, <1>7 DEF ChatInv

LEMMA AskInv ==
  ASSUME ChatInv, NEW m \in Calls, NEW kind \in {"auth", "resume"}, Ask(m, kind)
  PROVE  ChatInv'
<1> DEFINE shown == Shown(turns[current])
           turn == IF kind = "auth" THEN shown[Len(shown)] ELSE Turn(m, None, TRUE)
           c == [FreeCall EXCEPT !.pc = "asking", !.sid = current, !.kind = kind,
                                 !.msg = turn.msg, !.local = turn.local]
<1>1. /\ current \in Sids /\ turns[current] \notin {None, <<>>}
      /\ calls[m].pc = "free" /\ calls' = [calls EXCEPT ![m] = c]
      /\ UNCHANGED <<exists, saved, current, creating, initializing, aborts,
                     streamingSids, turns, loads, reads, removal>>
  BY DEF Ask, NextCall, ChatInv, PageTypes
<1>2. turn \in Turns /\ turn.msg \in Used \cup {m}
  <2>1. CASE kind = "auth"
    <3>1. shown \in Transcripts(Used) /\ shown # <<>>
      BY <1>1, ShownType DEF ChatInv, TranscriptsInv
    <3>2. shown \in Seq(Turns) /\ \A j \in DOMAIN shown : shown[j].msg \in Used
      BY <3>1 DEF Transcripts
    <3> HIDE DEF shown
    <3>3. Len(shown) \in DOMAIN shown
      BY <3>1, <3>2
    <3> QED BY <2>1, <3>2, <3>3
  <2>2. CASE kind = "resume"
    BY <2>2, TurnType
  <2> QED BY <2>1, <2>2
<1> HIDE DEF turn
<1>3. c \in Call /\ c.pc = "asking" /\ c.sid = current /\ c.msg = turn.msg
  BY <1>1, <1>2 DEF FreeCall, Call, Turns
<1> HIDE DEF c
<1>4. PageTypes'
  BY <1>1, <1>3 DEF ChatInv, PageTypes
<1>5. /\ calls' \in [Calls -> Call] /\ calls'[m] = c
      /\ \A k \in Calls \ {m} : Stays(k)
  BY <1>1, <1>3 DEF ChatInv, PageTypes, Stays
<1>6. Used \subseteq Used' /\ CallsInv'
  <2>1. /\ calls'[m].pc # "free" /\ calls'[m].msg \in Used \cup {m}
        /\ calls'[m].sid \in Sids
        /\ creating' => creating /\ calls[m].pc # "creating"
    BY <1>1, <1>2, <1>3, <1>5
  <2> QED BY <1>5, <2>1, OneGoes
<1>7. OwnersInv'
  BY <1>1, <1>5, OwnersStay DEF Live
<1>8. TranscriptsInv'
  BY <1>1, <1>6, TranscriptsStay DEF ChatInv
<1> QED BY <1>4, <1>6, <1>7, <1>8 DEF ChatInv

LEMMA ResumedInv ==
  ASSUME ChatInv, NEW m \in Calls, Resumed(m)
  PROVE  ChatInv'
<1> DEFINE s == calls[m].sid
           others == IF calls[m].kind = "resume" THEN AbortOf(s) ELSE calls
<1>1. /\ calls[m].pc = "asking"
      /\ calls' = [others EXCEPT ![m].pc = "live"]
      /\ aborts' = [aborts EXCEPT ![s] = m]
      /\ streamingSids' = streamingSids \cup {s}
      /\ UNCHANGED <<exists, saved, current, creating, initializing, turns,
                     loads, reads, removal>>
  BY DEF Resumed
<1>2. s \in Sids /\ calls[m].msg \in Used
  BY <1>1 DEF ChatInv, CallsInv
<1>3. /\ others \in [Calls -> Call]
      /\ \A k \in Calls : /\ others[k].pc = calls[k].pc
                          /\ others[k].sid = calls[k].sid
                          /\ others[k].msg = calls[k].msg
  BY <1>2, AbortStays DEF ChatInv, PageTypes
<1> HIDE DEF others
<1>4. /\ calls' \in [Calls -> Call] /\ \A k \in Calls \ {m} : Stays(k)
      /\ calls'[m].pc = "live" /\ calls'[m].sid = s /\ calls'[m].msg = calls[m].msg
  <2> DEFINE c == [others[m] EXCEPT !.pc = "live"]
  <2>1. c \in Call /\ c.pc = "live" /\ c.sid = others[m].sid /\ c.msg = others[m].msg
    BY <1>3 DEF Call
  <2>2. calls' = [others EXCEPT ![m] = c]
    BY <1>1, <1>3
  <2> HIDE DEF c
  <2> QED BY <1>3, <2>1, <2>2 DEF Stays
<1>5. PageTypes'
  BY <1>1, <1>2, <1>4 DEF ChatInv, PageTypes
<1>6. Used \subseteq Used' /\ CallsInv'
  <2>1. creating' => creating /\ calls[m].pc # "creating"
    BY <1>1
  <2> QED BY <1>2, <1>4, <2>1, OneGoes
<1>7. OwnersInv'
  BY <1>1, <1>2, <1>4, NewOwner DEF Live
<1>8. TranscriptsInv'
  BY <1>1, <1>6, TranscriptsStay DEF ChatInv
<1> QED BY <1>5, <1>6, <1>7, <1>8 DEF ChatInv

LEMMA NothingToStreamInv ==
  ASSUME ChatInv, NEW m \in Calls, NothingToStream(m)
  PROVE  ChatInv'
<1>1. /\ calls[m].pc = "asking" /\ calls' = [calls EXCEPT ![m].pc = "over"]
      /\ UNCHANGED <<exists, saved, current, creating, initializing, aborts,
                     streamingSids, turns, loads, reads, removal>>
  BY DEF NothingToStream
<1>2. /\ calls' \in [Calls -> Call] /\ \A k \in Calls \ {m} : Stays(k)
      /\ calls'[m].pc = "over" /\ calls'[m].msg = calls[m].msg
  <2> DEFINE c == [calls[m] EXCEPT !.pc = "over"]
  <2>1. calls \in [Calls -> Call]
    BY DEF ChatInv, PageTypes
  <2>2. c \in Call /\ c.pc = "over" /\ c.msg = calls[m].msg
    BY <2>1 DEF Call
  <2>3. calls' = [calls EXCEPT ![m] = c]
    BY <1>1, <2>1
  <2> HIDE DEF c
  <2> QED BY <2>1, <2>2, <2>3 DEF Stays
<1>3. PageTypes'
  BY <1>1, <1>2 DEF ChatInv, PageTypes
<1>4. Used \subseteq Used' /\ CallsInv'
  <2>1. calls[m].msg \in Used /\ (creating' => creating /\ calls[m].pc # "creating")
    BY <1>1 DEF ChatInv, CallsInv
  <2> QED BY <1>2, <2>1, OneGoes
<1>5. OwnersInv'
  BY <1>1, <1>2, OwnersStay DEF Live
<1>6. TranscriptsInv'
  BY <1>1, <1>4, TranscriptsStay DEF ChatInv
<1> QED BY <1>3, <1>4, <1>5, <1>6 DEF ChatInv

(* One transcript of the page is replaced.                                   *)
LEMMA TurnsWritten ==
  ASSUME ChatInv, NEW s, NEW t \in Transcripts(Used) \cup {None},
         turns' = [turns EXCEPT ![s] = t],
         UNCHANGED <<calls, creating, aborts, streamingSids, saved>>,
         PageTypes',
         loads' \in [Sids -> Transcripts(Used) \cup {None, Asked}],
         reads' \in [Calls -> Transcripts(Used) \cup {None, Asked}]
  PROVE  ChatInv'
<1>1. Used' = Used /\ CallsInv' /\ OwnersInv'
  BY CallsUnchanged
<1>2. turns' \in [Sids -> Transcripts(Used) \cup {None}]
  BY DEF ChatInv, TranscriptsInv
<1> QED BY <1>1, <1>2 DEF ChatInv, TranscriptsInv

(* Only the page, or what it waits for, changes.                             *)
LEMMA CallsRest ==
  ASSUME ChatInv, UNCHANGED <<calls, creating, aborts, streamingSids, saved, turns>>,
         PageTypes',
         loads' \in [Sids -> Transcripts(Used) \cup {None, Asked}],
         reads' \in [Calls -> Transcripts(Used) \cup {None, Asked}]
  PROVE  ChatInv'
<1>1. Used' = Used /\ CallsInv' /\ OwnersInv'
  BY CallsUnchanged
<1> QED BY <1>1 DEF ChatInv, TranscriptsInv

LEMMA ProjectInv ==
  ASSUME ChatInv, NEW m \in Calls, Project(m)
  PROVE  ChatInv'
<1> DEFINE s == calls[m].sid
           t == Upsert(turns[s], m, None)
<1>1. /\ s \in Sids /\ calls[m].msg \in Used
      /\ turns' = [turns EXCEPT ![s] = t]
      /\ UNCHANGED <<exists, saved, current, creating, initializing, calls, aborts,
                     streamingSids, loads, reads, removal>>
  BY DEF Project, Live, ChatInv, CallsInv, TranscriptsInv
<1>2. t \in Transcripts(Used)
  BY <1>1, UpsertKeeps DEF ChatInv, TranscriptsInv
<1> HIDE DEF t
<1>3. PageTypes'
  BY <1>1 DEF ChatInv, PageTypes
<1> QED BY <1>1, <1>2, <1>3, TurnsWritten DEF ChatInv, TranscriptsInv

LEMMA EndStreamInv ==
  ASSUME ChatInv, NEW m \in Calls, EndStream(m)
  PROVE  ChatInv'
<1> DEFINE s == calls[m].sid
<1>1. /\ Live(m) /\ Release(m)
      /\ UNCHANGED <<exists, current, creating, initializing, loads, removal>>
      /\ \E r \in Calls \cup {None} : turns' = [turns EXCEPT ![s] = Upsert(@, m, r)]
  BY DEF EndStream, EndWithReply, EndWithout
<1>2. /\ calls' \in [Calls -> Call] /\ aborts' \in [Sids -> Calls \cup {NoCall}]
      /\ streamingSids' \subseteq Sids
      /\ Used \subseteq Used' /\ CallsInv' /\ OwnersInv'
      /\ s \in Sids /\ calls[m].msg \in Used
  BY <1>1, ReleaseKeeps
<1>3. PageTypes'
  BY <1>1, <1>2 DEF ChatInv, PageTypes
<1>4. /\ Transcripts(Used) \subseteq Transcripts(Used')
      /\ saved \in [Sids -> Transcripts(Used')]
      /\ turns \in [Sids -> Transcripts(Used') \cup {None}]
      /\ loads \in [Sids -> Transcripts(Used') \cup {None, Asked}]
      /\ reads \in [Calls -> Transcripts(Used') \cup {None, Asked}]
  BY <1>2, Grow DEF ChatInv
<1>5. turns' \in [Sids -> Transcripts(Used') \cup {None}]
  <2>1. PICK r \in Calls \cup {None} : turns' = [turns EXCEPT ![s] = Upsert(@, m, r)]
    BY <1>1
  <2> DEFINE t == Upsert(turns[s], m, r)
  <2>2. turns' = [turns EXCEPT ![s] = t]
    BY <1>4, <2>1
  <2>3. t \in Transcripts(Used)
    BY <1>2, UpsertKeeps DEF ChatInv, TranscriptsInv
  <2> HIDE DEF t
  <2> QED BY <1>4, <2>2, <2>3
<1>6. /\ saved' \in [Sids -> Transcripts(Used')]
      /\ reads' \in [Calls -> Transcripts(Used') \cup {None, Asked}]
  <2>1. CASE EndWithReply(m)
    <3> DEFINE t == Persisted(saved[s], m)
    <3>1. /\ saved' = [saved EXCEPT ![s] = t]
          /\ reads' = [reads EXCEPT ![m] = Asked]
      BY <1>4, <2>1 DEF EndWithReply
    <3>2. t \in Transcripts(Used)
      BY <1>2, PersistedKeeps DEF ChatInv, TranscriptsInv
    <3> HIDE DEF t
    <3> QED BY <1>4, <3>1, <3>2
  <2>2. CASE EndWithout(m)
    BY <1>4, <2>2 DEF EndWithout
  <2> QED BY <2>1, <2>2 DEF EndStream
<1>7. TranscriptsInv'
  BY <1>1, <1>4, <1>5, <1>6 DEF TranscriptsInv
<1> QED BY <1>2, <1>3, <1>7 DEF ChatInv

LEMMA AbortingInv ==
  ASSUME ChatInv,
         StopGeneration \/ \E s \in Sids : RemoveSession(s)
  PROVE  ChatInv'
<1>1. PICK s \in Sids :
        /\ calls' = AbortOf(s)
        /\ UNCHANGED <<exists, saved, current, creating, initializing, aborts,
                       streamingSids, turns, loads, reads>>
        /\ removal' \in [sid : Sids \cup {None}, shown : BOOLEAN]
  <2>1. CASE StopGeneration
    <3>1. current \in Sids
      BY <2>1 DEF StopGeneration, ChatInv, PageTypes
    <3> QED BY <2>1, <3>1 DEF StopGeneration, ChatInv, PageTypes
  <2>2. ASSUME NEW s \in Sids, RemoveSession(s)
        PROVE  removal' \in [sid : Sids \cup {None}, shown : BOOLEAN]
    <3>1. (s = current) \in BOOLEAN
      OBVIOUS
    <3> QED BY <2>2, <3>1 DEF RemoveSession
  <2> QED BY <2>1, <2>2 DEF RemoveSession
<1>2. calls' \in [Calls -> Call] /\ \A k \in Calls : Stays(k)
  BY <1>1, AbortStays DEF Stays
<1>3. Used' = Used /\ CallsInv' /\ OwnersInv'
  BY <1>1, <1>2, AllStay
<1>4. PageTypes'
  BY <1>1, <1>2 DEF ChatInv, PageTypes
<1>5. TranscriptsInv'
  BY <1>1, <1>3, TranscriptsStay DEF ChatInv
<1> QED BY <1>3, <1>4, <1>5 DEF ChatInv

LEMMA PageInv ==
  ASSUME ChatInv, NewChat \/ \E s \in Sids : PickSession(s) \/ ReadForLoad(s)
  PROVE  ChatInv'
<1>1. UNCHANGED <<exists, creating, calls, aborts, streamingSids, saved, turns, reads,
                  removal>>
  BY DEF NewChat, PickSession, ReadForLoad
<1>2. PageTypes'
  BY <1>1 DEF NewChat, PickSession, ReadForLoad, ChatInv, PageTypes
<1>3. loads' \in [Sids -> Transcripts(Used) \cup {None, Asked}]
  BY DEF NewChat, PickSession, ReadForLoad, ChatInv, TranscriptsInv
<1>4. reads' \in [Calls -> Transcripts(Used) \cup {None, Asked}]
  BY <1>1 DEF ChatInv, TranscriptsInv
<1> QED BY <1>1, <1>2, <1>3, <1>4, CallsRest

LEMMA ReadForReconcileInv ==
  ASSUME ChatInv, NEW m \in Calls, ReadForReconcile(m)
  PROVE  ChatInv'
<1>1. UNCHANGED <<exists, saved, current, creating, initializing, calls, aborts,
                  streamingSids, turns, loads, removal>>
  BY DEF ReadForReconcile
<1>2. PageTypes'
  BY <1>1 DEF ChatInv, PageTypes
<1>3. reads' \in [Calls -> Transcripts(Used) \cup {None, Asked}]
  BY DEF ReadForReconcile, ChatInv, TranscriptsInv, PageTypes
<1>4. loads' \in [Sids -> Transcripts(Used) \cup {None, Asked}]
  BY <1>1 DEF ChatInv, TranscriptsInv
<1> QED BY <1>1, <1>2, <1>3, <1>4, CallsRest

LEMMA ReplacedInv ==
  ASSUME ChatInv,
         \/ \E s \in Sids : HistoryLoaded(s)
         \/ \E m \in Calls : Reconcile(m)
         \/ SessionRemoved
  PROVE  ChatInv'
<1>1. UNCHANGED <<saved, creating, calls, aborts, streamingSids>>
  BY DEF HistoryLoaded, Reconcile, SessionRemoved
<1>2. PageTypes'
  <2>1. CASE UNCHANGED <<exists, current, initializing, removal>>
    BY <1>1, <2>1 DEF ChatInv, PageTypes
  <2>2. CASE SessionRemoved
    <3>1. /\ exists' \subseteq exists /\ current' \in {current, None}
          /\ initializing' \in {initializing, FALSE} /\ removal' = NoRemoval
      BY <2>2 DEF SessionRemoved
    <3> QED BY <1>1, <3>1 DEF ChatInv, PageTypes, NoRemoval
  <2> QED BY <2>1, <2>2 DEF HistoryLoaded, Reconcile
<1>3. /\ turns \in [Sids -> Transcripts(Used) \cup {None}]
      /\ loads \in [Sids -> Transcripts(Used) \cup {None, Asked}]
      /\ reads \in [Calls -> Transcripts(Used) \cup {None, Asked}]
  BY DEF ChatInv, TranscriptsInv
<1>4. /\ loads' \in [Sids -> Transcripts(Used) \cup {None, Asked}]
      /\ reads' \in [Calls -> Transcripts(Used) \cup {None, Asked}]
  BY <1>3 DEF HistoryLoaded, Reconcile, SessionRemoved
<1>5. CASE \E s \in Sids : HistoryLoaded(s)
  <2>1. PICK s \in Sids : HistoryLoaded(s)
    BY <1>5
  <2>2. loads[s] \in Transcripts(Used) /\ turns' = [turns EXCEPT ![s] = loads[s]]
    BY <1>3, <2>1 DEF HistoryLoaded
  <2> QED BY <1>1, <1>2, <1>4, <2>2, TurnsWritten
<1>6. CASE \E m \in Calls : Reconcile(m)
  <2>1. PICK m \in Calls : Reconcile(m)
    BY <1>6
  <2> DEFINE s == calls[m].sid
             t == Reconciled(turns[s], reads[m], m)
  <2>2. /\ reads[m] \in Transcripts(Used)
        /\ turns' = [turns EXCEPT ![s] = Reconciled(@, reads[m], m)]
    BY <1>3, <2>1 DEF Reconcile
  <2>3. CASE s \in Sids
    <3>1. turns' = [turns EXCEPT ![s] = t]
      BY <1>3, <2>2, <2>3
    <3>2. t \in Transcripts(Used) \cup {None}
      BY <1>3, <2>2, <2>3 DEF Reconciled
    <3> HIDE DEF t
    <3> QED BY <1>1, <1>2, <1>4, <3>1, <3>2, TurnsWritten
  <2>4. CASE s \notin Sids
    <3>1. turns' = turns
      BY <1>3, <2>2, <2>4
    <3> QED BY <1>1, <1>2, <1>4, <3>1, CallsRest
  <2> QED BY <2>3, <2>4
<1>7. CASE SessionRemoved
  <2>1. CASE turns' = [turns EXCEPT ![removal.sid] = None]
    BY <1>1, <1>2, <1>4, <2>1, TurnsWritten
  <2>2. CASE turns' = turns
    BY <1>1, <1>2, <1>4, <2>2, CallsRest
  <2> QED BY <1>7, <2>1, <2>2 DEF SessionRemoved
<1> QED BY <1>5, <1>6, <1>7

LEMMA NextChatInv == ChatInv /\ [ChatNext]_chatVars => ChatInv'
<1> SUFFICES ASSUME ChatInv, [ChatNext]_chatVars PROVE ChatInv'
  OBVIOUS
<1>1. CASE \E m \in Calls : \/ SendHere(m) \/ SendNew(m)
                            \/ Ask(m, "auth") \/ Ask(m, "resume")
                            \/ Resumed(m) \/ NothingToStream(m)
  BY <1>1, SendHereInv, SendNewInv, AskInv, ResumedInv, NothingToStreamInv
<1>2. CASE \E m \in Calls : \/ Project(m) \/ EndStream(m)
                            \/ ReadForReconcile(m) \/ Reconcile(m)
  BY <1>2, ProjectInv, EndStreamInv, ReadForReconcileInv, ReplacedInv
<1>3. CASE EndCreation
  BY <1>3, CreateSessionInv, CreateSessionFailsInv DEF EndCreation
<1>4. CASE \E s \in Sids : \/ PickSession(s) \/ ReadForLoad(s) \/ HistoryLoaded(s)
                           \/ RemoveSession(s)
  BY <1>4, PageInv, ReplacedInv, AbortingInv
<1>5. CASE StopGeneration \/ NewChat \/ SessionRemoved
  BY <1>5, AbortingInv, PageInv, ReplacedInv
<1>6. CASE UNCHANGED chatVars
  <2>1. UNCHANGED <<calls, creating, aborts, streamingSids, saved, turns, loads, reads>>
        /\ PageTypes'
    BY <1>6 DEF chatVars, ChatInv, PageTypes
  <2> QED BY <2>1, CallsRest DEF ChatInv, TranscriptsInv
<1> QED BY <1>1, <1>2, <1>3, <1>4, <1>5, <1>6 DEF ChatNext

LEMMA ChatInvHolds == ChatSpec => []ChatInv
BY InitChatInv, NextChatInv, PTL DEF ChatSpec

(* The page's state keeps to its domains, and no two turns of a transcript   *)
(* have the identity by which a stream finds the turn it writes, whatever    *)
(* streams, authorizations, loads and reconciliations overlap.               *)
THEOREM ChatTypes == ChatSpec => []ChatTypeOK
<1>1. ChatInv => ChatTypeOK
  <2> SUFFICES ASSUME ChatInv PROVE ChatTypeOK
    OBVIOUS
  <2>1. ASSUME NEW s \in Sids, NEW j \in DOMAIN Shown(turns[s]),
               NEW k \in DOMAIN Shown(turns[s])
        PROVE  /\ turns[s][j].msg \in Calls \cup {History}
               /\ turns[s][j].reply \in Calls \cup {History, None}
               /\ /\ turns[s][j].msg = turns[s][k].msg
                  /\ turns[s][j].local = turns[s][k].local
                  => j = k
    <3>1. turns[s] # None
      BY <2>1 DEF Shown
    <3>2. turns[s] \in Transcripts(Used) /\ Shown(turns[s]) = turns[s]
      BY <3>1 DEF ChatInv, TranscriptsInv, Shown
    <3>3. turns[s] \in Seq(Turns)
      BY <3>2 DEF Transcripts
    <3>4. turns[s][j] \in Turns
      BY <3>2, <3>3
    <3> QED BY <3>2, <3>4 DEF Transcripts, Turns
  <2>2. calls \in [Calls -> [pc : {"free", "creating", "asking", "live", "over"},
                             sid : Sids \cup {None}, aborted : BOOLEAN,
                             kind : {"send", "auth", "resume"},
                             msg : Calls \cup {History}, local : BOOLEAN]]
    BY DEF ChatInv, PageTypes, Call
  <2> QED BY <2>1, <2>2 DEF ChatInv, PageTypes, ChatTypeOK
<1> QED BY <1>1, ChatInvHolds, PTL

(* The stop button works wherever it is shown, for any number of sessions    *)
(* and calls: only the owner of a session's controller drops it, with the    *)
(* session's streaming state (App.tsx:1594-1607, 5715-5719).                 *)
THEOREM StopReachesTheStream == ChatSpec => []StreamingIsStoppable
<1>1. ChatInv => StreamingIsStoppable
  BY DEF ChatInv, PageTypes, OwnersInv, StreamingIsStoppable
<1> QED BY <1>1, ChatInvHolds, PTL

------------------------------------------------------------------------------
(* Messages that wait for their answer.                                      *)

LEMMA UnansweredAreMessages ==
  ASSUME NEW t
  PROVE  Unanswered(t) \subseteq Messages(t)
BY DEF Unanswered, Messages

LEMMA UpsertLosesNone ==
  ASSUME ChatInv, NEW m \in Calls, Live(m), NEW r \in Calls \cup {None},
         turns' = [turns EXCEPT ![calls[m].sid] = Upsert(@, m, r)],
         NEW s \in Sids
  PROVE  \/ Messages(Shown(turns[s])) \subseteq Messages(Shown(turns'[s]))
         \/ turns'[s] = None
<1>1. turns \in [Sids -> Transcripts(Used) \cup {None}] /\ calls[m].msg \in Used
  BY DEF ChatInv, TranscriptsInv, CallsInv, Live
<1>2. CASE s = calls[m].sid
  <2>1. turns'[s] = Upsert(turns[s], m, r)
    BY <1>1, <1>2
  <2>2. Messages(Shown(turns[s])) \subseteq Messages(Upsert(turns[s], m, r))
    BY <1>1, UpsertKeeps DEF ChatInv
  <2> QED BY <2>1, <2>2 DEF Shown
<1>3. CASE s # calls[m].sid
  BY <1>1, <1>3
<1> QED BY <1>2, <1>3

LEMMA ReconciledLosesNone ==
  ASSUME NEW m \in Calls, NEW u, NEW t \in Transcripts(u) \cup {None}, NEW p
  PROVE  Reconciled(t, p, m) = t \/ Unanswered(Shown(t)) = {}
<1> SUFFICES ASSUME t \notin {None, <<>>}, t[Len(t)].reply = m
             PROVE  Unanswered(t) = {}
  BY DEF Reconciled, Shown
<1>1. t \in Seq(Turns) /\ t # <<>>
  BY DEF Transcripts
<1>2. \A j \in DOMAIN t : Len(t) \in j..Len(t)
  BY <1>1
<1>3. m # None
  BY DEF Calls
<1> QED BY <1>2, <1>3 DEF Unanswered

(* A message that waits for its answer vanishes only with its history loaded *)
(* anew or its session removed: a stream's turn replaces one of the same     *)
(* identity, and a late reconciliation gives way to a message that was sent  *)
(* meanwhile (transcriptReconcile.ts, App.tsx:3844-3865).                    *)
THEOREM WaitingMessagesStay == ChatSpec => UnansweredStay
<1> DEFINE Kept(s) == \/ Unanswered(Shown(turns[s])) \subseteq Messages(Shown(turns'[s]))
                      \/ HistoryLoaded(s) \/ turns'[s] = None
<1>1. ChatInv /\ [ChatNext]_chatVars => [\A s \in Sids : Kept(s)]_chatVars
  <2> SUFFICES ASSUME ChatInv, ChatNext, NEW s \in Sids PROVE Kept(s)
    OBVIOUS
  <2>1. /\ turns \in [Sids -> Transcripts(Used) \cup {None}]
        /\ Unanswered(Shown(turns[s])) \subseteq Messages(Shown(turns[s]))
    BY UnansweredAreMessages DEF ChatInv, TranscriptsInv
  <2>2. CASE turns'[s] = turns[s]
    BY <2>1, <2>2
  <2>3. ASSUME NEW m \in Calls, Project(m) \/ EndStream(m)
        PROVE  Kept(s)
    <3>1. /\ Live(m)
          /\ \E r \in Calls \cup {None} :
               turns' = [turns EXCEPT ![calls[m].sid] = Upsert(@, m, r)]
      BY <2>3 DEF Project, EndStream, EndWithReply, EndWithout
    <3> QED BY <2>1, <3>1, UpsertLosesNone
  <2>4. ASSUME NEW m \in Calls, SendHere(m), turns'[s] # turns[s]
        PROVE  Kept(s)
    <3> DEFINE x == Turn(m, None, TRUE)
               t == Shown(turns[s])
    <3>1. turns'[s] = t \o <<x>>
      BY <2>1, <2>4 DEF SendHere
    <3>2. t \in Transcripts(Used) /\ x \in Turns
      BY <2>1, ShownType, TurnType
    <3>3. t \in Seq(Turns)
      BY <3>2 DEF Transcripts
    <3> HIDE DEF t, x
    <3>4. Messages(t) \subseteq Messages(t \o <<x>>)
      <4>1. /\ DOMAIN t \subseteq DOMAIN (t \o <<x>>)
            /\ \A j \in DOMAIN t : (t \o <<x>>)[j] = t[j]
        BY <3>2, <3>3
      <4> QED BY <4>1 DEF Messages
    <3> QED BY <2>1, <3>1, <3>4 DEF Shown, t
  <2>5. ASSUME NEW x \in Sids, CreateSession(x), turns'[s] # turns[s]
        PROVE  Kept(s)
    <3>1. turns[s] = None
      BY <2>1, <2>5 DEF CreateSession
    <3>2. Unanswered(Shown(turns[s])) = {}
      BY <3>1 DEF Unanswered, Shown
    <3> QED BY <3>2
  <2>6. ASSUME NEW x \in Sids, HistoryLoaded(x), turns'[s] # turns[s]
        PROVE  Kept(s)
    BY <2>1, <2>6 DEF HistoryLoaded
  <2>7. ASSUME NEW m \in Calls, Reconcile(m), turns'[s] # turns[s]
        PROVE  Kept(s)
    <3>1. turns'[s] = Reconciled(turns[s], reads[m], m)
      BY <2>1, <2>7 DEF Reconcile
    <3> QED BY <2>1, <2>7, <3>1, ReconciledLosesNone
  <2>8. ASSUME SessionRemoved, turns'[s] # turns[s]
        PROVE  Kept(s)
    BY <2>1, <2>8 DEF SessionRemoved
  <2>9. \/ turns' = turns \/ SessionRemoved
        \/ \E m \in Calls : Project(m) \/ EndStream(m) \/ SendHere(m) \/ Reconcile(m)
        \/ \E x \in Sids : CreateSession(x) \/ HistoryLoaded(x)
    BY DEF ChatNext, SendNew, Ask, Resumed, NothingToStream, ReadForReconcile,
           EndCreation, CreateSessionFails, PickSession, ReadForLoad, RemoveSession,
           StopGeneration, NewChat
  <2> QED BY <2>2, <2>3, <2>4, <2>5, <2>6, <2>7, <2>8, <2>9
<1> QED BY <1>1, ChatInvHolds, PTL DEF ChatSpec, UnansweredStay

=============================================================================
