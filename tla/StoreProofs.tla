---------------------------- MODULE StoreProofs ----------------------------
(* The CAS loops of RunStore implement RunLifecycle, those of JobStore       *)
(* JobObjects, and both keep the promises of these specifications, for any   *)
(* number of callers, calls and CAS rounds.                                  *)
EXTENDS RunStore, JobStore, TLAPS

USE CasAttemptsAssumption, MaxCallsAssumption

(* What SnapshotIsCurrent says of one client, and what it leaves out: the    *)
(* body a client is about to write is one that its own method builds.        *)
ClientInv(c) ==
  LET k == call[c] IN
  /\ k.pc = "put" /\ k.op \in Loops =>
       /\ k.tag <= etag
       /\ (Matches(k) => object = k.seen)
       /\ (k.op # "cancel" => ~Done(k.seen))
  /\ k.op = "create" /\ k.pc = "put" =>
       \E s \in {"queued", "preparing", "skipped"} :
         k.want = Fresh(s)
  /\ k.op = "update" /\ k.pc \in {"read", "put"} => k.want.state # "queued"

StoreInv == TypeOK /\ \A c \in Clients : ClientInv(c)

LEMMA FreshRecord ==
  ASSUME NEW s \in {"queued", "preparing", "skipped"}
  PROVE  Fresh(s) \in Record
BY DEF Record, Fresh, Record, States,
       Active, Terminal

LEMMA IdleIsCall == Idle \in Call
<1>1. AnyRecord \in Record
  BY FreshRecord DEF AnyRecord
<1> QED BY <1>1 DEF Idle, Call, Ops, Loops, Pcs, Results

(* The state of call[c] after c stepped to r, everything else unchanged.     *)
LEMMA StepTypes ==
  ASSUME TypeOK, NEW c \in Clients, NEW r \in Call, Step(c, r)
  PROVE  /\ call' \in [Clients -> Call]
         /\ call'[c] = r
         /\ \A d \in Clients \ {c} : call'[d] = call[d]
BY DEF TypeOK, Step

LEMMA ReturnTypes ==
  ASSUME TypeOK, NEW c \in Clients, NEW r \in Results, Return(c, r)
  PROVE  /\ call' \in [Clients -> Call]
         /\ call'[c].pc = "idle"
         /\ \A d \in Clients \ {c} : call'[d] = call[d]
<1> DEFINE k == [Idle EXCEPT !.op = call[c].op, !.result = r,
                             !.tries = call[c].tries, !.first = call[c].first]
<1>1. call[c] \in Call
  BY DEF TypeOK
<1>2. k \in Call /\ k.pc = "idle"
  BY <1>1, IdleIsCall DEF Call, Idle
<1>3. Step(c, k)
  BY DEF Return
<1> HIDE DEF k
<1> QED BY <1>2, <1>3, StepTypes

(* A put over a run changes it exactly as one step of the life cycle.        *)
LEMMA NewBodyIsRecord ==
  ASSUME NEW k \in Call PROVE NewBody(k) \in Record
BY DEF NewBody, Merge, Call, Record

(* The clients that do not move: a write by another only outdates them.     *)
LEMMA OthersKeepInv ==
  ASSUME StoreInv, NEW c \in Clients,
         \A d \in Clients \ {c} : call'[d] = call[d],
         Untouched \/ (etag' = etag + 1)
  PROVE  \A d \in Clients \ {c} : ClientInv(d)'
<1> TAKE d \in Clients \ {c}
<1>1. ClientInv(d) /\ call'[d] = call[d] /\ call[d] \in Call /\ etag \in Nat
  BY DEF StoreInv, TypeOK
<1>2. CASE Untouched
  BY <1>1, <1>2 DEF ClientInv, Untouched, Matches, Done
<1>3. CASE etag' = etag + 1
  <2>1. call[d].tag \in Nat
    BY <1>1 DEF Call
  <2> QED BY <1>1, <1>3, <2>1 DEF ClientInv, Matches, Done
<1> QED BY <1>2, <1>3

LEMMA IdleKeepsInv ==
  ASSUME NEW c \in Clients, call'[c].pc = "idle" PROVE ClientInv(c)'
BY DEF ClientInv

(* The pieces of StoreInv' that every action of client c has to deliver.     *)
LEMMA StepKeepsInv ==
  ASSUME StoreInv, NEW c \in Clients,
         object' \in Record \cup {NoRun},
         Untouched \/ (etag' = etag + 1),
         calls' \in 0..MaxCalls,
         call' \in [Clients -> Call],
         \A d \in Clients \ {c} : call'[d] = call[d],
         ClientInv(c)'
  PROVE  StoreInv'
<1>1. etag' \in Nat
  BY DEF StoreInv, TypeOK, Untouched
<1>2. TypeOK'
  BY <1>1 DEF TypeOK
<1>3. \A d \in Clients \ {c} : ClientInv(d)'
  BY OthersKeepInv
<1> QED BY <1>2, <1>3 DEF StoreInv

LEMMA ReturnKeepsInv ==
  ASSUME StoreInv, NEW c \in Clients, NEW r \in Results, Return(c, r),
         object' \in Record \cup {NoRun},
         Untouched \/ (etag' = etag + 1),
         calls' \in 0..MaxCalls
  PROVE  StoreInv'
<1>1. TypeOK
  BY DEF StoreInv
<1> QED BY <1>1, ReturnTypes, IdleKeepsInv, StepKeepsInv

(* A step that leaves the object alone and moves c to a legal call.          *)
LEMMA QuietStepKeepsInv ==
  ASSUME StoreInv, NEW c \in Clients, NEW r \in Call, Step(c, r), Untouched,
         calls' \in 0..MaxCalls, ClientInv(c)'
  PROVE  StoreInv'
<1>1. TypeOK
  BY DEF StoreInv
<1>2. object' \in Record \cup {NoRun}
  BY <1>1 DEF TypeOK, Untouched
<1> QED BY <1>1, <1>2, StepTypes, StepKeepsInv

LEMMA BeginKeepsInv ==
  ASSUME StoreInv, NEW c \in Clients, Begin(c) PROVE StoreInv'
<1>1. TypeOK /\ calls' \in 0..MaxCalls /\ etag \in Nat /\ Untouched
  BY DEF StoreInv, TypeOK, Begin
<1>2. CASE \E s \in {"queued", "preparing", "skipped"} :
             Step(c, [Idle EXCEPT !.op = "create", !.pc = "put",
                                  !.want = Fresh(s)])
  <2>1. PICK s \in {"queued", "preparing", "skipped"} :
             Step(c, [Idle EXCEPT !.op = "create", !.pc = "put",
                                  !.want = Fresh(s)])
    BY <1>2
  <2> DEFINE r == [Idle EXCEPT !.op = "create", !.pc = "put",
                               !.want = Fresh(s)]
  <2>2. /\ r \in Call
        /\ r.op = "create" /\ r.want = Fresh(s)
    BY IdleIsCall, FreshRecord DEF Call, Ops, Loops, Pcs
  <2>3. Step(c, r)
    BY <2>1
  <2> HIDE DEF r
  <2>4. ClientInv(c)'
    BY <1>1, <2>2, <2>3, StepTypes DEF ClientInv, Loops
  <2> QED BY <1>1, <2>2, <2>3, <2>4, QuietStepKeepsInv
<1>3. ASSUME NEW r \in Call, Step(c, r), r.op # "create",
             r.op = "delete" \/ r.pc # "put", r.op = "update" => r.pc = "get"
      PROVE  StoreInv'
  <2>1. ClientInv(c)'
    BY <1>1, <1>3, StepTypes DEF ClientInv, Loops
  <2> QED BY <1>1, <1>3, <2>1, QuietStepKeepsInv
<1>4. CASE Step(c, [Idle EXCEPT !.op = "update", !.pc = "get"])
  <2> DEFINE r == [Idle EXCEPT !.op = "update", !.pc = "get"]
  <2>1. r \in Call /\ r.op = "update" /\ r.pc = "get"
    BY IdleIsCall DEF Call, Ops, Loops, Pcs
  <2> QED BY <1>3, <1>4, <2>1
<1>5. ASSUME NEW op \in {"cancel", "bffCancel"},
             Step(c, [Idle EXCEPT !.op = op, !.pc = "read", !.first = etag])
      PROVE  StoreInv'
  <2> DEFINE r == [Idle EXCEPT !.op = op, !.pc = "read", !.first = etag]
  <2>1. r \in Call /\ r.op = op /\ r.pc = "read"
    BY <1>1, IdleIsCall DEF Call, Ops, Loops, Pcs
  <2> QED BY <1>3, <1>5, <2>1
<1>6. CASE Step(c, [Idle EXCEPT !.op = "delete", !.pc = "put"])
  <2> DEFINE r == [Idle EXCEPT !.op = "delete", !.pc = "put"]
  <2>1. r \in Call /\ r.op = "delete" /\ r.pc = "put"
    BY IdleIsCall DEF Call, Ops, Loops, Pcs
  <2> QED BY <1>3, <1>6, <2>1
<1> QED BY <1>2, <1>4, <1>5, <1>6 DEF Begin

LEMMA GetRunKeepsInv ==
  ASSUME StoreInv, NEW c \in Clients, GetRun(c) PROVE StoreInv'
<1>1. /\ TypeOK /\ calls' \in 0..MaxCalls /\ etag \in Nat /\ Untouched
      /\ call[c] \in Call /\ call[c].op = "update"
      /\ object' \in Record \cup {NoRun}
  BY DEF StoreInv, TypeOK, GetRun, Untouched
<1>2. CASE Return(c, "absent")
  BY <1>1, <1>2, ReturnKeepsInv DEF Results
<1>3. CASE object # NoRun /\ ~Return(c, "absent")
  <2>1. PICK s \in States \ {"queued"}, a \in BOOLEAN :
          Step(c, [call[c] EXCEPT
                     !.pc = "read", !.first = etag,
                     !.want = [object EXCEPT !.state = s, !.ack = a]])
    BY <1>3 DEF GetRun
  <2> DEFINE w == [object EXCEPT !.state = s, !.ack = a]
             r == [call[c] EXCEPT !.pc = "read", !.first = etag, !.want = w]
  <2>2. w \in Record /\ w.state # "queued"
    BY <1>1, <1>3 DEF TypeOK, Record
  <2> HIDE DEF w
  <2>3. r \in Call /\ r.pc = "read" /\ r.want = w
    BY <1>1, <2>2 DEF Call, Pcs
  <2>4. Step(c, r)
    BY <2>1 DEF w
  <2> HIDE DEF r
  <2>5. ClientInv(c)'
    BY <1>1, <2>2, <2>3, <2>4, StepTypes DEF ClientInv, Loops
  <2> QED BY <1>1, <2>3, <2>4, <2>5, QuietStepKeepsInv
<1> QED BY <1>2, <1>3 DEF GetRun

LEMMA CreatePutKeepsInv ==
  ASSUME StoreInv, NEW c \in Clients, CreatePut(c) PROVE StoreInv'
<1>1. /\ TypeOK /\ calls' \in 0..MaxCalls /\ etag \in Nat
      /\ call[c] \in Call /\ call[c].want \in Record
      /\ call[c].op = "create"
  BY DEF StoreInv, TypeOK, CreatePut, Call
<1>2. CASE object = NoRun
  <2>1. object' \in Record \cup {NoRun} /\ etag' = etag + 1
    BY <1>1, <1>2 DEF CreatePut, Store
  <2>2. Return(c, "created") \/ Return(c, "error")
    BY <1>2 DEF CreatePut
  <2> QED BY <1>1, <2>1, <2>2, ReturnKeepsInv DEF Results
<1>3. CASE object # NoRun
  <2> DEFINE r == [call[c] EXCEPT !.pc = "exists"]
  <2>1. Step(c, r) /\ Untouched
    BY <1>3 DEF CreatePut
  <2>2. r \in Call /\ r.op = "create" /\ r.pc = "exists"
    BY <1>1 DEF Call, Pcs
  <2> HIDE DEF r
  <2>3. ClientInv(c)'
    BY <1>1, <2>1, <2>2, StepTypes DEF ClientInv, Loops
  <2> QED BY <1>1, <2>1, <2>2, <2>3, QuietStepKeepsInv
<1> QED BY <1>2, <1>3

LEMMA CreateExistsKeepsInv ==
  ASSUME StoreInv, NEW c \in Clients, CreateExists(c) PROVE StoreInv'
<1>1. /\ calls' \in 0..MaxCalls /\ Untouched
      /\ object' \in Record \cup {NoRun}
      /\ Return(c, "error") \/ Return(c, "exists")
  BY DEF StoreInv, TypeOK, CreateExists, Untouched
<1> QED BY <1>1, ReturnKeepsInv DEF Results

(* A loop that goes on to its put read a body it may overwrite.              *)
LEMMA UnsettledBody ==
  ASSUME NEW k, k.op \in Loops,
         Settled(k, object) = "none"
  PROVE  object # NoRun /\ (k.op # "cancel" => ~Done(object))
BY DEF Settled, Loops

LEMMA SettledIsResult ==
  ASSUME NEW k, k.op \in Loops
  PROVE  Settled(k, object) \in Results
BY DEF Settled, Results, Loops

LEMMA ReadKeepsInv ==
  ASSUME StoreInv, NEW c \in Clients, Read(c) PROVE StoreInv'
<1>1. /\ TypeOK /\ calls' \in 0..MaxCalls /\ Untouched /\ etag \in Nat
      /\ object' \in Record \cup {NoRun}
      /\ call[c] \in Call /\ call[c].op \in Loops /\ call[c].pc = "read"
      /\ call[c].op = "update" => call[c].want.state # "queued"
  BY DEF StoreInv, TypeOK, Read, Untouched, ClientInv
<1> DEFINE settled == Settled(call[c], object)
<1>2. CASE settled # "none"
  <2>1. Return(c, settled) /\ settled \in Results
    BY <1>1, <1>2, SettledIsResult DEF Read
  <2> QED BY <1>1, <2>1, ReturnKeepsInv
<1>3. CASE settled = "none"
  <2>1. object \in Record /\ (call[c].op # "cancel" => ~Done(object))
    BY <1>1, <1>3, UnsettledBody DEF TypeOK
  <2> DEFINE r == [call[c] EXCEPT !.pc = "put", !.seen = object, !.tag = etag]
  <2>2. Step(c, r)
    BY <1>3 DEF Read
  <2>3. /\ r \in Call /\ r.pc = "put" /\ r.seen = object /\ r.tag = etag
        /\ r.op = call[c].op /\ r.want = call[c].want
    BY <1>1, <2>1 DEF Call, Pcs
  <2> HIDE DEF r
  <2>4. ClientInv(c)'
    BY <1>1, <2>1, <2>2, <2>3, StepTypes
    DEF ClientInv, Untouched, Matches, Loops, Done
  <2> QED BY <1>1, <2>2, <2>3, <2>4, QuietStepKeepsInv
<1> QED BY <1>2, <1>3

LEMMA ConditionalPutKeepsInv ==
  ASSUME StoreInv, NEW c \in Clients, ConditionalPut(c) PROVE StoreInv'
<1> DEFINE k == call[c]
<1>1. /\ TypeOK /\ calls' \in 0..MaxCalls /\ etag \in Nat
      /\ k \in Call /\ k.op \in Loops /\ k.pc = "put"
      /\ k.tries \in 0..CasAttempts
      /\ Rounds(k) \in Nat
  BY DEF StoreInv, TypeOK, ConditionalPut, Call, Rounds
<1>2. CASE Matches(k)
  <2>1. object' \in Record \cup {NoRun} /\ etag' = etag + 1
    BY <1>1, <1>2, NewBodyIsRecord DEF ConditionalPut, Store
  <2>2. Return(c, "written") \/ Return(c, "error")
    BY <1>2 DEF ConditionalPut
  <2> QED BY <1>1, <2>1, <2>2, ReturnKeepsInv DEF Results
<1>3. CASE ~Matches(k) /\ k.tries + 1 < Rounds(k)
  <2> DEFINE r == [k EXCEPT !.pc = "read", !.tries = @ + 1]
  <2>1. Step(c, r) /\ Untouched
    BY <1>1, <1>3 DEF ConditionalPut
  <2>2. k.tries + 1 \in 0..CasAttempts
    BY <1>1, <1>3 DEF Rounds
  <2>5. k.op = "update" => k.want.state # "queued"
    BY <1>1 DEF StoreInv, ClientInv
  <2>3. r \in Call /\ r.op = k.op /\ r.pc = "read" /\ r.want = k.want
    BY <1>1, <2>2 DEF Call, Pcs
  <2> HIDE DEF r
  <2>4. ClientInv(c)'
    BY <1>1, <2>1, <2>3, <2>5, StepTypes DEF ClientInv, Loops
  <2> QED BY <1>1, <2>1, <2>3, <2>4, QuietStepKeepsInv
<1>4. CASE ~Matches(k) /\ k.tries + 1 = Rounds(k)
  <2> DEFINE r == [Idle EXCEPT !.op = k.op, !.result = "conflict",
                               !.tries = k.tries + 1, !.first = k.first]
  <2>1. Step(c, r) /\ Untouched
    BY <1>1, <1>4 DEF ConditionalPut
  <2>2. k.tries + 1 \in 0..CasAttempts
    BY <1>1, <1>4 DEF Rounds
  <2>3. r \in Call /\ r.pc = "idle"
    BY <1>1, <2>2, IdleIsCall DEF Call, Pcs, Results, Idle
  <2> HIDE DEF r
  <2>4. ClientInv(c)'
    BY <1>1, <2>1, <2>3, StepTypes, IdleKeepsInv
  <2> QED BY <1>1, <2>1, <2>3, <2>4, QuietStepKeepsInv
<1> QED BY <1>2, <1>3, <1>4 DEF ConditionalPut

LEMMA DeleteObjectKeepsInv ==
  ASSUME StoreInv, NEW c \in Clients, DeleteObject(c) PROVE StoreInv'
<1>1. /\ calls' \in 0..MaxCalls
      /\ object' \in Record \cup {NoRun}
      /\ Untouched \/ (etag' = etag + 1)
      /\ Return(c, "written")
  BY DEF StoreInv, TypeOK, DeleteObject, Untouched, Store
<1> QED BY <1>1, ReturnKeepsInv DEF Results

LEMMA RequestFailsKeepsInv ==
  ASSUME StoreInv, NEW c \in Clients, RequestFails(c) PROVE StoreInv'
<1>1. /\ calls' \in 0..MaxCalls
      /\ object' \in Record \cup {NoRun}
      /\ Untouched
      /\ Return(c, "error")
  BY DEF StoreInv, TypeOK, RequestFails, Untouched
<1> QED BY <1>1, ReturnKeepsInv DEF Results

(* StoreInv is inductive.                                                    *)
THEOREM StoreInvariant == Spec => []StoreInv
<1>1. Init => StoreInv
  BY IdleIsCall DEF Init, StoreInv, TypeOK, ClientInv, Idle
<1>2. StoreInv /\ [Next]_vars => StoreInv'
  <2> SUFFICES ASSUME StoreInv, [Next]_vars PROVE StoreInv'
    OBVIOUS
  <2>1. ASSUME NEW c \in Clients, ClientNext(c) PROVE StoreInv'
    BY <2>1, BeginKeepsInv, GetRunKeepsInv, CreatePutKeepsInv,
       CreateExistsKeepsInv, ReadKeepsInv, ConditionalPutKeepsInv,
       DeleteObjectKeepsInv, RequestFailsKeepsInv DEF ClientNext, Proceed
  <2>2. CASE UNCHANGED vars
    BY <2>2 DEF vars, StoreInv, TypeOK, ClientInv, Matches, Done
  <2> QED BY <2>1, <2>2 DEF Next, Rest
<1> QED BY <1>1, <1>2, PTL DEF Spec

(* Every stored body and every call record is well formed.                   *)
THEOREM StoreTypeOK == Spec => []TypeOK
BY StoreInvariant, PTL DEF StoreInv

(* A put only succeeds over the body its caller read, and only over a run    *)
(* that caller may change: get followed by a conditional put is atomic.      *)
THEOREM SnapshotsAreCurrent == Spec => []SnapshotIsCurrent
<1>1. StoreInv => SnapshotIsCurrent
  BY DEF StoreInv, ClientInv, SnapshotIsCurrent
<1> QED BY <1>1, StoreInvariant, PTL

-----------------------------------------------------------------------------
(* Refinement: which life-cycle step each write is.                          *)

(* RunLifecycle speaks of the same records as RunStore.                      *)
LEMMA SameRecords ==
  /\ Lifecycle!States = States
  /\ \A r : Lifecycle!Done(r) <=> Done(r)
  /\ \A s : Lifecycle!Fresh(s) = Fresh(s)
BY DEF Lifecycle!States, States, Lifecycle!Active, Active, Lifecycle!Terminal,
       Terminal, Lifecycle!Done, Done, Lifecycle!Fresh, Fresh

(* A put that matches writes what Advance or RequestCancel allows.           *)
LEMMA PutIsLifecycleStep ==
  ASSUME StoreInv, NEW c \in Clients, ConditionalPut(c), object' # object
  PROVE  Lifecycle!Advance \/ Lifecycle!RequestCancel
<1> DEFINE k == call[c]
<1>1. /\ Matches(k) /\ object' = NewBody(k)
      /\ k \in Call /\ k.op \in Loops /\ k.pc = "put"
  BY DEF ConditionalPut, Untouched, Store, StoreInv, TypeOK
<1>2. ClientInv(c)
  BY DEF StoreInv
<1>3. object = k.seen /\ object # NoRun /\ k.seen \in Record /\ k.want \in Record
  BY <1>1, <1>2 DEF ClientInv, Matches, Call
<1> HIDE DEF k
<1>4. CASE k.op = "update"
  <2>1. ~Done(object) /\ k.want.state # "queued"
    BY <1>1, <1>2, <1>3, <1>4 DEF ClientInv, k
  <2>2. object' = Merge(object, k.want)
    BY <1>1, <1>3, <1>4 DEF NewBody
  <2>3. object' \in [state  : States \ {"queued"},
                     cancel : {x \in BOOLEAN : object.cancel => x},
                     ack    : {x \in BOOLEAN : object.ack => x}]
    BY <1>3, <2>1, <2>2 DEF Merge, Record
  <2> QED BY <1>3, <2>1, <2>3, SameRecords DEF Lifecycle!Advance
<1>5. CASE k.op # "update"
  <2>1. object' = [object EXCEPT !.cancel = TRUE]
    BY <1>1, <1>3, <1>5 DEF NewBody
  <2> QED BY <1>3, <2>1 DEF Lifecycle!RequestCancel
<1> QED BY <1>4, <1>5

LEMMA EveryStepIsLifecycleStep ==
  ASSUME StoreInv, [Next]_vars PROVE [Lifecycle!Next]_object
<1>1. ASSUME NEW c \in Clients, ClientNext(c), object' # object
      PROVE  Lifecycle!Next
  <2>1. CASE CreatePut(c)
    <3>1. object = NoRun /\ object' = call[c].want /\ ClientInv(c)
      BY <1>1, <2>1 DEF CreatePut, Untouched, Store, StoreInv
    <3>2. PICK s \in {"queued", "preparing", "skipped"} :
            call[c].want = Fresh(s)
      BY <2>1, <3>1 DEF CreatePut, ClientInv
    <3> QED BY <3>1, <3>2, SameRecords DEF Lifecycle!Next, Lifecycle!Create
  <2>2. CASE ConditionalPut(c)
    BY <1>1, <2>2, PutIsLifecycleStep DEF Lifecycle!Next
  <2>3. CASE DeleteObject(c)
    BY <1>1, <2>3 DEF DeleteObject, Untouched, Store,
                      Lifecycle!Next, Lifecycle!Delete
  <2> QED BY <1>1, <2>1, <2>2, <2>3
      DEF ClientNext, Proceed, Begin, GetRun, CreateExists, Read,
          RequestFails, Untouched
<1> QED BY <1>1 DEF Next, Rest, vars

(* The interleaved HTTP requests of every client behave, at the object, as   *)
(* atomic creations, merges, cancellations and deletions.                    *)
THEOREM StoreImplementsLifecycle == Spec => ImplementsLifecycle
<1>1. Init => Lifecycle!Init
  BY DEF Init, Lifecycle!Init
<1>2. StoreInv /\ [Next]_vars => [Lifecycle!Next]_object
  BY EveryStepIsLifecycleStep
<1> QED BY <1>1, <1>2, StoreInvariant, PTL
    DEF Spec, Lifecycle!Spec, ImplementsLifecycle

-----------------------------------------------------------------------------
(* What the life cycle promises, the stored object keeps.                    *)

LEMMA StepPromises ==
  ASSUME StoreInv, [Next]_vars, object # NoRun, object' # NoRun
  PROVE  /\ Done(object) => object'.state = object.state
         /\ object.cancel => object'.cancel
         /\ object.ack => object'.ack
         /\ object'.state = "queued" => object.state = "queued"
<1>1. object \in Record
  BY DEF StoreInv, TypeOK
<1>2. CASE Lifecycle!Advance
  BY <1>2, SameRecords DEF Lifecycle!Advance
<1>3. CASE Lifecycle!RequestCancel
  BY <1>1, <1>3 DEF Lifecycle!RequestCancel, Record
<1>4. CASE UNCHANGED object
  BY <1>4
<1>5. [Lifecycle!Next]_object
  BY EveryStepIsLifecycleStep
<1> QED BY <1>2, <1>3, <1>4, <1>5
        DEF Lifecycle!Next, Lifecycle!Create, Lifecycle!Delete

(* A persisted terminal outcome is never replaced: not by a late finisher,   *)
(* a second worker or a cancellation.                                        *)
THEOREM TerminalFinality == Spec => Lifecycle!TerminalIsFinal
<1>1. StoreInv /\ [Next]_vars =>
        [object # NoRun /\ object' # NoRun /\ Done(object)
           => object'.state = object.state]_object
  BY StepPromises
<1>2. StoreInv /\ [Next]_vars =>
        [object # NoRun /\ object' # NoRun /\ Lifecycle!Done(object)
           => object'.state = object.state]_object
  BY <1>1, SameRecords
<1> QED BY <1>2, StoreInvariant, PTL DEF Spec, Lifecycle!TerminalIsFinal

(* Cancellation requests and acknowledgements survive every rewrite of the   *)
(* whole object from an older snapshot.                                      *)
THEOREM StickyFlags == Spec => Lifecycle!FlagsAreSticky
<1>1. StoreInv /\ [Next]_vars =>
        [object # NoRun /\ object' # NoRun =>
           (object.cancel => object'.cancel) /\ (object.ack => object'.ack)]_object
  BY StepPromises
<1> QED BY <1>1, StoreInvariant, PTL DEF Spec, Lifecycle!FlagsAreSticky

(* Only a run that is still queued is seen queued again.                     *)
THEOREM NoRequeue == Spec => Lifecycle!NeverRequeued
<1>1. StoreInv /\ [Next]_vars =>
        [object # NoRun /\ object' # NoRun /\ object'.state = "queued" =>
           object.state = "queued"]_object
  BY StepPromises
<1> QED BY <1>1, StoreInvariant, PTL DEF Spec, Lifecycle!NeverRequeued

(* A completed run's record is never rewritten by a Studio cancellation.     *)
THEOREM CompletedRunsAreNotCancelled == Spec => CompletedRunsRefuseCancel
<1>1. ASSUME StoreInv, [Next]_vars, NEW c \in Clients,
             object # NoRun, Done(object), call[c].op = "bffCancel",
             call[c] # call'[c]
      PROVE  object' = object
  <2>1. PICK d \in Clients : ClientNext(d)
    BY <1>1 DEF Next, Rest, vars
  <2>2. ASSUME NEW e \in Clients, NEW r, Step(e, r) PROVE c = e
    BY <1>1, <2>2 DEF Step, StoreInv, TypeOK
  <2>3. c = d
    BY <2>1, <2>2 DEF ClientNext, Proceed, Begin, GetRun, CreatePut,
          CreateExists, Read, ConditionalPut, DeleteObject, RequestFails, Return
  <2>4. ClientInv(c)
    BY <1>1 DEF StoreInv
  <2>5. CASE ConditionalPut(c)
    BY <1>1, <2>4, <2>5 DEF ConditionalPut, ClientInv, Untouched, Loops
  <2> QED BY <1>1, <2>1, <2>3, <2>5
      DEF ClientNext, Proceed, Begin, GetRun, CreatePut, CreateExists, Read,
          DeleteObject, RequestFails, Untouched
<1>2. StoreInv /\ [Next]_vars =>
        [\A c \in Clients :
           object # NoRun /\ Done(object) /\ call[c].op = "bffCancel"
             /\ call[c] # call'[c] => object' = object]_vars
  BY <1>1
<1> QED BY <1>2, StoreInvariant, PTL DEF Spec, CompletedRunsRefuseCancel

-----------------------------------------------------------------------------
(* A reported conflict: what the refused rounds of a loop prove.             *)

(* Each refused round of c's loop was refused by a write of its own, later   *)
(* than the read before it; a delete counts as one, because it also moves    *)
(* the ETag away from the one that was read.                                 *)
RoundsInv(c) ==
  LET k == call[c] IN
  /\ k.pc # "idle" => k.result = "none"
  /\ k.pc = "get" => k.tries = 0
  /\ k.op \in Loops /\ k.pc = "read" =>
       k.tries < Rounds(k) /\ k.first + k.tries <= etag
  /\ k.op \in Loops /\ k.pc = "put" =>
       /\ k.tries < Rounds(k) /\ k.first + k.tries <= k.tag
       /\ k.tag = etag => object # NoRun
  /\ k.result = "conflict" => k.first + Rounds(k) <= etag

ContentionInv == \A c \in Clients : RoundsInv(c)

LEMMA RoundsPositive ==
  ASSUME NEW k PROVE Rounds(k) \in Nat \ {0} /\ Rounds(k) <= CasAttempts
BY DEF Rounds

(* The clients that do not move: writes of others only raise the ETag.       *)
LEMMA OthersKeepRounds ==
  ASSUME StoreInv, ContentionInv, NEW c \in Clients,
         \A d \in Clients \ {c} : call'[d] = call[d],
         Untouched \/ (etag' = etag + 1),
         RoundsInv(c)'
  PROVE  ContentionInv'
<1> SUFFICES ASSUME NEW d \in Clients \ {c} PROVE RoundsInv(d)'
  BY DEF ContentionInv
<1>1. /\ RoundsInv(d) /\ ClientInv(d) /\ call'[d] = call[d]
      /\ call[d] \in Call /\ etag \in Nat
  BY DEF StoreInv, TypeOK, ContentionInv
<1>2. /\ call[d].tag \in Nat /\ call[d].first \in Nat /\ call[d].tries \in Nat
      /\ Rounds(call[d]) \in Nat /\ Rounds(call'[d]) = Rounds(call[d])
  BY <1>1, RoundsPositive DEF Call
<1>3. CASE Untouched
  BY <1>1, <1>2, <1>3 DEF RoundsInv, Untouched
<1>4. CASE etag' = etag + 1
  BY <1>1, <1>2, <1>4 DEF RoundsInv, ClientInv
<1> QED BY <1>3, <1>4

(* A call that returns anything but a conflict reports nothing.              *)
LEMMA ReturnKeepsRounds ==
  ASSUME StoreInv, ContentionInv, NEW c \in Clients,
         NEW r \in Results \ {"conflict"}, Return(c, r),
         Untouched \/ (etag' = etag + 1)
  PROVE  ContentionInv'
<1>1. TypeOK
  BY DEF StoreInv
<1>2. call'[c].pc = "idle" /\ call'[c].result = r
  BY <1>1 DEF Return, Step, Idle, TypeOK
<1>3. RoundsInv(c)'
  BY <1>2 DEF RoundsInv
<1> QED BY <1>1, <1>3, ReturnTypes, OthersKeepRounds

(* A step of c to the call r that leaves the object alone.                   *)
LEMMA QuietStepKeepsRounds ==
  ASSUME StoreInv, ContentionInv, NEW c \in Clients, NEW r, Step(c, r),
         Untouched, RoundsInv(c)'
  PROVE  ContentionInv'
<1>1. \A d \in Clients \ {c} : call'[d] = call[d]
  BY DEF Step, StoreInv, TypeOK
<1> QED BY <1>1, OthersKeepRounds

LEMMA BeginKeepsRounds ==
  ASSUME StoreInv, ContentionInv, NEW c \in Clients, Begin(c)
  PROVE  ContentionInv'
<1>1. call \in [Clients -> Call] /\ etag \in Nat /\ Untouched
  BY DEF StoreInv, TypeOK, Begin
<1>2. ASSUME NEW r, Step(c, r), r.result = "none", r.tries = 0, r.first \in Nat,
             r.op \in Loops => r.pc # "put" /\ r.first <= etag
      PROVE  ContentionInv'
  <2>1. call'[c] = r
    BY <1>1, <1>2 DEF Step
  <2>2. RoundsInv(c)'
    BY <1>1, <1>2, <2>1, RoundsPositive DEF RoundsInv, Untouched
  <2> QED BY <1>1, <1>2, <2>2, QuietStepKeepsRounds
<1>3. CASE \E s \in {"queued", "preparing", "skipped"} :
             Step(c, [Idle EXCEPT !.op = "create", !.pc = "put",
                                  !.want = Fresh(s)])
  BY <1>1, <1>2, <1>3 DEF Idle, Loops
<1>4. CASE Step(c, [Idle EXCEPT !.op = "update", !.pc = "get"])
  <2> DEFINE r == [Idle EXCEPT !.op = "update", !.pc = "get"]
  <2>1. /\ r.result = "none" /\ r.tries = 0 /\ r.first = 0 /\ r.pc = "get"
        /\ Step(c, r)
    BY <1>4 DEF Idle
  <2> HIDE DEF r
  <2> QED BY <1>1, <1>2, <2>1
<1>5. CASE \E op \in {"cancel", "bffCancel"} :
             Step(c, [Idle EXCEPT !.op = op, !.pc = "read", !.first = etag])
  <2>1. PICK op \in {"cancel", "bffCancel"} :
          Step(c, [Idle EXCEPT !.op = op, !.pc = "read", !.first = etag])
    BY <1>5
  <2> DEFINE r == [Idle EXCEPT !.op = op, !.pc = "read", !.first = etag]
  <2>2. /\ r.result = "none" /\ r.tries = 0 /\ r.first = etag /\ r.pc = "read"
        /\ Step(c, r)
    BY <2>1 DEF Idle
  <2> HIDE DEF r
  <2> QED BY <1>1, <1>2, <2>2
<1>6. CASE Step(c, [Idle EXCEPT !.op = "delete", !.pc = "put"])
  BY <1>1, <1>2, <1>6 DEF Idle, Loops
<1> QED BY <1>3, <1>4, <1>5, <1>6 DEF Begin

LEMMA GetRunKeepsRounds ==
  ASSUME StoreInv, ContentionInv, NEW c \in Clients, GetRun(c)
  PROVE  ContentionInv'
<1>1. /\ call \in [Clients -> Call] /\ call[c] \in Call /\ etag \in Nat
      /\ Untouched /\ RoundsInv(c) /\ call[c].pc = "get"
  BY DEF StoreInv, TypeOK, ContentionInv, GetRun
<1>2. CASE Return(c, "absent")
  BY <1>1, <1>2, ReturnKeepsRounds DEF Results
<1>3. CASE ~Return(c, "absent")
  <2>1. PICK w : Step(c, [call[c] EXCEPT !.pc = "read", !.first = etag,
                                         !.want = w])
    BY <1>3 DEF GetRun
  <2> DEFINE r == [call[c] EXCEPT !.pc = "read", !.first = etag, !.want = w]
  <2>2. /\ r.pc = "read" /\ r.first = etag /\ r.tries = 0 /\ r.result = "none"
        /\ call'[c] = r
    BY <1>1, <2>1 DEF Call, RoundsInv, Step
  <2>3. RoundsInv(c)'
    BY <1>1, <2>2, RoundsPositive DEF RoundsInv, Untouched
  <2> QED BY <1>1, <2>1, <2>3, QuietStepKeepsRounds
<1> QED BY <1>2, <1>3

LEMMA ReadKeepsRounds ==
  ASSUME StoreInv, ContentionInv, NEW c \in Clients, Read(c)
  PROVE  ContentionInv'
<1> DEFINE settled == Settled(call[c], object)
<1>1. /\ call \in [Clients -> Call] /\ call[c] \in Call /\ etag \in Nat
      /\ Untouched /\ RoundsInv(c)
      /\ call[c].op \in Loops /\ call[c].pc = "read"
  BY DEF StoreInv, TypeOK, ContentionInv, Read
<1>2. CASE settled # "none"
  <2>1. settled \in Results \ {"conflict"}
    BY <1>1 DEF Settled, Results, Loops
  <2> QED BY <1>1, <1>2, <2>1, ReturnKeepsRounds DEF Read
<1>3. CASE settled = "none"
  <2> DEFINE r == [call[c] EXCEPT !.pc = "put", !.seen = object, !.tag = etag]
  <2>1. Step(c, r) /\ object # NoRun
    BY <1>1, <1>3, UnsettledBody DEF Read
  <2>2. /\ call'[c] = r /\ r.pc = "put" /\ r.tag = etag /\ r.op = call[c].op
        /\ r.first = call[c].first /\ r.tries = call[c].tries
        /\ r.result = "none"
    BY <1>1, <2>1 DEF Step, Call, RoundsInv
  <2> HIDE DEF r
  <2>3. Rounds(r) = Rounds(call[c])
    BY <2>2 DEF Rounds
  <2>4. RoundsInv(c)'
    BY <1>1, <2>1, <2>2, <2>3 DEF RoundsInv, Untouched
  <2> QED BY <1>1, <2>1, <2>4, QuietStepKeepsRounds
<1> QED BY <1>2, <1>3

LEMMA ConditionalPutKeepsRounds ==
  ASSUME StoreInv, ContentionInv, NEW c \in Clients, ConditionalPut(c)
  PROVE  ContentionInv'
<1> DEFINE k == call[c]
<1>1. /\ call \in [Clients -> Call] /\ k \in Call /\ etag \in Nat
      /\ RoundsInv(c) /\ ClientInv(c) /\ k.op \in Loops /\ k.pc = "put"
      /\ Rounds(k) \in Nat
      /\ k.tag \in Nat /\ k.first \in Nat /\ k.tries \in Nat
  BY RoundsPositive DEF StoreInv, TypeOK, ContentionInv, ConditionalPut, Call
<1>2. CASE Matches(k)
  <2>1. etag' = etag + 1 /\ (Return(c, "written") \/ Return(c, "error"))
    BY <1>2 DEF ConditionalPut, Store
  <2> QED BY <2>1, ReturnKeepsRounds DEF Results
<1>3. ~Matches(k) => k.first + k.tries + 1 <= etag
  BY <1>1 DEF Matches, RoundsInv, ClientInv
<1>4. CASE ~Matches(k) /\ k.tries + 1 < Rounds(k)
  <2> DEFINE r == [k EXCEPT !.pc = "read", !.tries = @ + 1]
  <2>1. Step(c, r) /\ Untouched
    BY <1>1, <1>4 DEF ConditionalPut
  <2>2. /\ call'[c] = r /\ r.pc = "read" /\ r.op = k.op
        /\ r.first = k.first /\ r.tries = k.tries + 1 /\ r.result = "none"
    BY <1>1, <2>1 DEF Step, Call, RoundsInv
  <2> HIDE DEF r
  <2>3. Rounds(r) = Rounds(k)
    BY <2>2 DEF Rounds
  <2> HIDE DEF k
  <2>4. RoundsInv(c)'
    BY <1>1, <1>3, <1>4, <2>1, <2>2, <2>3 DEF RoundsInv, Untouched
  <2> QED BY <2>1, <2>4, QuietStepKeepsRounds
<1>5. CASE ~Matches(k) /\ k.tries + 1 = Rounds(k)
  <2> DEFINE r == [Idle EXCEPT !.op = k.op, !.result = "conflict",
                               !.tries = k.tries + 1, !.first = k.first]
  <2>1. Step(c, r) /\ Untouched
    BY <1>1, <1>5 DEF ConditionalPut
  <2>2. /\ call'[c] = r /\ r.pc = "idle" /\ r.op = k.op
        /\ r.first = k.first
    BY <1>1, <2>1 DEF Step, Idle
  <2> HIDE DEF r
  <2>3. Rounds(r) = Rounds(k)
    BY <2>2 DEF Rounds
  <2> HIDE DEF k
  <2>4. RoundsInv(c)'
    BY <1>1, <1>3, <1>5, <2>1, <2>2, <2>3 DEF RoundsInv, Untouched
  <2> QED BY <2>1, <2>4, QuietStepKeepsRounds
<1> QED BY <1>2, <1>4, <1>5 DEF ConditionalPut

(* Creating, deleting and failing: a step that returns, or looks again.      *)
LEMMA OtherStepsKeepRounds ==
  ASSUME StoreInv, ContentionInv, NEW c \in Clients,
         CreatePut(c) \/ CreateExists(c) \/ DeleteObject(c) \/ RequestFails(c)
  PROVE  ContentionInv'
<1>1. Untouched \/ (etag' = etag + 1)
  BY DEF CreatePut, CreateExists, DeleteObject, RequestFails, Store, Untouched
<1>2. CASE \E r \in {"created", "error", "exists", "written"} : Return(c, r)
  BY <1>1, <1>2, ReturnKeepsRounds DEF Results
<1>3. CASE CreatePut(c) /\ Step(c, [call[c] EXCEPT !.pc = "exists"]) /\ Untouched
  <2>1. /\ call \in [Clients -> Call] /\ call[c] \in Call /\ RoundsInv(c)
        /\ call[c].op = "create" /\ call[c].pc = "put"
    BY <1>3 DEF StoreInv, TypeOK, ContentionInv, CreatePut
  <2>2. /\ call'[c].pc = "exists" /\ call'[c].op = "create"
        /\ call'[c].result = "none"
    BY <1>3, <2>1 DEF Step, Call, RoundsInv
  <2>3. RoundsInv(c)'
    BY <2>2 DEF RoundsInv, Loops
  <2> QED BY <1>3, <2>3, QuietStepKeepsRounds
<1> QED BY <1>2, <1>3 DEF CreatePut, CreateExists, DeleteObject, RequestFails

(* SchedulerStorageConflict is raised only after every round of the loop     *)
(* was refused because someone else wrote the object in that round.          *)
THEOREM ConflictsAreEarned == Spec => []ConflictOnlyUnderContention
<1>1. Init => ContentionInv
  BY DEF Init, ContentionInv, RoundsInv, Idle
<1>2. StoreInv /\ ContentionInv /\ [Next]_vars => ContentionInv'
  <2> SUFFICES ASSUME StoreInv, ContentionInv, [Next]_vars
               PROVE  ContentionInv'
    OBVIOUS
  <2>1. ASSUME NEW c \in Clients, ClientNext(c) PROVE ContentionInv'
    BY <2>1, BeginKeepsRounds, GetRunKeepsRounds, ReadKeepsRounds,
       ConditionalPutKeepsRounds, OtherStepsKeepRounds DEF ClientNext, Proceed
  <2>2. CASE UNCHANGED vars
    BY <2>2 DEF vars, ContentionInv, RoundsInv, Rounds
  <2> QED BY <2>1, <2>2 DEF Next, Rest
<1>3. StoreInv /\ ContentionInv => ConflictOnlyUnderContention
  <2> SUFFICES ASSUME StoreInv, ContentionInv, NEW c \in Clients,
                      call[c].result = "conflict"
               PROVE  etag >= call[c].first + Rounds(call[c])
    BY DEF ConflictOnlyUnderContention
  <2>1. call[c].first \in Nat /\ Rounds(call[c]) \in Nat /\ etag \in Nat
    BY RoundsPositive DEF StoreInv, TypeOK, Call
  <2> QED BY <2>1 DEF ContentionInv, RoundsInv
<1> QED BY <1>1, <1>2, <1>3, StoreInvariant, PTL DEF Spec

-----------------------------------------------------------------------------

(***************************************************************************)
(* The objects of a job.                                                   *)
(***************************************************************************)

(* What a call knows of the objects: the lock it is about to replace is one  *)
(* that it may replace, as long as the ETag it read is current; likewise the *)
(* due pointer.                                                              *)
TaskInv(a) ==
  LET k == task[a] IN
  /\ k.at <= clock
  /\ k.op \in {"acquire", "release"} => k.run \in JobRuns
  /\ k.op = "due" => k.rev \in JobRevisions
  /\ k.pc = "holding" => k.op = "acquire"
  /\ k.op \in {"acquire", "release"} /\ k.pc = "replace" =>
       /\ k.tag <= lockTag /\ k.seen \in Lock
       /\ LockMatches(a) => lock = k.seen
       /\ k.op = "acquire" => ~InForce(k.seen, k.at)
       /\ k.op = "release" => k.seen.state = "held" /\ k.seen.run = k.run
  /\ k.op = "due" /\ k.pc = "replace" =>
       k.tag <= dueTag /\ (k.tag = dueTag => due < k.rev)

TasksInv == \A a \in Activations : TaskInv(a)

ObjectsInv == JobTypeOK /\ TasksInv /\ LeaseStands

LEMMA NumbersAreNat ==
  /\ PutRounds \in Nat \ {0} /\ LeaseTime \in Nat /\ LastReading \in Nat
  /\ MaxTasks \in Nat /\ JobRevisions \subseteq Nat \ {0}
BY PutRoundsAssumption, LeaseAssumption, ReadingsAssumption, MaxTasksAssumption,
   RevisionsAssumption

LEMMA NoTaskIsTask == NoTask \in Task
BY NumbersAreNat DEF NoTask, Task, TaskPcs, TaskOps

LEMMA EnterTypes ==
  ASSUME JobTypeOK, NEW a \in Activations, NEW k \in Task, Enter(a, k)
  PROVE  /\ task' \in [Activations -> Task]
         /\ task'[a] = k
         /\ \A b \in Activations \ {a} : task'[b] = task[b]
BY DEF JobTypeOK, Enter

(* The lease of a is a lock that nobody else has.                            *)
LEMMA LeaseTypes ==
  ASSUME JobTypeOK, TasksInv, NEW a \in Activations,
         Using(a) \/ task[a].op = "acquire"
  PROVE  LeaseOf(a) \in Lock /\ LeaseOf(a).by = a
<1>1. /\ task[a] \in Task /\ TaskInv(a)
  BY DEF JobTypeOK, TasksInv
<1>2. task[a].run \in JobRuns /\ task[a].at \in 0..LastReading
  BY <1>1 DEF TaskInv, Using, Task
<1> QED BY <1>2 DEF LeaseOf, Lock

(* The calls that do not move: a write by another only outdates what they    *)
(* read.                                                                     *)
LEMMA OtherTasksKeepInv ==
  ASSUME ObjectsInv, NEW a \in Activations,
         \A b \in Activations \ {a} : task'[b] = task[b],
         clock' = clock,
         UNCHANGED <<lock, lockTag>> \/ lockTag' = lockTag + 1,
         UNCHANGED <<due, dueTag>> \/ dueTag' = dueTag + 1
  PROVE  \A b \in Activations \ {a} : TaskInv(b)'
<1> TAKE b \in Activations \ {a}
<1>1. /\ TaskInv(b) /\ task'[b] = task[b] /\ task[b] \in Task
      /\ lockTag \in Nat /\ dueTag \in Nat
  BY DEF ObjectsInv, JobTypeOK, TasksInv
<1>2. task[b].tag \in Nat
  BY <1>1 DEF Task
<1> DEFINE k == task[b]
<1>3. /\ k.op \in {"acquire", "release"} /\ k.pc = "replace" =>
           k.tag <= lockTag' /\ (LockMatches(b)' => lock' = k.seen)
  BY <1>1, <1>2 DEF TaskInv, LockMatches
<1>4. /\ k.op = "due" /\ k.pc = "replace" =>
           k.tag <= dueTag' /\ (k.tag = dueTag' => due' < k.rev)
  BY <1>1, <1>2 DEF TaskInv
<1> QED BY <1>1, <1>3, <1>4 DEF TaskInv

(* The pieces of ObjectsInv' that a step of activation a has to deliver.     *)
LEMMA TaskStepKeepsInv ==
  ASSUME ObjectsInv, NEW a \in Activations, NEW k \in Task, Enter(a, k),
         clock' = clock, tasks' \in 0..MaxTasks,
         lock' \in Lock \cup {None},
         UNCHANGED <<lock, lockTag>> \/ lockTag' = lockTag + 1,
         due' \in JobRevisions \cup {0},
         UNCHANGED <<due, dueTag>> \/ dueTag' = dueTag + 1,
         freed' \subseteq Activations,
         TaskInv(a)', LeaseStands'
  PROVE  ObjectsInv'
<1>1. JobTypeOK
  BY DEF ObjectsInv
<1>2. /\ task' \in [Activations -> Task]
      /\ \A b \in Activations \ {a} : task'[b] = task[b]
  BY <1>1, EnterTypes
<1>3. JobTypeOK'
  BY <1>1, <1>2 DEF JobTypeOK
<1>4. TasksInv'
  BY <1>2, OtherTasksKeepInv DEF TasksInv
<1> QED BY <1>3, <1>4 DEF ObjectsInv

(* Leases stand when the lock does, and a's lease is not a new one.          *)
LEMMA QuietStepKeepsLeases ==
  ASSUME ObjectsInv, NEW a \in Activations, NEW k \in Task, Enter(a, k),
         clock' = clock, lock' = lock,
         \A b \in Activations \ {a} : b \in freed => b \in freed',
         Live(a)' => Live(a) /\ k.run = task[a].run /\ k.at = task[a].at
  PROVE  LeaseStands'
<1>1. JobTypeOK
  BY DEF ObjectsInv
<1>2. /\ task'[a] = k
      /\ \A b \in Activations \ {a} : task'[b] = task[b]
  BY <1>1, EnterTypes
<1>3. ASSUME NEW b \in Activations, Live(b)' PROVE lock' = LeaseOf(b)'
  <2>1. Live(b) /\ LeaseOf(b)' = LeaseOf(b)
    BY <1>2, <1>3 DEF Live, Using, LeaseOf
  <2> QED BY <2>1 DEF ObjectsInv, LeaseStands
<1> QED BY <1>3 DEF LeaseStands

(* ... or when a replaces it and every other lease is over or freed.         *)
LEMMA WriteKeepsLeases ==
  ASSUME ObjectsInv, NEW a \in Activations, NEW k \in Task, Enter(a, k),
         clock' = clock,
         \A b \in Activations \ {a} : Live(b) => b \in freed',
         \A b \in Activations \ {a} : b \in freed => b \in freed',
         Live(a)' => lock' = LeaseOf(a)'
  PROVE  LeaseStands'
<1>1. JobTypeOK
  BY DEF ObjectsInv
<1>2. \A b \in Activations \ {a} : task'[b] = task[b]
  BY <1>1, EnterTypes
<1>3. ASSUME NEW b \in Activations \ {a} PROVE ~Live(b)'
  BY <1>2, <1>3 DEF Live, Using
<1> QED BY <1>3 DEF LeaseStands

LEMMA NoTaskIsHarmless ==
  ASSUME NEW a \in Activations, task'[a] = NoTask, clock' \in Nat
  PROVE  TaskInv(a)' /\ ~Live(a)'
BY DEF TaskInv, Live, Using, NoTask

-----------------------------------------------------------------------------

LEMMA BeginTaskKeepsInv ==
  ASSUME ObjectsInv, NEW a \in Activations, BeginTask(a) PROVE ObjectsInv'
<1>a. /\ JobTypeOK /\ TasksInv /\ clock' = clock
      /\ UNCHANGED <<lock, lockTag>> /\ UNCHANGED <<due, dueTag>>
      /\ freed' = freed \ {a} /\ tasks < MaxTasks /\ tasks' = tasks + 1
  BY DEF ObjectsInv, BeginTask
<1>b. tasks' \in 0..MaxTasks
  BY <1>a, NumbersAreNat DEF JobTypeOK
<1>1. /\ JobTypeOK /\ TasksInv
      /\ clock' = clock /\ clock \in 0..LastReading
      /\ UNCHANGED <<lock, lockTag>> /\ UNCHANGED <<due, dueTag>>
      /\ lock' \in Lock \cup {None} /\ due' \in JobRevisions \cup {0}
      /\ tasks' \in 0..MaxTasks
      /\ freed' \subseteq Activations
      /\ \A b \in Activations \ {a} : b \in freed => b \in freed'
  BY <1>a, <1>b DEF JobTypeOK
<1>2. ASSUME NEW k \in Task, Enter(a, k), k.at <= clock, k.pc # "holding",
             k.pc # "replace", k.op # "release",
             k.op = "acquire" => k.run \in JobRuns,
             k.op = "due" => k.rev \in JobRevisions
      PROVE  ObjectsInv'
  <2>1. task'[a] = k
    BY <1>1, <1>2, EnterTypes
  <2>2. TaskInv(a)' /\ ~Live(a)'
    BY <1>1, <1>2, <2>1 DEF TaskInv, Live, Using
  <2>3. LeaseStands'
    BY <1>1, <1>2, <2>2, QuietStepKeepsLeases
  <2> QED BY <1>1, <1>2, <2>2, <2>3, TaskStepKeepsInv
<1>3. CASE \E m \in JobRuns :
             Enter(a, [NoTask EXCEPT !.op = "acquire", !.pc = "create",
                                     !.run = m, !.at = clock])
  <2>1. PICK m \in JobRuns :
             Enter(a, [NoTask EXCEPT !.op = "acquire", !.pc = "create",
                                     !.run = m, !.at = clock])
    BY <1>3
  <2> DEFINE k == [NoTask EXCEPT !.op = "acquire", !.pc = "create",
                                 !.run = m, !.at = clock]
  <2>2. /\ k \in Task /\ k.op = "acquire" /\ k.pc = "create" /\ k.run = m
        /\ k.at = clock
    BY <1>1, NoTaskIsTask DEF Task, NoTask, TaskPcs, TaskOps
  <2>3. Enter(a, k)
    BY <2>1
  <2> HIDE DEF k
  <2> QED BY <1>1, <1>2, <2>2, <2>3
<1>4. CASE \E r \in JobRevisions :
             Enter(a, [NoTask EXCEPT !.op = "due", !.pc = "create", !.rev = r])
  <2>1. PICK r \in JobRevisions :
             Enter(a, [NoTask EXCEPT !.op = "due", !.pc = "create", !.rev = r])
    BY <1>4
  <2> DEFINE k == [NoTask EXCEPT !.op = "due", !.pc = "create", !.rev = r]
  <2>2. k \in Task /\ k.op = "due" /\ k.pc = "create" /\ k.rev = r /\ k.at = 0
    BY NoTaskIsTask DEF Task, NoTask, TaskPcs, TaskOps
  <2>3. Enter(a, k)
    BY <2>1
  <2> HIDE DEF k
  <2> QED BY <1>1, <1>2, <2>2, <2>3
<1>5. CASE Enter(a, [NoTask EXCEPT !.pc = "delete"])
  <2> DEFINE k == [NoTask EXCEPT !.pc = "delete"]
  <2>1. k \in Task /\ k.op = "delete" /\ k.pc = "delete" /\ k.at = 0
    BY NoTaskIsTask DEF Task, NoTask, TaskPcs, TaskOps
  <2>2. Enter(a, k)
    BY <1>5
  <2> HIDE DEF k
  <2> QED BY <1>1, <1>2, <2>1, <2>2
<1> QED BY <1>3, <1>4, <1>5 DEF BeginTask

(* A step that leaves the objects alone and ends the call.                   *)
LEMMA LeaveKeepsInv ==
  ASSUME ObjectsInv, NEW a \in Activations, Leave(a),
         UNCHANGED <<clock, lock, lockTag, due, dueTag, tasks, freed>>
  PROVE  ObjectsInv'
<1>1. JobTypeOK /\ clock' \in Nat /\ Enter(a, NoTask)
  BY NumbersAreNat DEF ObjectsInv, JobTypeOK, Leave
<1>2. task'[a] = NoTask
  BY <1>1, NoTaskIsTask, EnterTypes
<1>3. TaskInv(a)' /\ ~Live(a)'
  BY <1>1, <1>2, NoTaskIsHarmless
<1>4. LeaseStands'
  BY <1>1, <1>3, NoTaskIsTask, QuietStepKeepsLeases
<1> QED BY <1>1, <1>3, <1>4, NoTaskIsTask, TaskStepKeepsInv DEF JobTypeOK

(* A step that leaves the objects alone and goes on with the call.           *)
LEMMA GoOnKeepsInv ==
  ASSUME ObjectsInv, NEW a \in Activations, NEW k \in Task, Enter(a, k),
         UNCHANGED <<clock, lock, lockTag, due, dueTag, tasks, freed>>,
         k.run = task[a].run, k.at = task[a].at, TaskInv(a)',
         k.op = "release" => Using(a),
         k.pc # "holding"
  PROVE  ObjectsInv'
<1>1. JobTypeOK
  BY DEF ObjectsInv
<1>2. task'[a] = k
  BY <1>1, EnterTypes
<1>3. Live(a)' => Live(a)
  BY <1>2 DEF Live, Using
<1>4. LeaseStands'
  BY <1>3, QuietStepKeepsLeases
<1> QED BY <1>1, <1>4, TaskStepKeepsInv DEF JobTypeOK

LEMMA ReadAgain ==
  ASSUME ObjectsInv, NEW a \in Activations, NextRound(a),
         UNCHANGED <<clock, lock, lockTag, due, dueTag, tasks, freed>>
  PROVE  ObjectsInv'
<1>1. CASE Leave(a)
  BY <1>1, LeaveKeepsInv
<1>2. CASE ~Leave(a)
  <2> DEFINE k == [task[a] EXCEPT !.pc = "read", !.tries = @ + 1]
  <2>1. task[a] \in Task /\ TaskInv(a) /\ JobTypeOK
    BY DEF ObjectsInv, JobTypeOK, TasksInv
  <2>2. task[a].tries + 1 < PutRounds /\ Enter(a, k)
    BY <1>2 DEF NextRound
  <2>3. task[a].tries + 1 \in 0..PutRounds - 1
    BY <2>1, <2>2, NumbersAreNat DEF Task
  <2>4. /\ k \in Task /\ k.pc = "read" /\ k.op = task[a].op /\ k.rev = task[a].rev
        /\ k.run = task[a].run /\ k.at = task[a].at
    BY <2>1, <2>3 DEF Task, TaskPcs
  <2> HIDE DEF k
  <2>5. task'[a] = k
    BY <2>1, <2>2, <2>4, EnterTypes
  <2>6. TaskInv(a)'
    BY <2>1, <2>4, <2>5 DEF TaskInv
  <2>7. k.op = "release" => Using(a)
    BY <2>4 DEF Using
  <2> QED BY <2>2, <2>4, <2>6, <2>7, GoOnKeepsInv
<1> QED BY <1>1, <1>2

-----------------------------------------------------------------------------

LEMMA CreateLockKeepsInv ==
  ASSUME ObjectsInv, NEW a \in Activations, CreateLock(a) PROVE ObjectsInv'
<1> DEFINE k == task[a]
<1>1. /\ JobTypeOK /\ TasksInv /\ TaskInv(a) /\ k \in Task
      /\ k.op = "acquire" /\ k.pc = "create"
      /\ UNCHANGED clock /\ UNCHANGED <<due, dueTag>>
      /\ UNCHANGED tasks /\ UNCHANGED freed
  BY DEF ObjectsInv, JobTypeOK, TasksInv, CreateLock, In
<1>2. ASSUME NEW pc \in {"read", "holding"},
             Enter(a, [task[a] EXCEPT !.pc = pc])
      PROVE  /\ [task[a] EXCEPT !.pc = pc] \in Task
             /\ task'[a] = [task[a] EXCEPT !.pc = pc]
             /\ task'[a].pc = pc /\ task'[a].op = "acquire"
             /\ task'[a].run = k.run /\ task'[a].at = k.at
             /\ TaskInv(a)'
  <2>1. [task[a] EXCEPT !.pc = pc] \in Task
    BY <1>1 DEF Task, TaskPcs
  <2>2. task'[a] = [task[a] EXCEPT !.pc = pc]
    BY <1>1, <1>2, <2>1, EnterTypes
  <2>3. /\ task'[a].pc = pc /\ task'[a].op = "acquire"
        /\ task'[a].run = k.run /\ task'[a].at = k.at
    BY <1>1, <2>2 DEF Task
  <2>4. TaskInv(a)'
    BY <1>1, <2>3 DEF TaskInv
  <2> QED BY <2>1, <2>2, <2>3, <2>4
<1>3. CASE lock # None
  <2>1. /\ Enter(a, [task[a] EXCEPT !.pc = "read"])
        /\ UNCHANGED lock /\ UNCHANGED lockTag
    BY <1>3 DEF CreateLock
  <2>2. /\ UNCHANGED <<clock, lock, lockTag, due, dueTag, tasks, freed>>
        /\ [task[a] EXCEPT !.pc = "read"].op = "acquire"
        /\ [task[a] EXCEPT !.pc = "read"].pc = "read"
        /\ [task[a] EXCEPT !.pc = "read"].run = k.run
        /\ [task[a] EXCEPT !.pc = "read"].at = k.at
    BY <1>1, <2>1 DEF Task
  <2> QED BY <1>2, <2>1, <2>2, GoOnKeepsInv
<1>4. CASE lock = None
  <2>1. lock' = LeaseOf(a) /\ lockTag' = lockTag + 1
    BY <1>4 DEF CreateLock, WriteLock
  <2>2. LeaseOf(a) \in Lock
    BY <1>1, LeaseTypes
  <2>3. \A b \in Activations : ~Live(b)
    BY <1>1, <1>4, LeaseTypes, NoneAssumption
       DEF ObjectsInv, LeaseStands, Live
  <2>4. CASE Enter(a, [task[a] EXCEPT !.pc = "holding"])
    <3>1. lock' = LeaseOf(a)'
      BY <1>2, <2>1, <2>4 DEF LeaseOf
    <3>2. LeaseStands'
      BY <1>1, <1>2, <2>3, <2>4, <3>1, WriteKeepsLeases
    <3> QED BY <1>1, <1>2, <2>1, <2>2, <2>4, <3>2, TaskStepKeepsInv
            DEF JobTypeOK
  <2>5. CASE Leave(a)
    <3>1. task'[a] = NoTask /\ Enter(a, NoTask) /\ clock' \in Nat
      BY <1>1, <2>5, NoTaskIsTask, EnterTypes, NumbersAreNat
         DEF Leave, JobTypeOK
    <3>2. TaskInv(a)' /\ ~Live(a)'
      BY <3>1, NoTaskIsHarmless
    <3>3. LeaseStands'
      BY <1>1, <2>3, <3>1, <3>2, NoTaskIsTask, WriteKeepsLeases
    <3> QED BY <1>1, <2>1, <2>2, <3>1, <3>2, <3>3, NoTaskIsTask,
               TaskStepKeepsInv DEF JobTypeOK
  <2> QED BY <1>4, <2>4, <2>5 DEF CreateLock
<1> QED BY <1>3, <1>4

LEMMA ReadLockKeepsInv ==
  ASSUME ObjectsInv, NEW a \in Activations, ReadLock(a) PROVE ObjectsInv'
<1> DEFINE k == [task[a] EXCEPT !.pc = "replace", !.seen = lock, !.tag = lockTag]
<1>1. /\ JobTypeOK /\ TaskInv(a) /\ task[a] \in Task
      /\ task[a].op \in {"acquire", "release"}
      /\ UNCHANGED <<clock, lock, lockTag, due, dueTag, tasks, freed>>
  BY DEF ObjectsInv, JobTypeOK, TasksInv, ReadLock, In
<1>2. CASE MayReplace(a) /\ Enter(a, k)
  <2>1. lock \in Lock /\ lockTag \in Nat
    BY <1>1, <1>2 DEF MayReplace, JobTypeOK
  <2>2. /\ k \in Task /\ k.pc = "replace" /\ k.seen = lock /\ k.tag = lockTag
        /\ k.op = task[a].op /\ k.run = task[a].run /\ k.at = task[a].at
        /\ k.rev = task[a].rev
    BY <1>1, <2>1 DEF Task, TaskPcs
  <2> HIDE DEF k
  <2>3. task'[a] = k
    BY <1>1, <1>2, <2>2, EnterTypes
  <2>4. TaskInv(a)'
    BY <1>1, <1>2, <2>1, <2>2, <2>3 DEF TaskInv, MayReplace, InForce
  <2>5. k.op = "release" => Using(a)
    BY <2>2 DEF Using
  <2> QED BY <1>1, <1>2, <2>2, <2>4, <2>5, GoOnKeepsInv
<1>3. CASE Leave(a)
  BY <1>1, <1>3, LeaveKeepsInv
<1> QED BY <1>2, <1>3 DEF ReadLock

LEMMA ReplaceLockKeepsInv ==
  ASSUME ObjectsInv, NEW a \in Activations, ReplaceLock(a) PROVE ObjectsInv'
<1> DEFINE k == task[a]
<1>1. /\ JobTypeOK /\ TasksInv /\ TaskInv(a) /\ k \in Task /\ LeaseStands
      /\ k.op \in {"acquire", "release"} /\ k.pc = "replace"
      /\ UNCHANGED clock /\ UNCHANGED <<due, dueTag>> /\ UNCHANGED tasks
  BY DEF ObjectsInv, JobTypeOK, TasksInv, ReplaceLock, In
<1>2. CASE ~LockMatches(a)
  BY <1>1, <1>2, ReadAgain DEF ReplaceLock
<1>3. ASSUME Leave(a) PROVE /\ Enter(a, NoTask) /\ TaskInv(a)' /\ ~Live(a)'
  <2>1. task'[a] = NoTask /\ Enter(a, NoTask) /\ clock' \in Nat
    BY <1>1, <1>3, NoTaskIsTask, EnterTypes, NumbersAreNat DEF Leave, JobTypeOK
  <2> QED BY <2>1, NoTaskIsHarmless
<1>4. LockMatches(a) => lock = k.seen /\ k.seen \in Lock
  BY <1>1 DEF TaskInv
<1>5. CASE LockMatches(a) /\ k.op = "acquire"
  <2>1. /\ lock' = LeaseOf(a) /\ lockTag' = lockTag + 1 /\ freed' = freed
        /\ Enter(a, [task[a] EXCEPT !.pc = "holding"]) \/ Leave(a)
    BY <1>5 DEF ReplaceLock, WriteLock
  <2>2. LeaseOf(a) \in Lock
    BY <1>1, <1>5, LeaseTypes
  <2>3. ASSUME NEW b \in Activations PROVE ~Live(b)
    <3> SUFFICES ASSUME Live(b) PROVE FALSE
      OBVIOUS
    <3>1. /\ lock = LeaseOf(b) /\ task[b].at \in Nat /\ k.at \in Nat
          /\ clock \in Nat /\ clock < task[b].at + LeaseTime /\ k.at <= clock
      BY <1>1, NumbersAreNat DEF LeaseStands, Live, JobTypeOK, Task, TaskInv
    <3>2. lock.state = "held" /\ lock.expires = task[b].at + LeaseTime
      BY <3>1 DEF LeaseOf
    <3>3. ~InForce(lock, k.at)
      BY <1>1, <1>4, <1>5 DEF TaskInv
    <3> QED BY <3>1, <3>2, <3>3, NumbersAreNat DEF InForce
  <2>4. CASE Enter(a, [task[a] EXCEPT !.pc = "holding"])
    <3> DEFINE n == [task[a] EXCEPT !.pc = "holding"]
    <3>1. /\ n \in Task /\ n.pc = "holding" /\ n.op = "acquire"
          /\ n.run = k.run /\ n.at = k.at
      BY <1>1, <1>5 DEF Task, TaskPcs
    <3>2. Enter(a, n)
      BY <2>4
    <3> HIDE DEF n
    <3>3. task'[a] = n
      BY <1>1, <3>1, <3>2, EnterTypes
    <3>4. TaskInv(a)' /\ LeaseOf(a)' = LeaseOf(a)
      BY <1>1, <1>5, <3>1, <3>3 DEF TaskInv, LeaseOf
    <3>5. LeaseStands'
      BY <1>1, <2>1, <2>3, <3>1, <3>2, <3>4, WriteKeepsLeases
    <3> QED BY <1>1, <2>1, <2>2, <3>1, <3>2, <3>4, <3>5, TaskStepKeepsInv
            DEF JobTypeOK
  <2>5. CASE Leave(a)
    <3>1. LeaseStands'
      BY <1>1, <1>3, <2>1, <2>3, <2>5, NoTaskIsTask, WriteKeepsLeases
    <3> QED BY <1>1, <1>3, <2>1, <2>2, <2>5, <3>1, NoTaskIsTask,
               TaskStepKeepsInv DEF JobTypeOK
  <2> QED BY <2>1, <2>4, <2>5
<1>6. CASE LockMatches(a) /\ k.op = "release"
  <2>1. /\ lock' = [k.seen EXCEPT !.state = "released"]
        /\ lockTag' = lockTag + 1 /\ freed' = freed \cup Victims(a) /\ Leave(a)
    BY <1>6 DEF ReplaceLock, WriteLock
  <2>2. lock' \in Lock
    BY <1>4, <1>6, <2>1 DEF Lock
  <2>3. \A b \in Activations \ {a} : Live(b) => b \in freed'
    BY <1>1, <2>1 DEF LeaseStands, Live, Victims
  <2>4. freed' \subseteq Activations /\ freed \subseteq freed'
    BY <1>1, <2>1 DEF Victims, JobTypeOK
  <2>5. LeaseStands'
    BY <1>1, <1>3, <2>1, <2>3, <2>4, NoTaskIsTask, WriteKeepsLeases
  <2> QED BY <1>1, <1>3, <2>1, <2>2, <2>4, <2>5, NoTaskIsTask,
             TaskStepKeepsInv DEF JobTypeOK
<1> QED BY <1>1, <1>2, <1>5, <1>6

LEMMA BeginReleaseKeepsInv ==
  ASSUME ObjectsInv, NEW a \in Activations, BeginRelease(a) PROVE ObjectsInv'
<1> DEFINE k == [task[a] EXCEPT !.op = "release", !.pc = "read", !.tries = 0]
<1>1. /\ JobTypeOK /\ TaskInv(a) /\ task[a] \in Task
      /\ task[a].pc = "holding" /\ Enter(a, k)
      /\ UNCHANGED <<clock, lock, lockTag, due, dueTag, tasks, freed>>
  BY DEF ObjectsInv, JobTypeOK, TasksInv, BeginRelease
<1>0. 0 \in 0..PutRounds - 1
  BY NumbersAreNat
<1>2. /\ k \in Task /\ k.op = "release" /\ k.pc = "read"
      /\ k.run = task[a].run /\ k.at = task[a].at
  BY <1>0, <1>1 DEF Task, TaskPcs, TaskOps
<1> HIDE DEF k
<1>3. task'[a] = k
  BY <1>1, <1>2, EnterTypes
<1>4. TaskInv(a)' /\ Using(a)
  BY <1>1, <1>2, <1>3 DEF TaskInv, Using
<1> QED BY <1>1, <1>2, <1>4, GoOnKeepsInv

LEMMA DropLockKeepsInv ==
  ASSUME ObjectsInv, NEW a \in Activations, DropLock(a) PROVE ObjectsInv'
<1>1. /\ JobTypeOK /\ LeaseStands /\ Leave(a) /\ UNCHANGED clock
      /\ UNCHANGED <<due, dueTag>> /\ UNCHANGED tasks
  BY DEF ObjectsInv, DropLock
<1>2. CASE lock = None
  BY <1>1, <1>2, LeaveKeepsInv DEF DropLock
<1>3. CASE lock # None
  <2>1. lock' = None /\ lockTag' = lockTag + 1 /\ freed' = freed \cup Victims(a)
    BY <1>3 DEF DropLock, WriteLock
  <2>2. task'[a] = NoTask /\ Enter(a, NoTask) /\ clock' \in Nat
    BY <1>1, NoTaskIsTask, EnterTypes, NumbersAreNat DEF Leave, JobTypeOK
  <2>3. TaskInv(a)' /\ ~Live(a)'
    BY <2>2, NoTaskIsHarmless
  <2>4. \A b \in Activations \ {a} : Live(b) => b \in freed'
    BY <1>1, <2>1 DEF LeaseStands, Live, Victims
  <2>5. freed' \subseteq Activations /\ freed \subseteq freed'
    BY <1>1, <2>1 DEF Victims, JobTypeOK
  <2>6. LeaseStands'
    BY <1>1, <2>2, <2>3, <2>4, <2>5, NoTaskIsTask, WriteKeepsLeases
  <2> QED BY <1>1, <2>1, <2>2, <2>3, <2>5, <2>6, NoTaskIsTask,
             TaskStepKeepsInv DEF JobTypeOK
<1> QED BY <1>2, <1>3

(* put_due leaves the lock alone.                                            *)
LEMMA WriteDueKeepsInv ==
  ASSUME ObjectsInv, NEW a \in Activations, Leave(a), WriteDue(task[a].rev),
         task[a].op = "due", UNCHANGED <<clock, lock, lockTag, tasks, freed>>
  PROVE  ObjectsInv'
<1>1. JobTypeOK /\ TaskInv(a) /\ clock' \in Nat /\ Enter(a, NoTask)
  BY NumbersAreNat DEF ObjectsInv, JobTypeOK, TasksInv, Leave
<1>2. due' \in JobRevisions /\ dueTag' = dueTag + 1
  BY <1>1 DEF WriteDue, TaskInv
<1>3. task'[a] = NoTask
  BY <1>1, NoTaskIsTask, EnterTypes
<1>4. TaskInv(a)' /\ ~Live(a)'
  BY <1>1, <1>3, NoTaskIsHarmless
<1>5. LeaseStands'
  BY <1>1, <1>4, NoTaskIsTask, QuietStepKeepsLeases
<1> QED BY <1>1, <1>2, <1>4, <1>5, NoTaskIsTask, TaskStepKeepsInv DEF JobTypeOK

LEMMA PutDueKeepsInv ==
  ASSUME ObjectsInv, NEW a \in Activations,
         CreateDue(a) \/ ReadDue(a) \/ ReplaceDue(a)
  PROVE  ObjectsInv'
<1>1. /\ JobTypeOK /\ TaskInv(a) /\ task[a] \in Task /\ task[a].op = "due"
      /\ UNCHANGED <<clock, lock, lockTag, tasks, freed>>
      /\ due \in Nat /\ dueTag \in Nat /\ task[a].rev \in Nat
  BY NumbersAreNat
     DEF ObjectsInv, JobTypeOK, TasksInv, CreateDue, ReadDue, ReplaceDue, In, Task
<1>2. ASSUME NEW pc \in {"read", "replace"}, NEW tag \in Nat,
             Enter(a, [task[a] EXCEPT !.pc = pc, !.tag = tag]),
             pc = "replace" => tag = dueTag /\ due < task[a].rev,
             UNCHANGED <<due, dueTag>>
      PROVE  ObjectsInv'
  <2> DEFINE k == [task[a] EXCEPT !.pc = pc, !.tag = tag]
  <2>1. /\ k \in Task /\ k.pc = pc /\ k.tag = tag /\ k.op = "due"
        /\ k.run = task[a].run /\ k.at = task[a].at /\ k.rev = task[a].rev
    BY <1>1 DEF Task, TaskPcs
  <2>2. Enter(a, k)
    BY <1>2
  <2> HIDE DEF k
  <2>3. task'[a] = k
    BY <1>1, <2>1, <2>2, EnterTypes
  <2>4. TaskInv(a)'
    BY <1>1, <1>2, <2>1, <2>3 DEF TaskInv
  <2> QED BY <1>1, <1>2, <2>1, <2>2, <2>4, GoOnKeepsInv
<1>3. CASE CreateDue(a)
  <2>1. CASE due = 0
    BY <1>1, <1>3, <2>1, WriteDueKeepsInv DEF CreateDue
  <2>2. CASE due # 0
    <3>1. Enter(a, [task[a] EXCEPT !.pc = "read"]) /\ UNCHANGED <<due, dueTag>>
      BY <1>3, <2>2 DEF CreateDue
    <3>2. [task[a] EXCEPT !.pc = "read", !.tag = task[a].tag]
            = [task[a] EXCEPT !.pc = "read"] /\ task[a].tag \in Nat
      BY <1>1 DEF Task
    <3> QED BY <1>2, <3>1, <3>2
  <2> QED BY <2>1, <2>2
<1>4. CASE ReadDue(a)
  <2>1. CASE Leave(a)
    BY <1>1, <1>4, <2>1, LeaveKeepsInv DEF ReadDue
  <2>2. CASE ~Leave(a)
    <3>1. /\ ~(due >= task[a].rev) /\ UNCHANGED <<due, dueTag>>
          /\ Enter(a, [task[a] EXCEPT !.pc = "replace", !.tag = dueTag])
      BY <1>4, <2>2 DEF ReadDue, KeepsDue
    <3>2. due < task[a].rev
      BY <1>1, <3>1
    <3> QED BY <1>1, <1>2, <3>1, <3>2
  <2> QED BY <2>1, <2>2
<1>5. CASE ReplaceDue(a)
  <2>1. CASE dueTag = task[a].tag
    BY <1>1, <1>5, <2>1, WriteDueKeepsInv DEF ReplaceDue
  <2>2. CASE dueTag # task[a].tag
    BY <1>1, <1>5, <2>2, ReadAgain DEF ReplaceDue
  <2> QED BY <2>1, <2>2
<1> QED BY <1>3, <1>4, <1>5

(* Time only ends leases.                                                    *)
LEMMA ClockTicksKeepsInv == ObjectsInv /\ ClockTicks => ObjectsInv'
<1> SUFFICES ASSUME ObjectsInv, ClockTicks PROVE ObjectsInv'
  OBVIOUS
<1>1. /\ JobTypeOK /\ TasksInv /\ LeaseStands /\ clock \in 0..LastReading
      /\ clock < LastReading /\ clock' = clock + 1
      /\ UNCHANGED <<lock, lockTag, due, dueTag, task, tasks, freed>>
  BY DEF ObjectsInv, JobTypeOK, ClockTicks
<1>2. JobTypeOK'
  BY <1>1, NumbersAreNat DEF JobTypeOK
<1>3. \A a \in Activations : task[a].at \in Nat
  BY <1>1, NumbersAreNat DEF JobTypeOK, Task
<1>4. TasksInv'
  BY <1>1, <1>3, NumbersAreNat DEF TasksInv, TaskInv, LockMatches
<1>5. LeaseStands'
  BY <1>1, <1>3, NumbersAreNat DEF LeaseStands, Live, Using, LeaseOf
<1> QED BY <1>2, <1>4, <1>5 DEF ObjectsInv

THEOREM ObjectsInvariant == JobSpec => []ObjectsInv
<1>1. JobInit => ObjectsInv
  <2> SUFFICES ASSUME JobInit PROVE ObjectsInv
    OBVIOUS
  <2>1. JobTypeOK
    BY NoTaskIsTask, NumbersAreNat DEF JobInit, JobTypeOK
  <2>2. \A a \in Activations : TaskInv(a) /\ ~Live(a)
    <3> TAKE a \in Activations
    <3>1. task[a] = NoTask /\ clock = 0
      BY DEF JobInit
    <3> QED BY <3>1 DEF TaskInv, Live, Using, NoTask
  <2> QED BY <2>1, <2>2 DEF ObjectsInv, TasksInv, LeaseStands
<1>2. ObjectsInv /\ [JobNext]_jobVars => ObjectsInv'
  <2> SUFFICES ASSUME ObjectsInv, [JobNext]_jobVars PROVE ObjectsInv'
    OBVIOUS
  <2>1. ASSUME NEW a \in Activations, TaskStep(a) PROVE ObjectsInv'
    <3>1. CASE TaskFails(a)
      BY <3>1, LeaveKeepsInv DEF TaskFails
    <3> QED BY <2>1, <3>1, BeginTaskKeepsInv, CreateLockKeepsInv,
               ReadLockKeepsInv, ReplaceLockKeepsInv, BeginReleaseKeepsInv,
               DropLockKeepsInv, PutDueKeepsInv DEF TaskStep
  <2>2. CASE UNCHANGED jobVars
    BY <2>2 DEF jobVars, ObjectsInv, JobTypeOK, TasksInv, TaskInv, LockMatches,
                LeaseStands, Live, Using, LeaseOf
  <2> QED BY <2>1, <2>2, ClockTicksKeepsInv DEF JobNext, JobRest
<1> QED BY <1>1, <1>2, PTL DEF JobSpec

(* Type correctness of the objects, the calls and the clock.                 *)
THEOREM JobTypes == JobSpec => []JobTypeOK
<1>1. ObjectsInv => JobTypeOK
  BY DEF ObjectsInv
<1> QED BY <1>1, ObjectsInvariant, PTL

(* A live lease is the one in lock.json, although acquire_lock and           *)
(* release_lock read the object in one request and replace it in another.    *)
THEOREM LeasesStand == JobSpec => []LeaseStands
<1>1. ObjectsInv => LeaseStands
  BY DEF ObjectsInv
<1> QED BY <1>1, ObjectsInvariant, PTL

(* Two activations never have a live lease at the same time, also when both  *)
(* are for one run.                                                          *)
OneLiveLease == \A a, b \in Activations : Live(a) /\ Live(b) => a = b

THEOREM LeasesExclude == JobSpec => []OneLiveLease
<1>1. ObjectsInv => OneLiveLease
  BY LeaseTypes DEF ObjectsInv, OneLiveLease, LeaseStands, Live
<1> QED BY <1>1, ObjectsInvariant, PTL

(* Whose lease is given away by release_lock loses it to an activation of    *)
(* its own run that had no live lease any more: the comparison by run        *)
(* endangers only runs that are at work twice.                               *)
OnlyTheLateFree ==
  \A a \in Activations :
    Live(a) /\ a \in freed' =>
      \E b \in Activations \ {a} :
        \/ task[b].op = "release" /\ task[b].run = task[a].run /\ ~Live(b)
        \/ task[b].op = "delete"

THEOREM LateReleasesFree == JobSpec => [][OnlyTheLateFree]_jobVars
<1>1. ObjectsInv /\ JobNext => OnlyTheLateFree
  <2> SUFFICES ASSUME ObjectsInv, JobNext, NEW a \in Activations,
                      Live(a), a \in freed'
               PROVE  \E b \in Activations \ {a} :
                        \/ /\ task[b].op = "release"
                           /\ task[b].run = task[a].run /\ ~Live(b)
                        \/ task[b].op = "delete"
    BY DEF OnlyTheLateFree
  <2>1. /\ JobTypeOK /\ TasksInv /\ LeaseStands /\ a \notin freed
        /\ lock = LeaseOf(a)
    BY DEF ObjectsInv, LeaseStands, Live
  <2>2. PICK b \in Activations : ReplaceLock(b) \/ DropLock(b)
    BY <2>1 DEF JobNext, TaskStep, BeginTask, CreateLock, ReadLock, BeginRelease,
                CreateDue, ReadDue, ReplaceDue, TaskFails, ClockTicks, JobRest,
                jobVars
  <2>3. a \in Victims(b)
    BY <2>1, <2>2 DEF ReplaceLock, DropLock
  <2>4. b \in Activations \ {a}
    BY <2>3 DEF Victims
  <2>5. CASE DropLock(b)
    BY <2>4, <2>5 DEF DropLock, In
  <2>6. CASE ReplaceLock(b)
    <3>1. task[b].op = "release" /\ task[b].pc = "replace" /\ LockMatches(b)
      BY <2>1, <2>6 DEF ReplaceLock, In
    <3>2. lock.run = task[b].run
      BY <2>1, <3>1 DEF TasksInv, TaskInv
    <3>3. ~Live(b)
      BY <2>1, <2>4, LeaseTypes DEF LeaseStands, Live
    <3> QED BY <2>1, <2>4, <3>1, <3>2, <3>3 DEF LeaseOf
  <2> QED BY <2>2, <2>5, <2>6
<1> QED BY <1>1, ObjectsInvariant, PTL DEF JobSpec

-----------------------------------------------------------------------------

LEMMA AbstractLockTypes ==
  ASSUME NEW l \in Lock
  PROVE  /\ [state |-> l.state, run |-> l.run, expires |-> l.expires] # None
         /\ l # None
BY NoneAssumption DEF Lock, Objects!Lock

(* A lock that is written over: what the abstract lock becomes.              *)
LEMMA WrittenLock ==
  ASSUME NEW l \in Lock, lock' = l
  PROVE  AbstractLock' = [state |-> l.state, run |-> l.run, expires |-> l.expires]
BY AbstractLockTypes DEF AbstractLock

LEMMA AcquireIsAbstract ==
  ASSUME ObjectsInv, NEW a \in Activations, task[a].op = "acquire",
         lock = None \/ (lock \in Lock /\ ~InForce(lock, task[a].at)),
         lock' = LeaseOf(a), UNCHANGED due
  PROVE  Objects!Acquire
<1>1. /\ JobTypeOK /\ TasksInv /\ task[a] \in Task /\ TaskInv(a)
  BY DEF ObjectsInv, JobTypeOK, TasksInv
<1>2. /\ task[a].run \in JobRuns /\ task[a].at \in 0..LastReading
      /\ LeaseOf(a) \in Lock
  BY <1>1, LeaseTypes DEF TaskInv, Task
<1>3. AbstractLock' = [state |-> "held", run |-> task[a].run,
                       expires |-> task[a].at + LeaseTime]
  BY <1>2, WrittenLock DEF LeaseOf
<1>4. Objects!Free(task[a].at)
  <2>1. CASE lock = None
    BY <2>1 DEF Objects!Free, AbstractLock
  <2>2. CASE lock \in Lock /\ ~InForce(lock, task[a].at)
    <3>1. /\ lock.state \in {"held", "released"} /\ lock.expires \in Nat
          /\ task[a].at \in Nat
      BY <1>2, <2>2, NumbersAreNat DEF Lock
    <3>2. /\ AbstractLock.state = lock.state
          /\ AbstractLock.expires = lock.expires
      BY <2>2, AbstractLockTypes DEF AbstractLock
    <3> QED BY <2>2, <3>1, <3>2 DEF Objects!Free, InForce
  <2> QED BY <2>1, <2>2
<1> QED BY <1>2, <1>3, <1>4 DEF Objects!Acquire

(* Every request is a step of the abstract objects, or changes nothing:      *)
(* a method takes effect at its successful put.                              *)
LEMMA TaskStepIsAbstract ==
  ASSUME ObjectsInv, NEW a \in Activations, TaskStep(a)
  PROVE  Objects!Next \/ UNCHANGED <<AbstractLock, due>>
<1>1. /\ JobTypeOK /\ TasksInv /\ task[a] \in Task /\ TaskInv(a)
      /\ due \in Nat
  BY NumbersAreNat DEF ObjectsInv, JobTypeOK, TasksInv
<1>2. CASE UNCHANGED <<lock, due>>
  BY <1>2 DEF AbstractLock
<1>3. CASE CreateLock(a)
  BY <1>2, <1>3, AcquireIsAbstract DEF CreateLock, WriteLock, In, Objects!Next
<1>4. CASE ReplaceLock(a)
  <2>1. /\ task[a].pc = "replace" /\ UNCHANGED due
        /\ task[a].op \in {"acquire", "release"}
        /\ ~LockMatches(a) => UNCHANGED lock
    BY <1>4 DEF ReplaceLock, In
  <2>2. CASE LockMatches(a)
    <3>1. lock = task[a].seen /\ lock \in Lock
      BY <1>1, <2>1, <2>2 DEF TaskInv
    <3>2. CASE task[a].op = "acquire"
      BY <1>1, <1>4, <2>1, <2>2, <3>1, <3>2, AcquireIsAbstract
         DEF ReplaceLock, WriteLock, TaskInv, Objects!Next
    <3>3. CASE task[a].op = "release"
      <4>1. /\ lock' = [lock EXCEPT !.state = "released"]
            /\ lock.state = "held"
        BY <1>1, <1>4, <2>1, <2>2, <3>1, <3>3 DEF ReplaceLock, WriteLock, TaskInv
      <4>2. /\ AbstractLock = [state |-> "held", run |-> lock.run,
                               expires |-> lock.expires]
            /\ AbstractLock # None
        BY <3>1, <4>1, AbstractLockTypes DEF AbstractLock
      <4>3. AbstractLock' = [state |-> "released", run |-> lock.run,
                             expires |-> lock.expires]
        BY <3>1, <4>1, WrittenLock DEF Lock
      <4> QED BY <2>1, <4>2, <4>3 DEF Objects!Release, Objects!Next
    <3> QED BY <2>1, <3>2, <3>3
  <2> QED BY <1>2, <2>1, <2>2
<1>5. CASE DropLock(a)
  <2>1. CASE lock # None
    <3>1. AbstractLock' = None /\ UNCHANGED due
      BY <1>5, <2>1 DEF DropLock, WriteLock, AbstractLock
    <3>2. AbstractLock # None
      BY <1>1, <2>1, AbstractLockTypes DEF AbstractLock, JobTypeOK
    <3> QED BY <3>1, <3>2 DEF Objects!Drop, Objects!Next
  <2> QED BY <1>2, <1>5, <2>1 DEF DropLock
<1>6. ASSUME task[a].op = "due", WriteDue(task[a].rev), due <= task[a].rev,
             UNCHANGED lock
      PROVE  Objects!Next
  <2>1. UNCHANGED AbstractLock
    BY <1>6 DEF AbstractLock
  <2> QED BY <1>1, <1>6, <2>1 DEF WriteDue, TaskInv, Objects!PutDue, Objects!Next
<1>7. task[a].rev \in Nat
  <2>1. JobRevisions \cup {0} \subseteq Nat
    BY NumbersAreNat
  <2> QED BY <1>1, <2>1 DEF Task
<1>8. CASE CreateDue(a)
  BY <1>1, <1>2, <1>6, <1>7, <1>8 DEF CreateDue, In
<1>9. CASE ReplaceDue(a)
  BY <1>1, <1>2, <1>6, <1>7, <1>9 DEF ReplaceDue, In, TaskInv
<1>10. CASE BeginTask(a) \/ ReadLock(a) \/ BeginRelease(a) \/ ReadDue(a)
              \/ TaskFails(a)
  BY <1>2, <1>10 DEF BeginTask, ReadLock, BeginRelease, ReadDue, TaskFails
<1> QED BY <1>3, <1>4, <1>5, <1>8, <1>9, <1>10 DEF TaskStep

(* acquire_lock, release_lock and put_due, request by request, implement the *)
(* lock and the pointer that CronDispatcher takes for granted.               *)
THEOREM StoreImplementsObjects == JobSpec => ImplementsObjects
<1>1. JobInit => Objects!Init
  BY DEF JobInit, Objects!Init, AbstractLock
<1>2. ObjectsInv /\ [JobNext]_jobVars
        => Objects!Next \/ UNCHANGED <<AbstractLock, due>>
  BY TaskStepIsAbstract DEF JobNext, ClockTicks, JobRest, jobVars, AbstractLock
<1> QED BY <1>1, <1>2, ObjectsInvariant, PTL
        DEF JobSpec, ImplementsObjects, Objects!Spec

-----------------------------------------------------------------------------

(* What the abstract objects promise, so also the loops: a lease that nobody *)
(* released or deleted is only followed by one that begins after its end.    *)
THEOREM LeasesFollowEachOther == JobSpec => Objects!LeasesDoNotOverlap
<1>1. ObjectsInv /\ [Objects!Next]_<<AbstractLock, due>> =>
        [AbstractLock # None /\ AbstractLock' # None
           /\ AbstractLock.state = "held" /\ AbstractLock'.state = "held"
           /\ AbstractLock' # AbstractLock
           => AbstractLock'.expires >= AbstractLock.expires + LeaseTime
        ]_<<AbstractLock, due>>
  <2> SUFFICES ASSUME ObjectsInv, Objects!Next,
                      AbstractLock # None, AbstractLock' # None,
                      AbstractLock.state = "held", AbstractLock'.state = "held",
                      AbstractLock' # AbstractLock
               PROVE  AbstractLock'.expires >= AbstractLock.expires + LeaseTime
    OBVIOUS
  <2>a. lock \in Lock
    BY DEF ObjectsInv, JobTypeOK, AbstractLock
  <2>b. AbstractLock = [state |-> lock.state, run |-> lock.run,
                        expires |-> lock.expires]
    BY <2>a, AbstractLockTypes DEF AbstractLock
  <2>1. AbstractLock.expires \in Nat
    BY <2>a, <2>b, NumbersAreNat DEF Lock
  <2>2. ~Objects!Release
    BY <2>b DEF Objects!Release
  <2>3. Objects!Acquire
    BY <2>2 DEF Objects!Next, Objects!Drop, Objects!PutDue
  <2> QED BY <2>1, <2>3, NumbersAreNat DEF Objects!Acquire, Objects!Free
<1> QED BY <1>1, ObjectsInvariant, StoreImplementsObjects, PTL
        DEF ImplementsObjects, Objects!Spec, Objects!LeasesDoNotOverlap

(* The due pointer of a minute is never withdrawn, and an older revision     *)
(* never replaces a newer one, in whatever order scans and edits publish.    *)
THEOREM RevisionsOnlyRise == JobSpec => Objects!NewestRevisionWins
<1>1. ObjectsInv /\ [Objects!Next]_<<AbstractLock, due>> =>
        [due' >= due]_<<AbstractLock, due>>
  BY NumbersAreNat
     DEF ObjectsInv, JobTypeOK, Objects!Next, Objects!Acquire, Objects!Release,
         Objects!Drop, Objects!PutDue
<1> QED BY <1>1, ObjectsInvariant, StoreImplementsObjects, PTL
        DEF ImplementsObjects, Objects!Spec, Objects!NewestRevisionWins

=============================================================================
