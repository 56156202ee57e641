------------------------------ MODULE RunStore ------------------------------
(***************************************************************************)
(* One run object in TOS, and the calls that race on it.                   *)
(*                                                                         *)
(* Every repository method is a sequence of HTTP requests: a get_object    *)
(* returning a body and an ETag, then a put_object conditional on that     *)
(* ETag (if_match) or on absence (forbid_overwrite).  Requests of          *)
(* different callers interleave; each request is atomic.                   *)
(*   tos_repository.py:  create_run, get_run, update_run, request_cancel   *)
(*   cronjobs/repository.py:  _request_cancel (one attempt), _delete_job   *)
(***************************************************************************)
EXTENDS Naturals, RunRecord

CONSTANTS
  Clients,        \* concurrent callers: scanner, workers, Studio BFF
  NoRun,          \* the object does not exist
  CasAttempts,    \* _CAS_ATTEMPTS: rounds of a read / conditional-put loop
  MaxCalls        \* bound on the number of calls, for model checking

ASSUME CasAttemptsAssumption == CasAttempts \in Nat \ {0}
ASSUME MaxCallsAssumption == MaxCalls \in Nat

VARIABLES
  object,         \* NoRun or the stored body
  etag,           \* identity of the stored version; every write changes it
  call,           \* call[c]: the repository call client c is executing
  calls           \* number of calls started so far

vars == <<object, etag, call, calls>>

Lifecycle == INSTANCE RunLifecycle WITH run <- object

Loops   == {"update", "cancel", "bffCancel"}     \* read, then conditional put
Ops     == Loops \cup {"create", "delete"}
Pcs     == {"idle", "get", "read", "put", "exists"}
Results == {"none", "created", "exists", "written", "terminal", "absent",
            "cancelled", "refused", "conflict", "error"}

(* want: the body to write; seen / tag: the last body read and its ETag;   *)
(* tries: conditional puts refused; first: the ETag at the first read.     *)
Call == [op : Ops, pc : Pcs, want : Record, seen : Record, tag : Nat,
         tries : 0..CasAttempts, first : Nat, result : Results]

AnyRecord == Fresh("queued")

Idle == [op |-> "create", pc |-> "idle", want |-> AnyRecord, seen |-> AnyRecord,
         tag |-> 0, tries |-> 0, first |-> 0, result |-> "none"]

Init ==
  /\ object = NoRun
  /\ etag = 0
  /\ call = [c \in Clients |-> Idle]
  /\ calls = 0

Step(c, r)    == call' = [call EXCEPT ![c] = r]
Return(c, r)  == Step(c, [Idle EXCEPT !.op = call[c].op, !.result = r,
                                      !.tries = call[c].tries,
                                      !.first = call[c].first])
Store(body)   == object' = body /\ etag' = etag + 1
Untouched     == UNCHANGED <<object, etag>>

-----------------------------------------------------------------------------
(* Starting a call. Writers that update first read the run they rewrite.   *)

Begin(c) ==
  /\ call[c].pc = "idle"
  /\ calls < MaxCalls
  /\ calls' = calls + 1
  /\ \/ \E s \in {"queued", "preparing", "skipped"} :
          Step(c, [Idle EXCEPT !.op = "create", !.pc = "put",
                               !.want = Fresh(s)])
     \/ Step(c, [Idle EXCEPT !.op = "update", !.pc = "get"])
     \/ \E op \in {"cancel", "bffCancel"} :
          Step(c, [Idle EXCEPT !.op = op, !.pc = "read", !.first = etag])
     \/ Step(c, [Idle EXCEPT !.op = "delete", !.pc = "put"])
  /\ Untouched

(* get_run, then dataclasses.replace on the snapshot: the new state is the *)
(* caller's choice, the flags are those it saw (an acknowledgement is only *)
(* ever added).                                                            *)
GetRun(c) ==
  /\ call[c].op = "update" /\ call[c].pc = "get"
  /\ \/ /\ object = NoRun
        /\ Return(c, "absent")
     \/ /\ object # NoRun
        /\ \E s \in States \ {"queued"}, a \in BOOLEAN :
             /\ object.ack => a
             /\ Step(c, [call[c] EXCEPT
                           !.pc = "read", !.first = etag,
                           !.want = [object EXCEPT !.state = s, !.ack = a]])
  /\ Untouched /\ UNCHANGED calls

-----------------------------------------------------------------------------
(* create_run: put with forbid_overwrite, then look at what is there.      *)

CreatePut(c) ==
  /\ call[c].op = "create" /\ call[c].pc = "put"
  /\ \/ /\ object = NoRun
        /\ Store(call[c].want)
        /\ \/ Return(c, "created")
           \/ Return(c, "error")        \* written, but the reply was lost
     \/ /\ object # NoRun
        /\ Step(c, [call[c] EXCEPT !.pc = "exists"])
        /\ Untouched
  /\ UNCHANGED calls

CreateExists(c) ==
  /\ call[c].op = "create" /\ call[c].pc = "exists"
  /\ Return(c, IF object = NoRun THEN "error" ELSE "exists")
  /\ Untouched /\ UNCHANGED calls

-----------------------------------------------------------------------------
(* The CAS loops.                                                          *)

(* Mutant of Merge: the caller's snapshot overwrites the stored flags.     *)
MergeNothing(old, new) == new

(* The new body a put writes over the one that was read.                   *)
Merge(old, new) ==
  [new EXCEPT !.cancel = new.cancel \/ old.cancel, !.ack = new.ack \/ old.ack]

NewBody(k) ==
  IF k.op = "update" THEN Merge(k.seen, k.want)
                     ELSE [k.seen EXCEPT !.cancel = TRUE]

(* Mutant of Settled: update_run without its terminal early return.        *)
SettledIgnoringTerminal(k, body) ==
  IF body = NoRun THEN IF k.op = "cancel" THEN "absent" ELSE "error"
  ELSE IF k.op = "bffCancel" /\ Done(body) THEN "refused"
  ELSE IF k.op # "update" /\ body.cancel THEN "cancelled"
  ELSE "none"

(* What a loop returns without writing, from the body it has just read;    *)
(* "none" when it goes on to its put.                                      *)
Settled(k, body) ==
  IF body = NoRun THEN IF k.op = "cancel" THEN "absent" ELSE "error"
  ELSE IF k.op = "update" /\ Done(body) THEN "terminal"
  ELSE IF k.op = "bffCancel" /\ Done(body) THEN "refused"
  ELSE IF k.op # "update" /\ body.cancel THEN "cancelled"
  ELSE "none"

Read(c) ==
  /\ call[c].op \in Loops /\ call[c].pc = "read"
  /\ LET settled == Settled(call[c], object) IN
       \/ settled # "none" /\ Return(c, settled)
       \/ settled = "none" /\ Step(c, [call[c] EXCEPT !.pc = "put",
                                         !.seen = object, !.tag = etag])
  /\ Untouched /\ UNCHANGED calls

(* Mutant of Rounds: one more put than the loop has rounds.                *)
RoundsPlusOne(k) == CasAttempts + 1

(* Rounds allowed to a loop: the BFF's cancel does not retry a conflict.   *)
Rounds(k) == IF k.op = "bffCancel" THEN 1 ELSE CasAttempts

(* Mutants of Matches: an ETag kept in its quotes never matches; a put     *)
(* without if_match always does.                                           *)
MatchesNever(k)  == FALSE
MatchesAlways(k) == object # NoRun

Matches(k) == object # NoRun /\ etag = k.tag

ConditionalPut(c) ==
  LET k == call[c] IN
  /\ k.op \in Loops /\ k.pc = "put"
  /\ \/ /\ Matches(k)
        /\ Store(NewBody(k))
        /\ \/ Return(c, "written")
           \/ Return(c, "error")        \* written, but the reply was lost
     \/ /\ ~Matches(k) /\ k.tries + 1 < Rounds(k)
        /\ Step(c, [k EXCEPT !.pc = "read", !.tries = @ + 1])
        /\ Untouched
     \/ /\ ~Matches(k) /\ k.tries + 1 = Rounds(k)
        /\ Step(c, [Idle EXCEPT !.op = k.op, !.result = "conflict",
                                !.tries = k.tries + 1, !.first = k.first])
        /\ Untouched
  /\ UNCHANGED calls

(* _delete_job removes the object unconditionally.                         *)
DeleteObject(c) ==
  /\ call[c].op = "delete" /\ call[c].pc = "put"
  /\ IF object = NoRun THEN Untouched ELSE Store(NoRun)
  /\ Return(c, "written")
  /\ UNCHANGED calls

(* Any request may fail with a status that is not 404, 409 or 412: the     *)
(* method raises and nothing is written.                                   *)
RequestFails(c) ==
  /\ call[c].pc # "idle"
  /\ Return(c, "error")
  /\ Untouched /\ UNCHANGED calls

-----------------------------------------------------------------------------

Proceed(c) ==
  \/ GetRun(c) \/ CreatePut(c) \/ CreateExists(c)
  \/ Read(c) \/ ConditionalPut(c) \/ DeleteObject(c)

ClientNext(c) == Begin(c) \/ Proceed(c) \/ RequestFails(c)

(* The bounded instance stops only when every call has returned.           *)
Rest ==
  /\ calls = MaxCalls
  /\ \A c \in Clients : call[c].pc = "idle"
  /\ UNCHANGED vars

Next == (\E c \in Clients : ClientNext(c)) \/ Rest

Spec == Init /\ [][Next]_vars

-----------------------------------------------------------------------------

TypeOK ==
  /\ object \in Record \cup {NoRun}
  /\ etag \in Nat
  /\ call \in [Clients -> Call]
  /\ calls \in 0..MaxCalls

(* While the ETag a loop read is still current, the body it read is the    *)
(* stored one, and a loop only ever prepares to write over a run it is     *)
(* allowed to change: the fact that makes get + conditional put atomic.    *)
SnapshotIsCurrent ==
  \A c \in Clients :
    LET k == call[c] IN
    k.pc = "put" /\ k.op \in Loops =>
      /\ k.tag <= etag
      /\ (Matches(k) => object = k.seen)
      /\ (k.op # "cancel" => ~Done(k.seen))

(* SchedulerStorageConflict ("after CAS retries") is only reported when    *)
(* other callers really wrote the object once per refused round: a loop    *)
(* never gives up on an idle object.                                       *)
ConflictOnlyUnderContention ==
  \A c \in Clients :
    call[c].result = "conflict" => etag >= call[c].first + Rounds(call[c])

(* A completed run is never marked as cancelled by the Studio, even when   *)
(* it completes between the BFF's read and its write: _request_cancel      *)
(* raises CronjobConflict instead.                                         *)
CompletedRunsRefuseCancel ==
  [][\A c \in Clients :
       object # NoRun /\ Done(object) /\ call[c].op = "bffCancel"
         /\ call[c] # call'[c] => object' = object]_vars

(* The calls implement the abstract life cycle of the run.                 *)
ImplementsLifecycle == Lifecycle!Spec

=============================================================================
