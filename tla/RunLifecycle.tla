---------------------------- MODULE RunLifecycle ----------------------------
(***************************************************************************)
(* What the scheduler promises about ONE durable run object, whoever       *)
(* writes it: the record is created once, rewritten only while it is not   *)
(* terminal, and its cancellation and acknowledgement flags only ever      *)
(* rise.  RunStore shows that the get / conditional-put loops of           *)
(* tos_repository.py keep this promise, and CronDispatcher that its        *)
(* handlers do, run by run.                                                *)
(***************************************************************************)

EXTENDS RunRecord

CONSTANT NoRun          \* the object does not exist

VARIABLE run            \* NoRun or the body of runs/<run_id>.json

(* The scanner and the BFF create a queued run, the worker a preparing     *)
(* one, and a worker that lost the lock a skipped one.                     *)
Create ==
  /\ run = NoRun
  /\ \E s \in {"queued", "preparing", "skipped"} : run' = Fresh(s)

(* update_run: the stored flags survive whatever the caller believed.      *)
Advance ==
  /\ run # NoRun
  /\ ~Done(run)
  /\ run' \in [state  : States \ {"queued"},
               cancel : {c \in BOOLEAN : run.cancel => c},
               ack    : {a \in BOOLEAN : run.ack => a}]

RequestCancel ==
  /\ run # NoRun
  /\ run' = [run EXCEPT !.cancel = TRUE]

Delete ==
  /\ run # NoRun
  /\ run' = NoRun

Next == Create \/ Advance \/ RequestCancel \/ Delete

Init == run = NoRun

Spec == Init /\ [][Next]_run

-----------------------------------------------------------------------------

TypeOK == run \in Record \cup {NoRun}

(* A terminal result is final: a late finisher, a second worker or a       *)
(* cancellation never replaces the outcome that was persisted first.       *)
TerminalIsFinal ==
  [][run # NoRun /\ run' # NoRun /\ Done(run) => run'.state = run.state]_run

(* A persisted cancellation request or acknowledgement is never unset by   *)
(* a writer that rewrites the whole object from an older snapshot.         *)
FlagsAreSticky ==
  [][run # NoRun /\ run' # NoRun =>
       (run.cancel => run'.cancel) /\ (run.ack => run'.ack)]_run

(* A run that left the queue never goes back to it: only a queued run may  *)
(* be claimed, so this is what makes a claim unrepeatable.                 *)
NeverRequeued ==
  [][run # NoRun /\ run' # NoRun /\ run'.state = "queued" =>
       run.state = "queued"]_run

=============================================================================
