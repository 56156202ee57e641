------------------------------ MODULE RunRecord ------------------------------
(* The part of ScheduledRun that decides anything: its state, and the two    *)
(* flags update_run merges.  Identity, timestamps, output and error text of  *)
(* the body are left out.                                                    *)

Terminal == {"succeeded", "failed", "cancelled", "skipped"}
Active   == {"preparing", "running", "retrying"}
States   == {"queued"} \cup Active \cup Terminal

Record == [state : States, cancel : BOOLEAN, ack : BOOLEAN]

(* A body as every create_run call builds it.                                *)
Fresh(s) == [state |-> s, cancel |-> FALSE, ack |-> FALSE]

Done(r) == r.state \in Terminal

=============================================================================
