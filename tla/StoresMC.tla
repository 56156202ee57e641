------------------------------ MODULE StoresMC ------------------------------
(* The run object and the objects of a job, side by side for TLC: they share *)
(* no state, so one of them (part) is at work in each behaviour, and the     *)
(* other keeps its initial state.                                            *)
EXTENDS RunStore, JobStore, TLC

VARIABLE part

storeVars == <<part, vars, jobVars>>

StoreInit == part \in {"run", "job"} /\ Init /\ JobInit

StoreNext ==
  /\ UNCHANGED part
  /\ \/ part = "run" /\ Next /\ UNCHANGED jobVars
     \/ part = "job" /\ JobNext /\ UNCHANGED vars

StoreSpec == StoreInit /\ [][StoreNext]_storeVars

(* The callers are interchangeable: every one may start every call.          *)
StoreSymmetry ==
  Permutations(Clients) \cup Permutations(Activations) \cup Permutations(JobRuns)

=============================================================================
