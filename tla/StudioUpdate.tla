----------------------------- MODULE StudioUpdate -----------------------------
(* The control with which an administrator updates the Studio                *)
(* (StudioUpdateControl.tsx), its entries in the browser's storages, the     *)
(* updater behind it (studio_self_update.py) and the deployment it starts.   *)
(*                                                                           *)
(* An update replaces the very server that reports on it: the new revision's *)
(* updater knows nothing of the submission, several instances may answer,    *)
(* and the page reloads itself once the new version serves.  Polls are sent  *)
(* on a timer, whether or not earlier ones were answered, and an answer is   *)
(* looked at whatever the control shows by then: several may be under way,   *)
(* one may follow the end of the wait, and one that was sent for one attempt *)
(* may be looked at in the next.  Release notes, logs and the progress       *)
(* within a submission are left out, and so is the wait for the last line of *)
(* the log.                                                                  *)
EXTENDS Naturals, FiniteSets

CONSTANTS
  MaxVersion,   \* newest release; 0 is the one that serves at first
  MaxAttempts,  \* times the user may start an update
  MaxSwitches,  \* reloads by the user and restarts of the instance, together
  MaxPolls      \* polls and checks under way at once

ASSUME UpdateBounds ==
  /\ MaxVersion \in Nat /\ MaxAttempts \in Nat
  /\ MaxSwitches \in Nat /\ MaxPolls \in Nat \ {0}

VARIABLES
  cloud,      \* the versions serving and deployed, the application's state
  updater,    \* the updater of the serving instance
  requests,   \* the submission of each attempt, on its way and at the server
  begins,     \* beginUpdate of each attempt
  phase,      \* what the control shows
  target,     \* targetVersionRef
  late,       \* RELEASE_TIMEOUT_MS has passed since startedAtRef
  pending,    \* the update in localStorage
  handoff,    \* the version in sessionStorage (and handoffTargetRef)
  answers,    \* answered polls the page has not looked at; equal ones numbered
  updating,   \* the version of the last status, if that was "updating"
  reloads,    \* history: reloads by the control, since the last attempt began
  switches    \* reloads by the user and restarts so far

updateVars == <<cloud, updater, requests, begins, phase, target, late, pending,
                handoff, answers, updating, reloads, switches>>

Versions == 0..MaxVersion
NoVersion == 0                      \* no target: version 0 is nobody's target
Attempts == 1..MaxAttempts
Phases == {"idle", "confirm", "checking", "permission", "submitting",
           "published", "error"}
NewUpdater == [stage |-> "idle", target |-> NoVersion]
NotBegun == [pc |-> "idle", version |-> NoVersion]
Reports == [copy : 1..MaxPolls, polled : BOOLEAN, current : Versions,
            state : {"idle", "updating", "error"}, target : Versions]

(* Every variable keeps to its domain, the version that serves was deployed, *)
(* and an idle updater has no submission.                                    *)
UpdateTypeOK ==
  /\ cloud \in [current : Versions, deployed : Versions,
                app : {"released", "releasing", "failed"}]
  /\ cloud.current <= cloud.deployed
  /\ updater \in [stage : {"idle", "working", "sent", "complete", "error"},
                  target : Versions]
  /\ updater.stage = "idle" <=> updater.target = NoVersion
  /\ requests \in [Attempts ->
                     {"none", "sent", "working", "ok", "failed", "lost"}]
  /\ begins \in [Attempts -> [pc : {"idle", "checking", "posted", "done"},
                             version : Versions]]
  /\ phase \in Phases /\ target \in Versions /\ late \in BOOLEAN
  /\ pending \in Versions /\ handoff \in Versions /\ updating \in Versions
  /\ answers \subseteq Reports
  /\ reloads \in [Versions -> 0..3] /\ switches \in 0..MaxSwitches

UpdateInit ==
  /\ cloud = [current |-> 0, deployed |-> 0, app |-> "released"]
  /\ updater = NewUpdater
  /\ requests = [a \in Attempts |-> "none"]
  /\ begins = [a \in Attempts |-> NotBegun]
  /\ phase = "idle" /\ target = NoVersion /\ late = FALSE
  /\ pending = NoVersion /\ handoff = NoVersion
  /\ answers = {} /\ updating = NoVersion
  /\ reloads = [v \in Versions |-> 0] /\ switches = 0

------------------------------------------------------------------------------
(* The page.                                                                 *)

(* Mutation: an update of somebody else is followed, but not stored.         *)
ShowsOnly(ph, seen) ==
  IF ph = "idle" /\ seen # NoVersion
  THEN /\ phase' = "submitting" /\ target' = seen /\ late' = FALSE
       /\ UNCHANGED pending
  ELSE phase' = ph /\ UNCHANGED <<target, late, pending>>

(* An idle control that sees an update at work follows it.                   *)
Shows(ph, seen) ==
  IF ph = "idle" /\ seen # NoVersion
  THEN /\ phase' = "submitting" /\ target' = seen /\ late' = FALSE
       /\ pending' = seen
  ELSE phase' = ph /\ UNCHANGED <<target, late, pending>>

(* A new page starts from the storages; the old one's calls find nobody.     *)
Reload ==
  /\ phase' = (IF pending # NoVersion THEN "submitting" ELSE "idle")
  /\ target' = pending
  /\ begins' = [a \in Attempts |-> IF begins[a].pc = "idle" THEN begins[a]
                                  ELSE [begins[a] EXCEPT !.pc = "done"]]
  /\ answers' = {} /\ updating' = NoVersion
  /\ UNCHANGED <<late, pending>>

Switch == switches < MaxSwitches /\ switches' = switches + 1

ReloadByUser ==
  /\ Switch /\ Reload
  /\ UNCHANGED <<cloud, updater, requests, handoff, reloads>>

Choose ==
  /\ \/ phase = "idle" /\ phase' = "confirm"
     \/ phase = "error" /\ phase' = "confirm"
  /\ UNCHANGED <<cloud, updater, requests, begins, target, late, pending,
                 handoff, answers, updating, reloads, switches>>

CancelChoice ==
  /\ phase = "confirm"
  /\ Shows("idle", updating)
  /\ UNCHANGED <<cloud, updater, requests, begins, handoff, answers, updating,
                 reloads, switches>>

------------------------------------------------------------------------------
(* beginUpdate: the permissions are checked, then the update is stored and   *)
(* submitted.                                                                *)
BeginUpdate(a, v) ==
  /\ phase \in {"confirm", "permission"} /\ v # NoVersion
  /\ begins[a].pc = "idle" /\ \A b \in 1..(a - 1) : begins[b].pc # "idle"
  /\ handoff' = NoVersion /\ target' = v /\ late' = FALSE
  /\ phase' = "checking"
  /\ begins' = [begins EXCEPT ![a] = [pc |-> "checking", version |-> v]]
  /\ reloads' = [w \in Versions |-> 0]
  /\ UNCHANGED <<cloud, updater, requests, pending, answers, updating,
                 switches>>

Fails(a) ==
  /\ begins' = [begins EXCEPT ![a].pc = "done"]
  /\ pending' = NoVersion /\ phase' = "error"

(* Mutation: the update is stored when the server has accepted it.           *)
StoredLater(v) == pending

StoredFirst(v) == v

Permissions(a) ==
  /\ begins[a].pc = "checking"
  /\ \/ /\ pending' = StoredFirst(begins[a].version)
        /\ phase' = "submitting"
        /\ begins' = [begins EXCEPT ![a].pc = "posted"]
        /\ requests' = [requests EXCEPT ![a] = "sent"]
     \/ /\ begins' = [begins EXCEPT ![a].pc = "done"]
        /\ pending' = NoVersion /\ phase' = "permission"
        /\ UNCHANGED requests
     \/ Fails(a) /\ UNCHANGED requests
  /\ UNCHANGED <<cloud, updater, target, late, handoff, answers, updating,
                 reloads, switches>>

Submitted(a) ==
  /\ begins[a].pc = "posted"
  /\ \/ /\ requests[a] = "ok"
        /\ begins' = [begins EXCEPT ![a].pc = "done"]
        /\ target' = begins[a].version /\ pending' = begins[a].version
        /\ UNCHANGED phase
     \/ /\ requests[a] = "failed" /\ Fails(a)
        /\ UNCHANGED target
  /\ UNCHANGED <<cloud, updater, requests, late, handoff, answers, updating,
                 reloads, switches>>

(* A call that finds no answer ends with a message only: the server may be   *)
(* the one that is being replaced.                                           *)
CallLost(a) ==
  /\ begins[a].pc = "posted"
  /\ begins' = [begins EXCEPT ![a].pc = "done"]
  /\ UNCHANGED <<cloud, updater, requests, phase, target, late, pending, handoff,
                 answers, updating, reloads, switches>>

------------------------------------------------------------------------------
(* The server and the cloud.                                                 *)

ServeRequest(a) ==
  /\ requests[a] = "sent"
  /\ IF updater.stage = "working"
     THEN /\ requests' = [requests EXCEPT ![a] = "failed"]
          /\ UNCHANGED updater
     ELSE /\ requests' = [requests EXCEPT ![a] = "working"]
          /\ updater' = [stage |-> "working", target |-> begins[a].version]
  /\ UNCHANGED <<cloud, begins, phase, target, late, pending, handoff, answers,
                 updating, reloads, switches>>

(* submit_version: only a newer version is submitted.                        *)
RequestEnds(a) ==
  LET v == begins[a].version
      Ends(stage, reply) ==
        /\ updater' = [updater EXCEPT !.stage = stage]
        /\ requests' = [requests EXCEPT ![a] = reply]
  IN /\ requests[a] = "working"
     /\ \/ cloud.current = v /\ Ends("complete", "ok") /\ UNCHANGED cloud
        \/ cloud.current # v /\ Ends("error", "failed") /\ UNCHANGED cloud
        \/ /\ cloud.current < v
           /\ Ends("sent", "ok")
           /\ cloud' = [cloud EXCEPT !.deployed = v, !.app = "releasing"]
     /\ UNCHANGED <<begins, phase, target, late, pending, handoff, answers,
                    updating, reloads, switches>>

(* Mutation: the target of the predecessor's submission is kept.             *)
NewInstanceKeepsTarget ==
  /\ updater' = [updater EXCEPT !.stage = "idle"]
  /\ requests' = [a \in Attempts |->
                    IF requests[a] = "working" THEN "lost" ELSE requests[a]]

(* A new instance knows nothing of the submission its predecessor works on.  *)
NewInstance ==
  /\ updater' = NewUpdater
  /\ requests' = [a \in Attempts |->
                    IF requests[a] = "working" THEN "lost" ELSE requests[a]]

(* A new revision takes over, or fails to.                                   *)
Rollout ==
  /\ cloud.app = "releasing"
  /\ \/ /\ cloud' = [cloud EXCEPT !.current = cloud.deployed, !.app = "released"]
        /\ NewInstance
     \/ /\ cloud' = [cloud EXCEPT !.app = "failed"]
        /\ UNCHANGED <<updater, requests>>
  /\ UNCHANGED <<begins, phase, target, late, pending, handoff, answers, updating,
                 reloads, switches>>

Restart ==
  /\ Switch /\ NewInstance
  /\ UNCHANGED <<cloud, begins, phase, target, late, pending, handoff, answers,
                 updating, reloads>>

------------------------------------------------------------------------------
(* status and the polls.                                                     *)

(* What an updater answer to a page that asks for a version (or for none):  *)
(* its own submission first, the application otherwise.  A version that was  *)
(* not deployed is waited for during a grace period.                         *)
StatusStates(u, asked) ==
  LET wanted == IF asked # NoVersion THEN asked ELSE u.target
      own == asked = NoVersion \/ asked = u.target
  IN IF wanted # NoVersion /\ cloud.current >= wanted THEN {"idle"}
     ELSE IF u.stage = "error" /\ own THEN {"error"}
     ELSE IF u.stage \in {"working", "sent"} /\ own THEN {"updating"}
     ELSE IF cloud.app = "failed" THEN {"error"}
     ELSE IF cloud.app = "releasing" THEN {"updating"}
     ELSE IF wanted = NoVersion THEN {"idle"}
     ELSE IF cloud.deployed # wanted THEN {"updating", "error"}
     ELSE {"updating"}

StatusTarget(u, asked) ==
  IF asked # NoVersion THEN asked
  ELSE IF u.target # NoVersion THEN u.target ELSE cloud.deployed

DeployedVersion == cloud.deployed    \* mutation

(* current_studio_release_version: the answering instance's own.             *)
ServedVersion == cloud.current

(* Another instance than the one that took the submission may answer, and    *)
(* one that cannot read the releases says error.  The slow timer matters     *)
(* where the fast one is not set.                                            *)
AskStatus(polled) ==
  /\ Cardinality(answers) < MaxPolls
  /\ \E u \in {updater, NewUpdater}, c \in 1..MaxPolls :
     \E s \in StatusStates(u, target) \cup {"error"} :
       LET x == [copy |-> c, polled |-> polled, state |-> s,
                 current |-> IF polled THEN ServedVersion ELSE 0,
                 target |-> IF s = "updating" THEN StatusTarget(u, target)
                            ELSE NoVersion]
       IN /\ x \notin answers
          /\ \A d \in 1..(c - 1) : [x EXCEPT !.copy = d] \in answers
          /\ answers' = answers \cup {x}
  /\ UNCHANGED <<cloud, updater, requests, begins, phase, target, late,
                 pending, handoff, updating, reloads, switches>>

Poll == phase = "submitting" /\ AskStatus(TRUE)
Check == phase # "submitting" /\ AskStatus(FALSE)

(* Mutation: the reload is not remembered.                                   *)
HandoffForgotten(v) == NoVersion

Handoff(v) == v

Reached(x) == target # NoVersion /\ x.current >= target

(* Mutation: the control waits for the version as long as it takes.          *)
FailedByServer(x) == x.state = "error"

GivenUp(x) == x.state = "error" \/ late

(* A poll was answered: the version serves (the page reloads, to get the new *)
(* frontend, and then says so), or the update failed or takes too long.      *)
LookAt(x) ==
  /\ x \in answers /\ [x EXCEPT !.copy = @ + 1] \notin answers
  /\ LET seen == x.target
     IN IF x.polled /\ Reached(x) /\ handoff # target
        THEN /\ handoff' = Handoff(target)
             /\ reloads' = [reloads EXCEPT ![target] = IF @ = 3 THEN @ ELSE @ + 1]
             /\ Reload
        ELSE /\ answers' = answers \ {x}
             /\ updating' = seen
             /\ IF x.polled /\ Reached(x)
                THEN /\ pending' = NoVersion /\ handoff' = NoVersion
                     /\ phase' = "published"
                     /\ UNCHANGED <<target, late>>
                ELSE /\ IF x.polled /\ GivenUp(x)
                        THEN /\ pending' = NoVersion /\ phase' = "error"
                             /\ UNCHANGED <<target, late>>
                        ELSE Shows(phase, seen)
                     /\ UNCHANGED handoff
             /\ UNCHANGED <<begins, reloads>>
  /\ UNCHANGED <<cloud, updater, requests, switches>>

TimePasses ==
  /\ phase = "submitting" \/ \E x \in answers : x.polled
  /\ ~late /\ late' = TRUE
  /\ UNCHANGED <<cloud, updater, requests, begins, phase, target, pending,
                 handoff, answers, updating, reloads, switches>>

Look == \E x \in answers : LookAt(x)

UpdateNext ==
  \/ ReloadByUser \/ Choose \/ CancelChoice
  \/ \E a \in Attempts :
       \/ \E v \in Versions : BeginUpdate(a, v)
       \/ Permissions(a) \/ Submitted(a) \/ CallLost(a)
       \/ ServeRequest(a) \/ RequestEnds(a)
  \/ Rollout \/ Restart
  \/ Poll \/ Check \/ Look \/ TimePasses

(* Polls are sent on a timer and answered, and time passes.                  *)
UpdateFairness ==
  /\ WF_updateVars(Poll)
  /\ WF_updateVars(Look)
  /\ WF_updateVars(TimePasses)

UpdateSpec == UpdateInit /\ [][UpdateNext]_updateVars /\ UpdateFairness

------------------------------------------------------------------------------
(* An update that is shown to be at work survives a reload: the storage      *)
(* holds the update a new page would wait for ("update state survives        *)
(* refreshes and instance switches", studioUpdate.test.mjs:103).  A slow     *)
(* submission of the attempt before can make it the older one's version.     *)
WaitIsStored == phase = "submitting" => pending # NoVersion

(* The page does not reload itself over and over, although the new page      *)
(* starts with the same polls and finds the same version reached: it reloads *)
(* once to announce the version, and again only if an answer comes after the *)
(* announcement, which leaves a page that waits no more for it.              *)
ReloadsEnd ==
  \A v \in Versions : reloads[v] <= 2 /\ (reloads[v] = 2 => pending # v)

(* What the control calls published is served, in whatever order polls of    *)
(* several attempts are answered and instances change.                       *)
PublishedIsServed == phase = "published" => cloud.current >= target

(* An update does not stay at work for ever.                                 *)
UpdateSettles == []<>(phase # "submitting")

=============================================================================
