-------------------------- MODULE StudioUpdateProofs --------------------------
(* The safety properties of the self update (StudioUpdate), for any number   *)
(* of releases, attempts, reloads and restarts.                              *)
EXTENDS StudioUpdate, TLAPS

USE UpdateBounds

(* No call of beginUpdate is at work.                                        *)
Quiet == \A a \in Attempts : begins[a].pc \notin {"checking", "posted"}

(* The server: every attempt has a version, at most one submission is at     *)
(* work, and an application that is released has a newer version to come.    *)
ServerInv ==
  /\ \A a \in Attempts :
       /\ begins[a].pc # "idle" => begins[a].version # NoVersion
       /\ requests[a] # "none" => begins[a].pc # "idle"
       /\ requests[a] = "working" => updater.stage = "working"
       /\ \A b \in Attempts : requests[a] = "working" /\ requests[b] = "working" => a = b
  /\ cloud.app = "releasing" => cloud.current < cloud.deployed

(* A version for which the page reloaded itself serves, and no status names  *)
(* it as being at work any more; the page remembers the reload, or it does   *)
(* not wait for that version any more.  A page that reloaded twice has       *)
(* another target.                                                           *)
Reloaded(v) ==
  /\ v # NoVersion /\ v <= cloud.current
  /\ Quiet
  /\ pending \in {NoVersion, target}
  /\ updating # v /\ \A x \in answers : x.target # v
  /\ handoff = v \/ (pending # v /\ (target = v => phase # "submitting"))
  /\ reloads[v] <= 2 /\ (reloads[v] = 2 => target # v)

PageInv ==
  /\ WaitIsStored /\ PublishedIsServed
  /\ phase = "published" \/ handoff # NoVersion => Quiet
  /\ \A x \in answers : x.current <= cloud.current
  /\ \A v \in Versions : reloads[v] # 0 => Reloaded(v)

UpdateInv == UpdateTypeOK /\ ServerInv /\ PageInv

Begin == [pc : {"idle", "checking", "posted", "done"}, version : Versions]

------------------------------------------------------------------------------
LEMMA NoVersionIsOne == NoVersion \in Versions /\ Versions \subseteq Nat
BY DEF NoVersion, Versions

LEMMA InitUpdateInv == UpdateInit => UpdateInv
<1> SUFFICES ASSUME UpdateInit PROVE UpdateInv
  OBVIOUS
<1>1. NotBegun \in Begin /\ NotBegun.pc = "idle"
  BY NoVersionIsOne DEF NotBegun, Begin
<1>2. begins \in [Attempts -> Begin] /\ \A a \in Attempts : begins[a].pc = "idle"
  BY <1>1 DEF UpdateInit
<1>3. UpdateTypeOK
  <2>1. late \in BOOLEAN
    BY Zenon DEF UpdateInit
  <2>2. cloud \in [current : Versions, deployed : Versions,
                   app : {"released", "releasing", "failed"}]
        /\ cloud.current <= cloud.deployed
    BY DEF UpdateInit, Versions
  <2>3. /\ updater \in [stage : {"idle", "working", "sent", "complete", "error"},
                        target : Versions]
        /\ updater.stage = "idle" /\ updater.target = NoVersion
    BY NoVersionIsOne DEF UpdateInit, NewUpdater
  <2> QED BY <1>2, <2>1, <2>2, <2>3, NoVersionIsOne
          DEF UpdateInit, UpdateTypeOK, Begin, Phases
<1>4. ServerInv
  BY <1>2 DEF UpdateInit, ServerInv
<1>5. PageInv
  BY <1>2 DEF UpdateInit, PageInv, WaitIsStored, PublishedIsServed, Quiet
<1> QED BY <1>3, <1>4, <1>5 DEF UpdateInv

------------------------------------------------------------------------------
(* The server's part does not depend on what the page shows.                 *)
LEMMA ServerFrame ==
  ASSUME ServerInv, UNCHANGED <<cloud, updater, requests>>,
         \A a \in Attempts : /\ begins'[a].version = begins[a].version
                             /\ begins'[a].pc = "idle" <=> begins[a].pc = "idle"
  PROVE  ServerInv'
BY DEF ServerInv

(* A page that does not move keeps its part while the version that serves    *)
(* only grows.                                                               *)
LEMMA PageFrame ==
  ASSUME UpdateTypeOK, PageInv, cloud'.current \in Versions,
         cloud.current <= cloud'.current,
         UNCHANGED <<begins, phase, target, pending, handoff, answers, updating,
                     reloads>>
  PROVE  PageInv'
<1>1. \A v \in Versions : Reloaded(v) => Reloaded(v)'
  BY DEF Reloaded, Quiet, UpdateTypeOK, Versions
<1>2. \A x \in answers : x.current \in Versions
  BY DEF UpdateTypeOK, Reports
<1>3. PublishedIsServed'
  BY DEF PageInv, PublishedIsServed, UpdateTypeOK, Versions
<1>4. \A x \in answers : x.current <= cloud'.current
  BY <1>2 DEF PageInv, UpdateTypeOK, Versions
<1> QED BY <1>1, <1>3, <1>4 DEF PageInv, WaitIsStored, Quiet

(* A call of beginUpdate moves on.                                           *)
LEMMA BeginMoves ==
  ASSUME UpdateTypeOK, NEW a \in Attempts, NEW p \in {"posted", "done"},
         begins[a].pc # "idle", begins' = [begins EXCEPT ![a].pc = p]
  PROVE  /\ begins' \in [Attempts -> Begin]
         /\ begins'[a].pc = p
         /\ \A b \in Attempts : /\ begins'[b].version = begins[b].version
                                /\ begins'[b].pc = "idle" <=> begins[b].pc = "idle"
                                /\ b # a => begins'[b] = begins[b]
<1>1. begins \in [Attempts -> Begin]
  BY DEF UpdateTypeOK, Begin
<1> QED BY <1>1 DEF Begin

LEMMA ShowsCases ==
  ASSUME UpdateTypeOK, NEW ph, NEW seen, Shows(ph, seen)
  PROVE  /\ late' \in BOOLEAN
         /\ \/ /\ ph = "idle" /\ seen # NoVersion /\ phase' = "submitting"
               /\ target' = seen /\ pending' = seen
            \/ /\ ph = "idle" => seen = NoVersion
               /\ phase' = ph /\ target' = target /\ pending' = pending
<1>1. late' = FALSE \/ late' = late
  BY DEF Shows
<1>2. late' \in BOOLEAN
  BY <1>1, Zenon DEF UpdateTypeOK
<1> QED BY <1>2 DEF Shows

LEMMA ReloadMoves ==
  ASSUME UpdateTypeOK, Reload
  PROVE  /\ begins' \in [Attempts -> Begin]
         /\ \A b \in Attempts : /\ begins'[b].version = begins[b].version
                                /\ begins'[b].pc = "idle" <=> begins[b].pc = "idle"
         /\ Quiet'
         /\ phase' = (IF pending # NoVersion THEN "submitting" ELSE "idle")
         /\ target' = pending /\ answers' = {} /\ updating' = NoVersion
         /\ pending' = pending /\ late' \in BOOLEAN
<1>1. begins \in [Attempts -> Begin]
  BY DEF UpdateTypeOK, Begin
<1>2. ASSUME NEW a \in Attempts
      PROVE  /\ begins'[a] \in Begin
             /\ begins'[a].version = begins[a].version
             /\ begins'[a].pc = IF begins[a].pc = "idle" THEN "idle" ELSE "done"
  BY <1>1 DEF Reload, Begin
<1>3. begins' \in [Attempts -> Begin]
  BY <1>2, Zenon DEF Reload
<1>4. late' \in BOOLEAN
  BY Zenon DEF Reload, UpdateTypeOK
<1> QED BY <1>2, <1>3, <1>4 DEF Reload, Quiet

------------------------------------------------------------------------------
(* The page: a reload, by the user or by the control.                        *)
LEMMA ReloadKeepsPage ==
  ASSUME UpdateInv, Reload, UNCHANGED cloud,
         \A v \in Versions : reloads'[v] <= 2 /\ (reloads'[v] = 2 => pending # v),
         \A v \in Versions : reloads'[v] # 0 =>
           v # NoVersion /\ v <= cloud.current /\ (handoff' = v \/ pending # v)
  PROVE  PageInv'
<1>1. Quiet' /\ target' = pending /\ answers' = {} /\ updating' = NoVersion
      /\ pending' = pending /\ phase' # "published"
      /\ phase' = (IF pending # NoVersion THEN "submitting" ELSE "idle")
  BY ReloadMoves DEF UpdateInv
<1>2. \A v \in Versions : reloads'[v] # 0 => Reloaded(v)'
  BY <1>1 DEF Reloaded
<1> QED BY <1>1, <1>2 DEF PageInv, WaitIsStored, PublishedIsServed

LEMMA ReloadByUserInv == ASSUME UpdateInv, ReloadByUser PROVE UpdateInv'
<1>1. /\ Reload /\ UNCHANGED <<cloud, updater, requests, handoff, reloads>>
      /\ switches < MaxSwitches /\ switches' = switches + 1
  BY DEF ReloadByUser, Switch
<1>2. UpdateTypeOK'
  BY <1>1, ReloadMoves, NoVersionIsOne DEF UpdateInv, UpdateTypeOK, Begin, Phases
<1>3. ServerInv'
  BY <1>1, ReloadMoves, ServerFrame DEF UpdateInv
<1>4. PageInv'
  BY <1>1, ReloadKeepsPage DEF UpdateInv, PageInv, Reloaded
<1> QED BY <1>2, <1>3, <1>4 DEF UpdateInv

LEMMA ChooseInv == ASSUME UpdateInv, Choose \/ CancelChoice PROVE UpdateInv'
<1>1. UNCHANGED <<cloud, updater, requests, begins, handoff, answers, updating,
                  reloads, switches>>
  BY DEF Choose, CancelChoice
<1>2. /\ phase # "published" /\ phase # "submitting"
      /\ \/ phase' = "confirm" /\ UNCHANGED <<target, late, pending>>
         \/ Shows("idle", updating)
  BY DEF Choose, CancelChoice
<1>3. /\ late' \in BOOLEAN
      /\ \/ /\ phase' \in {"confirm", "idle"} /\ UNCHANGED <<target, pending>>
         \/ /\ phase' = "submitting" /\ updating # NoVersion
            /\ target' = updating /\ pending' = updating
  <2>1. CASE phase' = "confirm" /\ UNCHANGED <<target, late, pending>>
    BY <2>1, Zenon DEF UpdateInv, UpdateTypeOK
  <2>2. CASE Shows("idle", updating)
    BY <2>2, ShowsCases DEF UpdateInv
  <2> QED BY <1>2, <2>1, <2>2
<1>4. UpdateTypeOK'
  BY <1>1, <1>3 DEF UpdateInv, UpdateTypeOK, Phases
<1>5. ServerInv'
  BY <1>1, ServerFrame DEF UpdateInv
<1>6. \A v \in Versions : reloads[v] # 0 => Reloaded(v)'
  BY <1>1, <1>3 DEF UpdateInv, PageInv, Reloaded, Quiet
<1>7. PageInv'
  BY <1>1, <1>3, <1>6 DEF UpdateInv, PageInv, WaitIsStored,
                          PublishedIsServed, Quiet
<1> QED BY <1>4, <1>5, <1>7 DEF UpdateInv

(* A page without a call at work is no longer sure of it: nothing was        *)
(* reloaded for the attempt that begins.                                     *)
LEMMA BeginUpdateInv ==
  ASSUME UpdateInv, NEW a \in Attempts, NEW v \in Versions, BeginUpdate(a, v)
  PROVE  UpdateInv'
<1>1. /\ phase' = "checking" /\ target' = v /\ v # NoVersion /\ handoff' = NoVersion
      /\ begins[a].pc = "idle"
      /\ begins' = [begins EXCEPT ![a] = [pc |-> "checking", version |-> v]]
      /\ reloads' = [w \in Versions |-> 0]
      /\ UNCHANGED <<cloud, updater, requests, pending, answers, updating, switches>>
  BY DEF BeginUpdate
<1>2. late' \in BOOLEAN
  BY Zenon DEF BeginUpdate
<1>3. /\ begins' \in [Attempts -> Begin]
      /\ begins'[a].version = v /\ begins'[a].pc = "checking"
      /\ \A b \in Attempts \ {a} : begins'[b] = begins[b]
  <2>1. begins \in [Attempts -> Begin]
    BY DEF UpdateInv, UpdateTypeOK, Begin
  <2>2. [pc |-> "checking", version |-> v] \in Begin
    BY DEF Begin
  <2> QED BY <1>1, <2>1, <2>2
<1>4. UpdateTypeOK'
  BY <1>1, <1>2, <1>3, NoVersionIsOne DEF UpdateInv, UpdateTypeOK, Begin, Phases
<1>5. ServerInv'
  BY <1>1, <1>3 DEF UpdateInv, ServerInv
<1>6. PageInv'
  BY <1>1 DEF UpdateInv, PageInv, WaitIsStored, PublishedIsServed
<1> QED BY <1>4, <1>5, <1>6 DEF UpdateInv

(* While a call is at work, the page reloaded for no version.                *)
LEMMA WorkingPage ==
  ASSUME UpdateInv, NEW a \in Attempts, begins[a].pc \in {"checking", "posted"}
  PROVE  /\ handoff = NoVersion /\ phase # "published"
         /\ \A v \in Versions : reloads[v] = 0
BY DEF UpdateInv, PageInv, Reloaded, Quiet

LEMMA CallStepPage ==
  ASSUME UpdateInv, NEW a \in Attempts, begins[a].pc \in {"checking", "posted"},
         UNCHANGED <<cloud, handoff, answers, reloads>>,
         phase' # "published", phase' = "submitting" => pending' # NoVersion
  PROVE  PageInv'
BY WorkingPage DEF UpdateInv, PageInv, WaitIsStored, PublishedIsServed

LEMMA PermissionsInv ==
  ASSUME UpdateInv, NEW a \in Attempts, Permissions(a)
  PROVE  UpdateInv'
<1>0. begins[a].pc = "checking" /\ begins[a].version \in Versions
      /\ begins[a].version # NoVersion
  BY DEF Permissions, UpdateInv, UpdateTypeOK, ServerInv
<1>1. PICK p \in {"posted", "done"} : begins' = [begins EXCEPT ![a].pc = p]
  BY DEF Permissions, Fails
<1>2. /\ \/ /\ pending' = begins[a].version /\ phase' = "submitting"
            /\ requests' = [requests EXCEPT ![a] = "sent"]
         \/ /\ pending' = NoVersion /\ phase' \in {"permission", "error"}
            /\ UNCHANGED requests
      /\ UNCHANGED <<cloud, updater, target, late, handoff, answers, updating,
                     reloads, switches>>
  BY DEF Permissions, Fails, StoredFirst
<1>3. /\ begins' \in [Attempts -> Begin] /\ begins'[a].pc # "idle"
      /\ \A b \in Attempts : /\ begins'[b].version = begins[b].version
                             /\ begins'[b].pc = "idle" <=> begins[b].pc = "idle"
  BY <1>0, <1>1, BeginMoves DEF UpdateInv
<1>4. UpdateTypeOK'
  BY <1>0, <1>2, <1>3, NoVersionIsOne DEF UpdateInv, UpdateTypeOK, Begin, Phases
<1>5. ServerInv'
  BY <1>2, <1>3 DEF UpdateInv, ServerInv, UpdateTypeOK
<1>6. PageInv'
  BY <1>0, <1>2, CallStepPage
<1> QED BY <1>4, <1>5, <1>6 DEF UpdateInv

LEMMA SubmittedInv ==
  ASSUME UpdateInv, NEW a \in Attempts, Submitted(a) \/ CallLost(a)
  PROVE  UpdateInv'
<1>0. begins[a].pc = "posted" /\ begins[a].version \in Versions
      /\ begins[a].version # NoVersion
  BY DEF Submitted, CallLost, UpdateInv, UpdateTypeOK, ServerInv
<1>1. begins' = [begins EXCEPT ![a].pc = "done"]
  BY DEF Submitted, CallLost, Fails
<1>2. /\ \/ /\ target' = begins[a].version /\ pending' = begins[a].version
            /\ UNCHANGED phase
         \/ pending' = NoVersion /\ phase' = "error" /\ UNCHANGED target
         \/ UNCHANGED <<pending, phase, target>>
      /\ UNCHANGED <<cloud, updater, requests, late, handoff, answers, updating,
                     reloads, switches>>
  BY DEF Submitted, CallLost, Fails
<1>3. /\ begins' \in [Attempts -> Begin]
      /\ \A b \in Attempts : /\ begins'[b].version = begins[b].version
                             /\ begins'[b].pc = "idle" <=> begins[b].pc = "idle"
  BY <1>0, <1>1, BeginMoves DEF UpdateInv
<1>4. UpdateTypeOK'
  BY <1>0, <1>2, <1>3, NoVersionIsOne DEF UpdateInv, UpdateTypeOK, Begin, Phases
<1>5. ServerInv'
  BY <1>2, <1>3, ServerFrame DEF UpdateInv
<1>6. phase' # "published" /\ (phase' = "submitting" => pending' # NoVersion)
  BY <1>0, <1>2, WorkingPage DEF UpdateInv, PageInv, WaitIsStored
<1>7. PageInv'
  BY <1>0, <1>2, <1>6, CallStepPage
<1> QED BY <1>4, <1>5, <1>7 DEF UpdateInv

------------------------------------------------------------------------------
(* The server.  Submissions go on one at a time.                             *)
LEMMA RequestMoves ==
  ASSUME UpdateTypeOK, NEW a \in Attempts,
         NEW s \in {"none", "sent", "working", "ok", "failed", "lost"},
         requests' = [requests EXCEPT ![a] = s]
  PROVE  /\ requests' \in [Attempts ->
                             {"none", "sent", "working", "ok", "failed", "lost"}]
         /\ requests'[a] = s
         /\ \A b \in Attempts \ {a} : requests'[b] = requests[b]
BY DEF UpdateTypeOK

LEMMA ServeRequestInv ==
  ASSUME UpdateInv, NEW a \in Attempts, ServeRequest(a)
  PROVE  UpdateInv'
<1>1. /\ requests[a] = "sent"
      /\ UNCHANGED <<cloud, begins, phase, target, late, pending, handoff, answers,
                     updating, reloads, switches>>
  BY DEF ServeRequest
<1>2. begins[a].version # NoVersion /\ begins[a].version \in Versions
  BY <1>1 DEF UpdateInv, UpdateTypeOK, ServerInv
<1>3. PageInv'
  BY <1>1, PageFrame DEF UpdateInv, UpdateTypeOK, Versions
<1>4. CASE updater.stage = "working"
  <2>1. requests' = [requests EXCEPT ![a] = "failed"] /\ UNCHANGED updater
    BY <1>4 DEF ServeRequest
  <2>2. UpdateTypeOK'
    BY <1>1, <2>1, RequestMoves DEF UpdateInv, UpdateTypeOK
  <2>3. ServerInv'
    BY <1>1, <2>1, RequestMoves DEF UpdateInv, ServerInv
  <2> QED BY <1>3, <2>2, <2>3 DEF UpdateInv
<1>5. CASE updater.stage # "working"
  <2>1. /\ requests' = [requests EXCEPT ![a] = "working"]
        /\ updater' = [stage |-> "working", target |-> begins[a].version]
    BY <1>5 DEF ServeRequest
  <2>2. UpdateTypeOK'
    BY <1>1, <1>2, <2>1, RequestMoves DEF UpdateInv, UpdateTypeOK
  <2>3. \A b \in Attempts : requests[b] # "working"
    BY <1>5 DEF UpdateInv, ServerInv
  <2>4. ServerInv'
    BY <1>1, <2>1, <2>3, RequestMoves DEF UpdateInv, ServerInv
  <2> QED BY <1>3, <2>2, <2>4 DEF UpdateInv
<1> QED BY <1>4, <1>5

LEMMA RequestEndsInv ==
  ASSUME UpdateInv, NEW a \in Attempts, RequestEnds(a)
  PROVE  UpdateInv'
<1> DEFINE v == begins[a].version
           CloudType == [current : Versions, deployed : Versions,
                         app : {"released", "releasing", "failed"}]
<1>0. /\ requests[a] = "working" /\ v \in Versions /\ v # NoVersion
      /\ updater.stage = "working" /\ updater.target # NoVersion
  BY DEF RequestEnds, UpdateInv, UpdateTypeOK, ServerInv
<1>1. UNCHANGED <<begins, phase, target, late, pending, handoff, answers, updating,
                  reloads, switches>>
  BY DEF RequestEnds
<1>2. PICK stage \in {"complete", "error", "sent"}, reply \in {"ok", "failed"} :
        /\ updater' = [updater EXCEPT !.stage = stage]
        /\ requests' = [requests EXCEPT ![a] = reply]
  BY DEF RequestEnds
<1>3. \/ UNCHANGED cloud
      \/ /\ cloud.current < v
         /\ cloud' = [cloud EXCEPT !.deployed = v, !.app = "releasing"]
  BY DEF RequestEnds
<1>4. /\ cloud' \in CloudType /\ cloud'.current = cloud.current
      /\ cloud'.current <= cloud'.deployed
      /\ cloud'.app = "releasing" => cloud'.current < cloud'.deployed
  <2>1. cloud \in CloudType /\ cloud.current <= cloud.deployed
        /\ (cloud.app = "releasing" => cloud.current < cloud.deployed)
    BY DEF UpdateInv, UpdateTypeOK, ServerInv
  <2>2. CASE UNCHANGED cloud
    BY <2>1, <2>2
  <2>3. CASE /\ cloud.current < v
             /\ cloud' = [cloud EXCEPT !.deployed = v, !.app = "releasing"]
    <3>1. v \in Versions /\ cloud.current < v
      BY <1>0, <2>3
    <3> HIDE DEF v
    <3>2. /\ cloud' \in CloudType /\ cloud'.current = cloud.current
          /\ cloud'.deployed = v
      BY <2>1, <2>3, <3>1
    <3>3. cloud.current \in Nat /\ v \in Nat
      BY <2>1, <3>1, NoVersionIsOne
    <3> QED BY <3>1, <3>2, <3>3
  <2> QED BY <1>3, <2>2, <2>3
<1>5. /\ updater' \in [stage : {"idle", "working", "sent", "complete", "error"},
                       target : Versions]
      /\ updater'.stage # "idle" /\ updater'.target # NoVersion
  BY <1>0, <1>2 DEF UpdateInv, UpdateTypeOK
<1>6. \A b \in Attempts : requests'[b] # "working"
                         /\ (requests'[b] # "none" => requests[b] # "none")
  <2>1. /\ requests'[a] = reply
        /\ \A b \in Attempts \ {a} : requests'[b] = requests[b]
    BY <1>2, RequestMoves DEF UpdateInv
  <2>2. /\ requests[a] = "working" /\ requests[a] # "none"
        /\ \A b \in Attempts \ {a} : requests[b] # "working"
    BY <1>0 DEF UpdateInv, ServerInv
  <2> QED BY <2>1, <2>2
<1>7. UpdateTypeOK'
  BY <1>1, <1>2, <1>4, <1>5, RequestMoves DEF UpdateInv, UpdateTypeOK
<1>8. ServerInv'
  BY <1>1, <1>4, <1>6 DEF UpdateInv, ServerInv
<1>9. PageInv'
  BY <1>1, <1>4, PageFrame DEF UpdateInv, UpdateTypeOK, Versions
<1> QED BY <1>7, <1>8, <1>9 DEF UpdateInv

LEMMA NewInstanceMoves ==
  ASSUME UpdateTypeOK, NewInstance
  PROVE  /\ requests' \in [Attempts ->
                             {"none", "sent", "working", "ok", "failed", "lost"}]
         /\ \A a \in Attempts : requests'[a] # "working"
                               /\ (requests'[a] # "none" => requests[a] # "none")
         /\ updater' = NewUpdater
BY DEF UpdateTypeOK, NewInstance

LEMMA InstanceInv == ASSUME UpdateInv, Rollout \/ Restart PROVE UpdateInv'
<1> DEFINE CloudType == [current : Versions, deployed : Versions,
                         app : {"released", "releasing", "failed"}]
<1>1. /\ UNCHANGED <<begins, phase, target, late, pending, handoff, answers,
                     updating, reloads>>
      /\ NewInstance \/ UNCHANGED <<updater, requests>>
      /\ switches' = switches \/ (switches < MaxSwitches /\ switches' = switches + 1)
  BY DEF Rollout, Restart, Switch
<1>2. /\ cloud' \in CloudType /\ cloud.current <= cloud'.current
      /\ cloud'.current <= cloud'.deployed
      /\ cloud'.app = "releasing" => cloud'.current < cloud'.deployed
  <2>1. cloud \in CloudType /\ cloud.current <= cloud.deployed
        /\ (cloud.app = "releasing" => cloud.current < cloud.deployed)
    BY DEF UpdateInv, UpdateTypeOK, ServerInv
  <2>2. \/ UNCHANGED cloud
        \/ cloud' = [cloud EXCEPT !.current = cloud.deployed, !.app = "released"]
        \/ cloud' = [cloud EXCEPT !.app = "failed"]
    BY DEF Rollout, Restart
  <2>3. cloud.current \in Nat /\ cloud.deployed \in Nat
    BY <2>1, NoVersionIsOne
  <2>4. CASE UNCHANGED cloud
    BY <2>1, <2>3, <2>4
  <2>5. CASE cloud' = [cloud EXCEPT !.current = cloud.deployed, !.app = "released"]
    <3>1. /\ cloud' \in CloudType /\ cloud'.app = "released"
          /\ cloud'.current = cloud.deployed /\ cloud'.deployed = cloud.deployed
      BY <2>1, <2>5
    <3> QED BY <2>1, <2>3, <3>1
  <2>6. CASE cloud' = [cloud EXCEPT !.app = "failed"]
    <3>1. /\ cloud' \in CloudType /\ cloud'.app = "failed"
          /\ cloud'.current = cloud.current /\ cloud'.deployed = cloud.deployed
      BY <2>1, <2>6
    <3> QED BY <2>1, <2>3, <3>1
  <2> QED BY <2>2, <2>4, <2>5, <2>6
<1>3. CASE NewInstance
  <2>1. NewUpdater \in [stage : {"idle", "working", "sent", "complete", "error"},
                        target : Versions]
        /\ NewUpdater.stage = "idle" /\ NewUpdater.target = NoVersion
    BY NoVersionIsOne DEF NewUpdater
  <2>2. UpdateTypeOK'
    BY <1>1, <1>2, <1>3, <2>1, NewInstanceMoves DEF UpdateInv, UpdateTypeOK
  <2>3. ServerInv'
    BY <1>1, <1>2, <1>3, NewInstanceMoves DEF UpdateInv, ServerInv
  <2> QED BY <1>1, <1>2, <2>2, <2>3, PageFrame DEF UpdateInv
<1>4. CASE UNCHANGED <<updater, requests>>
  <2>1. UpdateTypeOK'
    BY <1>1, <1>2, <1>4 DEF UpdateInv, UpdateTypeOK
  <2>2. ServerInv'
    BY <1>1, <1>2, <1>4 DEF UpdateInv, ServerInv
  <2> QED BY <1>1, <1>2, <2>1, <2>2, PageFrame DEF UpdateInv
<1> QED BY <1>1, <1>3, <1>4

------------------------------------------------------------------------------
(* A status that calls a version at work names one that does not serve yet.  *)
LEMMA UpdatingIsAhead ==
  ASSUME UpdateInv, NEW u \in {updater, NewUpdater}, NEW asked \in Versions,
         "updating" \in StatusStates(u, asked)
  PROVE  /\ StatusTarget(u, asked) \in Versions
         /\ cloud.current < StatusTarget(u, asked)
<1>1. u.target \in Versions /\ (u.stage = "idle" <=> u.target = NoVersion)
  BY NoVersionIsOne DEF UpdateInv, UpdateTypeOK, NewUpdater
<1>2. cloud.current \in Versions /\ cloud.deployed \in Versions
      /\ (cloud.app = "releasing" => cloud.current < cloud.deployed)
  BY DEF UpdateInv, UpdateTypeOK, ServerInv
<1>3. CASE asked # NoVersion
  BY <1>1, <1>2, <1>3 DEF StatusStates, StatusTarget, Versions
<1>4. CASE asked = NoVersion /\ u.target # NoVersion
  BY <1>1, <1>2, <1>4 DEF StatusStates, StatusTarget, Versions
<1>5. CASE asked = NoVersion /\ u.target = NoVersion
  BY <1>1, <1>2, <1>5 DEF StatusStates, StatusTarget, Versions
<1> QED BY <1>3, <1>4, <1>5

LEMMA AskStatusInv ==
  ASSUME UpdateInv, NEW polled \in BOOLEAN, AskStatus(polled)
  PROVE  UpdateInv'
<1>1. UNCHANGED <<cloud, updater, requests, begins, phase, target, late, pending,
                  handoff, updating, reloads, switches>>
  BY DEF AskStatus
<1>2. PICK u \in {updater, NewUpdater}, n \in 1..MaxPolls :
      \E s \in StatusStates(u, target) \cup {"error"} :
        answers' = answers \cup
          {[copy |-> n, polled |-> polled, state |-> s,
            current |-> IF polled THEN ServedVersion ELSE 0,
            target |-> IF s = "updating" THEN StatusTarget(u, target)
                       ELSE NoVersion]}
  BY DEF AskStatus
<1>3. PICK s \in StatusStates(u, target) \cup {"error"} :
        answers' = answers \cup
          {[copy |-> n, polled |-> polled, state |-> s,
            current |-> IF polled THEN ServedVersion ELSE 0,
            target |-> IF s = "updating" THEN StatusTarget(u, target)
                       ELSE NoVersion]}
  BY <1>2
<1>4. target \in Versions /\ cloud.current \in Versions
  BY DEF UpdateInv, UpdateTypeOK
<1>5. PICK t \in Versions :
        /\ t = IF s = "updating" THEN StatusTarget(u, target) ELSE NoVersion
        /\ t # NoVersion => cloud.current < t
  <2>1. CASE s = "updating"
    BY <1>4, <2>1, UpdatingIsAhead
  <2>2. CASE s # "updating"
    BY <2>2, NoVersionIsOne
  <2> QED BY <2>1, <2>2
<1>6. PICK c \in Versions :
        c = (IF polled THEN ServedVersion ELSE 0) /\ c <= cloud.current
  BY <1>4 DEF ServedVersion, Versions
<1>7. s \in {"idle", "updating", "error"}
  BY DEF StatusStates
<1> DEFINE poll == [copy |-> n, polled |-> polled, state |-> s, current |-> c,
                    target |-> t]
<1>8. answers' = answers \cup {poll}
  BY <1>3, <1>5, <1>6
<1>9. poll \in Reports /\ poll.current = c /\ poll.target = t
  BY <1>7 DEF Reports
<1> HIDE DEF poll
<1>10. UpdateTypeOK'
  BY <1>1, <1>8, <1>9 DEF UpdateInv, UpdateTypeOK
<1>11. ServerInv'
  BY <1>1, ServerFrame DEF UpdateInv
<1>12. ASSUME NEW v \in Versions, reloads[v] # 0 PROVE Reloaded(v)'
  <2>1. Reloaded(v) /\ v \in Nat
    BY <1>12 DEF UpdateInv, PageInv, Versions
  <2>2. t # v
    BY <1>4, <1>5, <2>1 DEF Reloaded, Versions
  <2>3. \A x \in answers' : x.target # v
    BY <1>8, <1>9, <2>1, <2>2 DEF Reloaded
  <2> QED BY <1>1, <2>1, <2>3 DEF Reloaded, Quiet
<1>13. \A x \in answers' : x.current <= cloud'.current
  BY <1>1, <1>6, <1>8, <1>9 DEF UpdateInv, PageInv
<1>14. PageInv'
  BY <1>1, <1>12, <1>13 DEF UpdateInv, PageInv, WaitIsStored,
                             PublishedIsServed, Quiet
<1> QED BY <1>10, <1>11, <1>14 DEF UpdateInv

------------------------------------------------------------------------------
(* An answer is looked at: a reload for a version that the page did not      *)
(* reload for or does not wait for any more, or the end of the wait.         *)
LEMMA ControlReloadInv ==
  ASSUME UpdateInv, NEW x \in answers, x.polled, Reached(x), handoff # target,
         handoff' = target, Reload,
         reloads' = [reloads EXCEPT ![target] = IF @ = 3 THEN @ ELSE @ + 1],
         UNCHANGED <<cloud, updater, requests, switches>>
  PROVE  UpdateInv'
<1>1. /\ target \in Versions /\ target # NoVersion /\ target <= cloud.current
  BY DEF UpdateInv, UpdateTypeOK, PageInv, Reached, Reports, Versions
<1>2. reloads[target] = 0 \/ (reloads[target] = 1 /\ pending # target)
  <2>1. reloads[target] # 0 =>
          pending # target /\ reloads[target] <= 2 /\ reloads[target] # 2
    BY <1>1 DEF UpdateInv, PageInv, Reloaded
  <2>2. reloads[target] \in 0..3
    BY <1>1 DEF UpdateInv, UpdateTypeOK
  <2> QED BY <2>1, <2>2
<1>3. /\ reloads' \in [Versions -> 0..3]
      /\ reloads'[target] = 1 \/ (reloads'[target] = 2 /\ pending # target)
      /\ \A v \in Versions \ {target} : reloads'[v] = reloads[v]
  BY <1>1, <1>2 DEF UpdateInv, UpdateTypeOK
<1>4. ASSUME NEW v \in Versions
      PROVE  /\ reloads'[v] <= 2 /\ (reloads'[v] = 2 => pending # v)
             /\ reloads'[v] # 0 =>
                  v # NoVersion /\ v <= cloud.current /\ (handoff' = v \/ pending # v)
  <2>1. CASE v = target
    BY <1>1, <1>3, <2>1
  <2>2. CASE v # target
    <3>1. reloads'[v] = reloads[v] /\ reloads[v] \in 0..3
      BY <1>3, <2>2 DEF UpdateInv, UpdateTypeOK
    <3>2. reloads[v] # 0 => /\ v # NoVersion /\ v <= cloud.current /\ pending # v
                            /\ reloads[v] <= 2
      BY <2>2 DEF UpdateInv, PageInv, Reloaded
    <3> QED BY <3>1, <3>2
  <2> QED BY <2>1, <2>2
<1>5. PageInv'
  BY <1>4, ReloadKeepsPage
<1>6. UpdateTypeOK'
  BY <1>1, <1>3, ReloadMoves, NoVersionIsOne DEF UpdateInv, UpdateTypeOK, Begin, Phases
<1>7. ServerInv'
  BY ReloadMoves, ServerFrame DEF UpdateInv
<1> QED BY <1>5, <1>6, <1>7 DEF UpdateInv

LEMMA LookAtInv ==
  ASSUME UpdateInv, NEW x \in answers, LookAt(x)
  PROVE  UpdateInv'
<1>0. x \in Reports /\ UNCHANGED <<cloud, updater, requests, switches>>
  BY DEF UpdateInv, UpdateTypeOK, LookAt
<1>1. CASE x.polled /\ Reached(x) /\ handoff # target
  <2>1. /\ handoff' = target /\ Reload
        /\ reloads' = [reloads EXCEPT ![target] = IF @ = 3 THEN @ ELSE @ + 1]
    BY <1>1 DEF LookAt, Handoff
  <2> QED BY <1>0, <1>1, <2>1, ControlReloadInv
<1>2. CASE ~(x.polled /\ Reached(x) /\ handoff # target)
  <2>1. /\ answers' = answers \ {x} /\ updating' = x.target /\ UNCHANGED <<begins, reloads>>
        /\ \/ /\ x.polled /\ Reached(x) /\ handoff = target
              /\ pending' = NoVersion /\ handoff' = NoVersion /\ phase' = "published"
              /\ UNCHANGED <<target, late>>
           \/ /\ pending' = NoVersion /\ phase' = "error"
              /\ UNCHANGED <<target, late, handoff>>
           \/ Shows(phase, x.target) /\ UNCHANGED handoff
    BY <1>2, Zenon DEF LookAt
  <2>2. ServerInv'
    BY <1>0, <2>1, ServerFrame DEF UpdateInv
  <2>3. x.target \in Versions
    BY <1>0 DEF Reports
  <2>4. CASE /\ x.polled /\ Reached(x) /\ handoff = target
             /\ pending' = NoVersion /\ handoff' = NoVersion /\ phase' = "published"
             /\ UNCHANGED <<target, late>>
    <3>1. target # NoVersion /\ target <= cloud.current /\ Quiet
      BY <1>0, <2>4 DEF UpdateInv, UpdateTypeOK, PageInv, Reached, Reports, Versions
    <3>2. UpdateTypeOK'
      BY <1>0, <2>1, <2>3, <2>4, NoVersionIsOne DEF UpdateInv, UpdateTypeOK, Phases
    <3>3. ASSUME NEW v \in Versions, reloads[v] # 0 PROVE Reloaded(v)'
      BY <1>0, <2>1, <2>4, <3>3 DEF UpdateInv, PageInv, Reloaded, Quiet
    <3>4. PageInv'
      BY <1>0, <2>1, <2>4, <3>1, <3>3 DEF UpdateInv, PageInv, WaitIsStored,
         PublishedIsServed, Quiet
    <3> QED BY <2>2, <3>2, <3>4 DEF UpdateInv
  <2>5. CASE /\ pending' = NoVersion /\ phase' = "error"
             /\ UNCHANGED <<target, late, handoff>>
    <3>1. UpdateTypeOK'
      BY <1>0, <2>1, <2>3, <2>5, NoVersionIsOne DEF UpdateInv, UpdateTypeOK, Phases
    <3>2. ASSUME NEW v \in Versions, reloads[v] # 0 PROVE Reloaded(v)'
      BY <1>0, <2>1, <2>5, <3>2 DEF UpdateInv, PageInv, Reloaded, Quiet
    <3>3. PageInv'
      BY <1>0, <2>1, <2>5, <3>2 DEF UpdateInv, PageInv, WaitIsStored,
         PublishedIsServed, Quiet
    <3> QED BY <2>2, <3>1, <3>3 DEF UpdateInv
  <2>6. CASE Shows(phase, x.target) /\ UNCHANGED handoff
    <3>1. /\ late' \in BOOLEAN
          /\ \/ /\ phase = "idle" /\ x.target # NoVersion /\ phase' = "submitting"
                /\ target' = x.target /\ pending' = x.target
             \/ UNCHANGED <<phase, target, pending>>
      BY <2>6, ShowsCases DEF UpdateInv
    <3>2. UpdateTypeOK'
      BY <1>0, <2>1, <2>3, <2>6, <3>1 DEF UpdateInv, UpdateTypeOK, Phases
    <3>3. ASSUME NEW v \in Versions, reloads[v] # 0 PROVE Reloaded(v)'
      BY <1>0, <2>1, <2>6, <3>1, <3>3 DEF UpdateInv, PageInv, Reloaded, Quiet
    <3>4. PageInv'
      BY <1>0, <2>1, <2>6, <3>1, <3>3 DEF UpdateInv, PageInv, WaitIsStored,
         PublishedIsServed, Quiet
    <3> QED BY <2>2, <3>2, <3>4 DEF UpdateInv
  <2> QED BY <2>1, <2>4, <2>5, <2>6
<1> QED BY <1>1, <1>2

LEMMA TimePassesInv == ASSUME UpdateInv, TimePasses PROVE UpdateInv'
<1>1. UNCHANGED <<cloud, updater, requests, begins, phase, target, pending,
                  handoff, answers, updating, reloads, switches>>
  BY DEF TimePasses
<1>2. late' \in BOOLEAN
  BY Zenon DEF TimePasses
<1>3. UpdateTypeOK'
  BY <1>1, <1>2 DEF UpdateInv, UpdateTypeOK
<1>4. ServerInv'
  BY <1>1, ServerFrame DEF UpdateInv
<1>5. PageInv'
  BY <1>1, PageFrame DEF UpdateInv, UpdateTypeOK, Versions
<1> QED BY <1>3, <1>4, <1>5 DEF UpdateInv

LEMMA NextUpdateInv == UpdateInv /\ [UpdateNext]_updateVars => UpdateInv'
<1> SUFFICES ASSUME UpdateInv, [UpdateNext]_updateVars PROVE UpdateInv'
  OBVIOUS
<1>1. CASE ReloadByUser \/ Choose \/ CancelChoice
  BY <1>1, ReloadByUserInv, ChooseInv
<1>2. CASE \E a \in Attempts :
             \/ \E v \in Versions : BeginUpdate(a, v)
             \/ Permissions(a) \/ Submitted(a) \/ CallLost(a)
             \/ ServeRequest(a) \/ RequestEnds(a)
  BY <1>2, BeginUpdateInv, PermissionsInv, SubmittedInv, ServeRequestInv,
     RequestEndsInv
<1>3. CASE Rollout \/ Restart
  BY <1>3, InstanceInv
<1>4. CASE Poll \/ Check
  BY <1>4, AskStatusInv DEF Poll, Check
<1>5. CASE Look
  BY <1>5, LookAtInv DEF Look
<1>6. CASE TimePasses
  BY <1>6, TimePassesInv
<1>7. CASE UNCHANGED updateVars
  <2>1. UNCHANGED <<cloud, updater, requests, begins, phase, target, late, pending,
                    handoff, answers, updating, reloads, switches>>
    BY <1>7 DEF updateVars
  <2>2. UpdateTypeOK'
    BY <2>1 DEF UpdateInv, UpdateTypeOK
  <2>3. ServerInv' /\ PageInv'
    BY <2>1, ServerFrame, PageFrame DEF UpdateInv, UpdateTypeOK, Versions
  <2> QED BY <2>2, <2>3 DEF UpdateInv
<1> QED BY <1>1, <1>2, <1>3, <1>4, <1>5, <1>6, <1>7 DEF UpdateNext

------------------------------------------------------------------------------
LEMMA UpdateInvHolds == UpdateSpec => []UpdateInv
BY InitUpdateInv, NextUpdateInv, PTL DEF UpdateSpec

(* The control, the updater and the deployment keep to their domains, the    *)
(* version that serves was deployed, and an idle updater has no submission.  *)
THEOREM UpdateTypes == UpdateSpec => []UpdateTypeOK
<1>1. UpdateInv => UpdateTypeOK
  BY DEF UpdateInv
<1> QED BY <1>1, UpdateInvHolds, PTL

(* An update that is shown to be at work is in the storage: a new page, in   *)
(* whatever moment it is loaded, waits for it again                          *)
(* (StudioUpdateControl.tsx:459).                                            *)
THEOREM WaitsAreStored == UpdateSpec => []WaitIsStored
<1>1. UpdateInv => WaitIsStored
  BY DEF UpdateInv, PageInv
<1> QED BY <1>1, UpdateInvHolds, PTL

(* Whatever polls are under way and in which order they are looked at, the   *)
(* page does not reload itself over and over: a status calls only versions   *)
(* at work that do not serve yet (studio_self_update.py), the reload is      *)
(* remembered until the version is announced, and an answer that comes after *)
(* that (StudioUpdateControl.tsx:347-355) leaves a page with nothing to wait *)
(* for.                                                                      *)
THEOREM PageReloadsEnd == UpdateSpec => []ReloadsEnd
<1>1. ASSUME UpdateInv PROVE ReloadsEnd
  <2> SUFFICES ASSUME NEW v \in Versions
               PROVE  reloads[v] <= 2 /\ (reloads[v] = 2 => pending # v)
    BY DEF ReloadsEnd
  <2>1. reloads[v] \in 0..3
    BY <1>1 DEF UpdateInv, UpdateTypeOK
  <2>2. reloads[v] # 0 => reloads[v] <= 2 /\ (reloads[v] = 2 => pending # v)
    BY <1>1 DEF UpdateInv, PageInv, Reloaded
  <2> QED BY <2>1, <2>2
<1> QED BY <1>1, UpdateInvHolds, PTL

(* What the control calls published is served and stays so, although the     *)
(* calls of earlier attempts may still change what it waits for: none is at  *)
(* work when the version is announced.                                       *)
THEOREM PublishedVersionsServe == UpdateSpec => []PublishedIsServed
<1>1. UpdateInv => PublishedIsServed
  BY DEF UpdateInv, PageInv
<1> QED BY <1>1, UpdateInvHolds, PTL

=============================================================================
