------------------------------ MODULE StudioMC -------------------------------
(* The components of the Studio's user interface, side by side for TLC: they *)
(* share no state, so one of them (page) is at work in each behaviour, and   *)
(* the others keep their initial state.                                      *)
EXTENDS DevelopmentTask, ChatStreams, AgentCreation, StudioUpdate

VARIABLE page

studioVars == <<page, taskVars, chatVars, creationVars, updateVars>>

Pages == {"task", "chat", "agent", "update"}

StudioInit ==
  page \in Pages /\ TaskInit /\ ChatInit /\ CreationInit /\ UpdateInit

StudioNext ==
  /\ UNCHANGED page
  /\ \/ /\ page = "task" /\ TaskNext
        /\ UNCHANGED <<chatVars, creationVars, updateVars>>
     \/ /\ page = "chat" /\ ChatNext
        /\ UNCHANGED <<taskVars, creationVars, updateVars>>
     \/ /\ page = "agent" /\ CreationNext
        /\ UNCHANGED <<taskVars, chatVars, updateVars>>
     \/ /\ page = "update" /\ UpdateNext
        /\ UNCHANGED <<taskVars, chatVars, creationVars>>

(* A component that is not at work stays in its initial state, where none of *)
(* its fair steps changes anything, so each brings its own fairness.         *)
StudioSpec ==
  /\ StudioInit /\ [][StudioNext]_studioVars
  /\ TaskFairness /\ ChatFairness /\ CreationFairness /\ UpdateFairness

=============================================================================
