------------------------------- MODULE MCTurns -------------------------------
(***************************************************************************)
(* What a turn of the conversation goes through besides its stream: schedules *)
(* that start it, policies of approvals, queued messages, single-use context  *)
(* and long tool calls.  They share no state, so that interleaving them would *)
(* only multiply their states: a behaviour takes the steps of one of them,    *)
(* chosen at its start.                                                       *)
(***************************************************************************)
EXTENDS Schedules, InteractionPolicy, QueuedMessages, ContextClaims, ToolWaits

VARIABLE focus

turnVars == <<scheduleVars, policyVars, queueVars, contextVars, toolVars, focus>>

Init ==
    /\ focus \in {"schedule", "policy", "queue", "context", "tools"}
    /\ ScheduleInit /\ PolicyInit /\ QueueInit /\ ContextInit /\ ToolInit
    \* What a component that takes no step starts with does not matter.
    /\ focus # "schedule" => schedule.freq = "once"
    /\ focus # "policy" => asked = [r \in Stager |-> NoContent]

Next ==
    \/ /\ focus = "schedule"
       /\ ScheduleNext
       /\ UNCHANGED <<policyVars, queueVars, contextVars, toolVars, focus>>
    \/ /\ focus = "policy"
       /\ PolicyNext
       /\ UNCHANGED <<scheduleVars, queueVars, contextVars, toolVars, focus>>
    \/ /\ focus = "queue"
       /\ QueueNext
       /\ UNCHANGED <<scheduleVars, policyVars, contextVars, toolVars, focus>>
    \/ /\ focus = "context"
       /\ ContextNext
       /\ UNCHANGED <<scheduleVars, policyVars, queueVars, toolVars, focus>>
    \/ /\ focus = "tools"
       /\ ToolNext
       /\ UNCHANGED <<scheduleVars, policyVars, queueVars, contextVars, focus>>

Spec == Init /\ [][Next]_turnVars

\* Each component's state has its type.
TurnTypeOK == ScheduleTypeOK /\ PolicyTypeOK /\ QueueTypeOK /\ ContextTypeOK /\ ToolTypeOK
=============================================================================
