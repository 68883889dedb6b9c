-------------------------------- MODULE Nodes -------------------------------
(***************************************************************************)
(* The nodes that carry out a task once Module_Enable names them, and the  *)
(* state machine that sends those messages.  QualifyTask is driven by it;  *)
(* PathTask and BuoysTask are enabled and disabled at any time, as any     *)
(* publisher may.  No two tasks share a thing but the thrusters, so that   *)
(* one task is looked at a time.                                           *)
(***************************************************************************)
EXTENDS PathTask, QualifyTask, BuoysTask, StateMachine

VARIABLE task       \* the one looked at

nodesVars == <<task, pathVars, qualifyVars, buoysVars, stateVars>>

NodesInit ==
    /\ task \in {"PathTask", "QualifyTask", "BuoysTask"}
    /\ PathInit /\ QualifyInit /\ BuoysInit /\ StateInit

\* moduleEnableCallback takes the next message: it is for another module, or
\* starts or stops the task, or is refused ("I'm already ...").
QualifyHears ==
    /\ Delivered
    /\ LET m == Head(moduleEnable)
           mine == m.module = "QualifyTask"
       IN  \/ mine /\ m.state /\ \E w \in Worker : QualifyEnable(w)
           \/ mine /\ ~m.state /\ QualifyDisable
           \/ (mine => m.state = isEnabled) /\ UNCHANGED qualifyVars
    /\ UNCHANGED <<currentClasses, list, loops, doing, changes, handled, overlapped>>

Qualifying ==
    \/ StateNext /\ UNCHANGED qualifyVars
    \/ QualifyHears
    \/ (\E w \in Worker : QualifyStep(w)) /\ UNCHANGED stateVars

NodesNext ==
    /\ UNCHANGED task
    /\ \/ /\ task = "PathTask" /\ PathNext
          /\ UNCHANGED <<qualifyVars, buoysVars, stateVars>>
       \/ /\ task = "BuoysTask" /\ BuoysNext
          /\ UNCHANGED <<pathVars, qualifyVars, stateVars>>
       \/ /\ task = "QualifyTask" /\ Qualifying
          /\ UNCHANGED <<pathVars, buoysVars>>

NodesSpec ==
    /\ NodesInit /\ [][NodesNext]_nodesVars
    /\ PathFairness /\ QualifyFairness /\ BuoysFairness

NodesTypeOK == PathTypeOK /\ QualifyTypeOK /\ BuoysTypeOK /\ StateTypeOK

-----------------------------------------------------------------------------
\* Once its messages have arrived, QualifyTask runs only while the machine is in
\* a state that activates it, whatever the kill switch, ChangeState messages and
\* a thread that is slow to stop have been doing.  (Two changes at once, or a
\* message that arrives while main() makes its first, are excluded.)
QualifyHasItsState ==
    /\ ~overlapped /\ moduleEnable = <<>>
    /\ \A t \in Runner : ~Changing(t)
    => (isEnabled => \E c \in currentClasses \cap Class : "QualifyTask" \in Activates[c])
=============================================================================
