------------------------------ MODULE MCNodes -------------------------------
(***************************************************************************)
(* Nodes for TLC.  The classes are files of SubStateMachine/class, with    *)
(* what those inherit from; classes without triggers, timers or modules    *)
(* (NonComp, Safety, StopAllMotors) are left out of the chains.            *)
(***************************************************************************)
EXTENDS Nodes

MCSightings == {{}, {"Forward", "Turn"}}

MCTopic == {"Motor_State", "ChangeState"}
MCMessages == [Motor_State |-> {"0", "1"}, ChangeState |-> {"StartMoving", "nowhere"}]

MCClass == {"Wait_Button", "CompRun", "StateChanger", "Qualify", "StartMoving", "GateTask"}

MCInherits == [c \in MCClass |->
    CASE c = "Wait_Button" -> {"StateChanger"}
      [] c = "CompRun" -> {"StateChanger"}
      [] c \in {"Qualify", "StartMoving"} -> {"CompRun"}
      [] OTHER -> {}]

MCActivates == [c \in MCClass |->
    CASE c = "Qualify" -> {"QualifyTask"}
      [] c = "GateTask" -> {"GateTask"}
      [] OTHER -> {}]

On(what, goto) == <<[on |-> what, goto |-> goto]>>

MCBrings == [c \in MCClass |-> [t \in MCTopic \cup {"main"} |->
    CASE c = "Wait_Button" /\ t = "Motor_State" -> On("1", "Qualify")
      [] c = "CompRun" /\ t = "Motor_State" -> On("0", "Wait_Button")
      [] c = "StateChanger" /\ t = "ChangeState" -> On("?MESSAGE", "?MESSAGE")
      [] c = "StartMoving" /\ t = "main" -> On("due", "GateTask")
      [] OTHER -> <<>>]]
=============================================================================
