----------------------------- MODULE SubHeading -----------------------------
(***************************************************************************)
(* The SubHeading node.  It listens to the same High_Level_Motion requests *)
(* as HighLevelControl, and while the sub is told to move forward it       *)
(* steers: every attitude sample makes it publish a turn speed and, as a   *)
(* new target, the remaining error, which comes back on Target_Heading     *)
(* by way of HighLevelControl.  Angles are whole degrees, HalfTurn of them *)
(* making 180; MODE stays ON, as nothing publishes on Module_Control for   *)
(* this node.                                                              *)
(***************************************************************************)
EXTENDS HighLevelControl

CONSTANTS
    HalfTurn,       \* 180
    Gain,           \* KP, in percent units per degree
    MaxTurn,        \* MAX, in percent units
    Creep           \* the largest forward percent that counts as standing still

ASSUME HeadingAssumption ==
    HalfTurn \in Nat \ {0} /\ Gain \in Nat /\ MaxTurn \in Nat /\ Creep \in Nat

VARIABLES
    heard,          \* High_Level_Motion from Brain, as far as not yet handled
    targetYaw, currYaw, isMoving

headingVars == <<heard, targetYaw, currYaw, isMoving>>

HeadingInit == heard = <<>> /\ targetYaw = 0 /\ currYaw = 0 /\ isMoving = FALSE

-----------------------------------------------------------------------------
\* Mutant of Fmod: the angle is not reduced.
FmodFull(x) == x

\* fmod(x, 180): the remainder takes the sign of x.
Fmod(x) == IF x < 0 THEN 0 - ((0 - x) % HalfTurn) ELSE x % HalfTurn

Saturate(v) == IF v > MaxTurn THEN MaxTurn
               ELSE IF v < 0 - MaxTurn THEN 0 - MaxTurn ELSE v

\* A target is an offset from the heading at the moment it arrives.
TargetHeadingCallback ==
    /\ targetHeading # <<>> /\ targetHeading' = Tail(targetHeading)
    /\ targetYaw' = Fmod(currYaw + Head(targetHeading))
    /\ UNCHANGED <<motion, motorControl, targetDepth, controlVars, heard,
                   currYaw, isMoving>>

HearMotion ==
    /\ heard # <<>> /\ heard' = Tail(heard)
    /\ UNCHANGED <<motorControl, targetHeading, targetDepth, controlVars,
                   targetYaw, currYaw>>

\* mReadForwardStatus(): only "Forward" "Command" matters.
StartMoving ==
    /\ HearMotion
    /\ Head(heard).dir = "Forward" /\ Head(heard).type = "Command"
    /\ Abs(Head(heard).value) > Creep
    /\ isMoving' = TRUE
    /\ UNCHANGED motion

\* Mutant of StopMoving: the turn in progress is not ended.
StopSteering ==
    /\ HearMotion
    /\ Head(heard).dir = "Forward" /\ Head(heard).type = "Command"
    /\ Abs(Head(heard).value) <= Creep
    /\ isMoving' = FALSE
    /\ UNCHANGED motion

StopMoving ==
    /\ HearMotion
    /\ Head(heard).dir = "Forward" /\ Head(heard).type = "Command"
    /\ Abs(Head(heard).value) <= Creep
    /\ Room("SubHeading", 1)
    /\ isMoving' = FALSE
    /\ Publish("SubHeading", <<MotionMsg("Turn", "Manual", 0)>>)

IgnoreMotion ==
    /\ HearMotion
    /\ ~(Head(heard).dir = "Forward" /\ Head(heard).type = "Command")
    /\ UNCHANGED <<motion, isMoving>>

\* mHeadingCallback(): the speed against the error, and the error as a target.
Steering(error) ==
    <<MotionMsg("Turn", "Manual", 0 - Saturate(Gain * error)),
      MotionMsg("Turn", "Command", 0 - error)>>

HeadingCallback(yaw) ==
    /\ currYaw' = yaw
    /\ IF isMoving
       THEN Room("SubHeading", 2) /\ Publish("SubHeading", Steering(yaw - targetYaw))
       ELSE UNCHANGED motion
    /\ UNCHANGED <<motorControl, targetHeading, targetDepth, controlVars, heard,
                   targetYaw, isMoving>>

ReadForwardStatus == StartMoving \/ StopMoving \/ IgnoreMotion
=============================================================================
