-------------------------- MODULE HighLevelControl --------------------------
(***************************************************************************)
(* The HighLevelControl node: it turns requests on High_Level_Motion into  *)
(* thruster speeds on Motor_Control and targets for the heading and depth  *)
(* controllers.  Its loop runs the three Manage functions and then handles *)
(* whatever requests have arrived (ros::spinOnce).                         *)
(*                                                                         *)
(* A topic is a FIFO from one publisher to one subscriber.  Yaw and Pivot  *)
(* requests are stored by the node and used nowhere, so they are left out  *)
(* here; so is Center_On_Point, which sets turn and depth targets as a     *)
(* Command for each of them would.                                         *)
(***************************************************************************)
EXTENDS Thrust, Sequences

CONSTANTS
    TargetZero,     \* TARGET_ZERO: "this command has been passed on"
    MotionBound,    \* bound: requests of one publisher on their way
    TopicBound      \* messages on their way on any other topic

ASSUME ControlAssumption ==
    TargetZero \in Int /\ MotionBound \in Nat \ {0} /\ TopicBound \in Nat \ {0}

Publisher == {"Brain", "SubHeading", "SubDepthController"}
Pair      == {"Drive", "Turn", "Depth"}
Axis      == {"Forward", "Turn", "Strafe", "Depth", "Pitch"}
Thrust2   == [rear : Int, front : Int]      \* right and left for "Drive"
Unknown   == "unknown"                      \* any other string
Motion    == [dir : Axis \cup {Unknown}, type : {"Manual", "Command", Unknown},
              value : Int]

VARIABLES
    motion,         \* High_Level_Motion: [Publisher -> Seq(Motion)]
    motorControl,   \* Motor_Control
    targetHeading, targetDepth,     \* Target_Heading, Target_Depth
    step,           \* where the node's loop is
    mode, speed, command,           \* <Axis>Mode, <Axis>Speed, <Axis>Command
    sent            \* currentFwd*, currentTurn*, currentDepth*

controlVars == <<step, mode, speed, command, sent>>

Still == [rear |-> 0, front |-> 0]

ControlInit ==
    /\ motion = [p \in Publisher |-> <<>>] /\ motorControl = <<>>
    /\ targetHeading = <<>> /\ targetDepth = <<>>
    /\ step = "forward"
    /\ mode = [a \in Axis |-> "MANUAL"]
    /\ speed = [a \in Axis |-> 0] /\ command = [a \in Axis |-> 0]
    /\ sent = [p \in Pair |-> Still]

-----------------------------------------------------------------------------
Room(p, n) == Len(motion[p]) + n <= MotionBound

Publish(p, msgs) == motion' = [motion EXCEPT ![p] = @ \o msgs]

\* A full queue drops its oldest message.
Enqueue(q, m) == IF Len(q) < TopicBound THEN Append(q, m) ELSE Append(Tail(q), m)

MotionMsg(d, t, v) == [dir |-> d, type |-> t, value |-> v]

\* What an axis is asked to do, whichever way it was asked.
Percent(a) == IF mode[a] = "AUTOMATIC" THEN MakeSpeed(command[a]) ELSE speed[a]

DriveWanted == LET forward == Sanitize(Percent("Forward"))
               IN [rear |-> forward, front |-> forward]

TurnWanted == [rear  |-> Sanitize(speed["Turn"] - Percent("Strafe")),
               front |-> Sanitize(speed["Turn"] + Percent("Strafe"))]

PitchWanted == IF mode["Pitch"] = "AUTOMATIC" THEN 0 ELSE speed["Pitch"]

DepthWanted == [rear  |-> speed["Depth"] - PitchWanted,
                front |-> speed["Depth"] + PitchWanted]

\* Mutant of Send: what is published is not what is remembered.
SendUntrimmed(pair, wanted, trimmed) ==
    /\ Len(motorControl) < TopicBound
    /\ IF wanted = sent[pair]
       THEN UNCHANGED <<motorControl, sent>>
       ELSE /\ sent' = [sent EXCEPT ![pair] = trimmed]
            /\ motorControl' = Append(motorControl,
                                      [pair |-> pair, thrust |-> wanted])

\* Mutant of Send: a message that finds the queue full is forgotten.
SendOrDrop(pair, wanted, trimmed) ==
    IF wanted = sent[pair]
    THEN UNCHANGED <<motorControl, sent>>
    ELSE /\ sent' = [sent EXCEPT ![pair] = trimmed]
         /\ motorControl' = IF Len(motorControl) < TopicBound
                            THEN Append(motorControl,
                                        [pair |-> pair, thrust |-> trimmed])
                            ELSE motorControl

\* Each pair of thrusters is only told what differs from what it was last told;
\* a message names both thrusters of its pair in its mask.
Send(pair, wanted, trimmed) ==
    /\ Len(motorControl) < TopicBound
    /\ IF wanted = sent[pair]
       THEN UNCHANGED <<motorControl, sent>>
       ELSE /\ sent' = [sent EXCEPT ![pair] = trimmed]
            /\ motorControl' = Append(motorControl,
                                      [pair |-> pair, thrust |-> trimmed])

\* CalcTurn(), CalcDepth(): a new target goes to the controller once.
PassOn(axis, topic) ==
    IF mode[axis] = "AUTOMATIC" /\ command[axis] # TargetZero
    THEN /\ topic' = Enqueue(topic, command[axis])
         /\ command' = [command EXCEPT ![axis] = TargetZero]
    ELSE UNCHANGED <<topic, command>>

ManageForwardThrusters ==
    /\ step = "forward" /\ step' = "turn"
    /\ speed' = [speed EXCEPT !["Forward"] = DriveWanted.rear]
    /\ Send("Drive", DriveWanted, DriveWanted)
    /\ UNCHANGED <<motion, targetHeading, targetDepth, mode, command>>

ManageTurnThrusters ==
    /\ step = "turn" /\ step' = "depth"
    /\ PassOn("Turn", targetHeading)
    /\ speed' = [speed EXCEPT !["Strafe"] = Percent("Strafe")]
    /\ Send("Turn", TurnWanted, Trim(TurnWanted))
    /\ UNCHANGED <<motion, targetDepth, mode>>

ManageDepthThrusters ==
    /\ step = "depth" /\ step' = "spin"
    /\ PassOn("Depth", targetDepth)
    /\ speed' = [speed EXCEPT !["Pitch"] = PitchWanted]
    /\ Send("Depth", DepthWanted, DepthWanted)
    /\ UNCHANGED <<motion, targetHeading, mode>>

\* ros::spinOnce(): requests are handled one by one; a "Command" is kept for
\* the loop, a "Manual" is converted at once.
TakeMotion(p) ==
    /\ step = "spin" /\ motion[p] # <<>>
    /\ motion' = [motion EXCEPT ![p] = Tail(@)]
    /\ UNCHANGED <<motorControl, targetHeading, targetDepth, step, sent>>

CommandRequest(p) ==
    LET m == Head(motion[p])
    IN /\ TakeMotion(p)
       /\ m.dir \in Axis /\ m.type = "Command"
       /\ mode' = [mode EXCEPT ![m.dir] = "AUTOMATIC"]
       /\ command' = [command EXCEPT ![m.dir] = m.value]
       /\ UNCHANGED speed

ManualRequest(p) ==
    LET m == Head(motion[p])
    IN /\ TakeMotion(p)
       /\ m.dir \in Axis /\ m.type = "Manual"
       /\ mode' = [mode EXCEPT ![m.dir] = "MANUAL"]
       /\ speed' = [speed EXCEPT ![m.dir] = MakeSpeed(m.value)]
       /\ UNCHANGED command

UnknownRequest(p) ==
    /\ TakeMotion(p)
    /\ ~(Head(motion[p]).dir \in Axis
           /\ Head(motion[p]).type \in {"Command", "Manual"})
    /\ UNCHANGED <<mode, speed, command>>

SpinEnds ==
    /\ step = "spin" /\ step' = "forward"
    /\ UNCHANGED <<motion, motorControl, targetHeading, targetDepth, mode, speed,
                   command, sent>>

Manage == ManageForwardThrusters \/ ManageTurnThrusters \/ ManageDepthThrusters

HandleMotion(p) == CommandRequest(p) \/ ManualRequest(p) \/ UnknownRequest(p)

ControlStep == Manage \/ SpinEnds \/ (\E p \in Publisher : HandleMotion(p))
=============================================================================
