------------------------------- MODULE Motion -------------------------------
(***************************************************************************)
(* How a request of the Brain becomes thrust: HighLevelControl, SubHeading *)
(* and SubDepthController around the topic High_Level_Motion, and the      *)
(* motorMessage callback of SubMotorController behind Motor_Control.       *)
(* QualifyTask does not ask HighLevelControl: it publishes on Motor_Control *)
(* and Target_Depth itself.                                                *)
(***************************************************************************)
EXTENDS SubHeading, SubDepthController

CONSTANTS
    Requests,       \* what Brain may ask for: sequences of requests
    Yaws, Depths,   \* the attitude and depth samples
    DirectThrust,   \* SPEED_LEFT and SPEED_RIGHT of QualifyTask
    DirectDepth,    \* TARGET_DEPTH of QualifyTask
    Faults          \* "direct": QualifyTask runs; "respawn": the motor node dies

ASSUME MotionAssumption ==
    /\ Requests \subseteq Seq(Motion)
    /\ Yaws \subseteq Int /\ Depths \subseteq Int
    /\ DirectThrust \in Thrust2 /\ DirectDepth \in Int
    /\ Faults \subseteq {"direct", "respawn"}
    \* utils.py turns by "Command" only
    /\ \A r \in Requests : \A i \in DOMAIN r :
           ~(r[i].dir = "Turn" /\ r[i].type = "Manual")

VARIABLE commanded      \* cur<Motor>Speed in motorMessage(): [Pair -> Thrust2]

vars == <<motion, motorControl, targetHeading, targetDepth, controlVars,
          headingVars, depthTarget, commanded>>

MotorMsg == [pair : Pair, thrust : Thrust2]

TypeOK ==
    /\ motion \in [Publisher -> Seq(Motion)] /\ heard \in Seq(Motion)
    /\ motorControl \in Seq(MotorMsg)
    /\ targetHeading \in Seq(Int) /\ targetDepth \in Seq(Int)
    /\ step \in {"forward", "turn", "depth", "spin"}
    /\ mode \in [Axis -> {"MANUAL", "AUTOMATIC"}]
    /\ speed \in [Axis -> Int] /\ command \in [Axis -> Int]
    /\ sent \in [Pair -> Thrust2] /\ commanded \in [Pair -> Thrust2]
    /\ targetYaw \in 1 - HalfTurn..HalfTurn - 1
    /\ currYaw \in Int /\ isMoving \in BOOLEAN /\ depthTarget \in Int

Init == ControlInit /\ HeadingInit /\ DepthInit /\ commanded = sent

-----------------------------------------------------------------------------
\* What the functions of Brain's utils.py and its Idle state publish.
Forward(v) == <<MotionMsg("Turn", "Command", 0), MotionMsg("Forward", "Command", v)>>
Turn(d)    == <<MotionMsg("Turn", "Command", d)>>
Strafe(v)  == <<MotionMsg("Strafe", "Command", v)>>
Dive(d)    == <<MotionMsg("Depth", "Command", d)>>
Idle       == Turn(0) \o Dive(0) \o Forward(0)

BrainAsks(request) ==
    /\ Room("Brain", Len(request)) /\ Len(heard) + Len(request) <= MotionBound
    /\ Publish("Brain", request) /\ heard' = heard \o request
    /\ UNCHANGED <<motorControl, targetHeading, targetDepth, controlVars,
                   targetYaw, currYaw, isMoving, depthTarget, commanded>>

\* diveAndDrive() of QualifyTask, its two publications.
QualifyDives ==
    /\ "direct" \in Faults
    /\ targetDepth' = Enqueue(targetDepth, DirectDepth)
    /\ UNCHANGED <<motion, motorControl, targetHeading, controlVars, headingVars,
                   depthTarget, commanded>>

QualifyDrives ==
    /\ "direct" \in Faults /\ Len(motorControl) < TopicBound
    /\ motorControl' = Append(motorControl,
                              [pair |-> "Drive", thrust |-> DirectThrust])
    /\ UNCHANGED <<motion, targetHeading, targetDepth, controlVars, headingVars,
                   depthTarget, commanded>>

\* motorMessage(): the masked speeds replace those of their pair, and the pair's
\* controller is told (SetMotorSpeed of MotorLink).
MotorMessage ==
    /\ motorControl # <<>> /\ motorControl' = Tail(motorControl)
    /\ commanded' = [commanded EXCEPT ![Head(motorControl).pair]
                                        = Head(motorControl).thrust]
    /\ UNCHANGED <<motion, targetHeading, targetDepth, controlVars, headingVars,
                   depthTarget>>

\* The motor node dies and is respawned: its speeds start from 0 again, and what
\* was on its way to it is lost.
MotorRespawn ==
    /\ "respawn" \in Faults
    /\ motorControl' = <<>> /\ commanded' = [p \in Pair |-> Still]
    /\ UNCHANGED <<motion, targetHeading, targetDepth, controlVars, headingVars,
                   depthTarget>>

Control == ControlStep /\ UNCHANGED <<headingVars, depthTarget, commanded>>

Steer == /\ TargetHeadingCallback \/ ReadForwardStatus
         /\ UNCHANGED <<depthTarget, commanded>>

Sample == \/ /\ \E yaw \in Yaws : HeadingCallback(yaw)
             /\ UNCHANGED <<depthTarget, commanded>>
          \/ /\ \E depth \in Depths : CurrentDepthCallback(depth)
             /\ UNCHANGED <<headingVars, commanded>>

Sink == TargetDepthCallback /\ UNCHANGED <<headingVars, commanded>>

Next == \/ Control \/ Steer \/ Sample \/ Sink \/ MotorMessage
        \/ (\E request \in Requests : BrainAsks(request))
        \/ QualifyDives \/ QualifyDrives \/ MotorRespawn

Spec == Init /\ [][Next]_vars

-----------------------------------------------------------------------------
(* Safety                                                                  *)

\* The last word on its way decides: the message that is in force once the
\* queue has drained, or what is in force already.
TurnManual(m) == m.dir = "Turn" /\ m.type = "Manual"

TurnEndsAt(v) ==
    LET q == motion["SubHeading"]
    IN \/ \E i \in DOMAIN q :
            /\ TurnManual(q[i]) /\ q[i].value = v
            /\ \A j \in DOMAIN q : j > i => ~TurnManual(q[j])
       \/ speed["Turn"] = MakeSpeed(v) /\ \A i \in DOMAIN q : ~TurnManual(q[i])

PairEndsAt(pair, thrust) ==
    LET q == motorControl
    IN \/ \E i \in DOMAIN q :
            /\ q[i].pair = pair /\ q[i].thrust = thrust
            /\ \A j \in DOMAIN q : j > i => q[j].pair # pair
       \/ commanded[pair] = thrust /\ \A i \in DOMAIN q : q[i].pair # pair

\* A sub told to stop ends up turning nowhere: whatever steering is still on
\* its way to HighLevelControl, the zero of mReadForwardStatus comes after it.
StoppedIsStraight == ~isMoving => TurnEndsAt(0)

\* currentFwd*, currentTurn* and currentDepth* are what the motor node was last
\* told, or is about to be: the test that saves messages compares the right
\* thing.  Only true as long as nobody else publishes on Motor_Control.
CacheIsLastSent == \A pair \in Pair : PairEndsAt(pair, sent[pair])

\* Whoever else publishes, and whenever the motor node dies: the pairs that
\* HighLevelControl alone drives end up with what it remembers, or at rest.  A
\* death may swallow a wish, but it leaves no older speed behind.
DeathOnlyStops == \A pair \in Pair \ {"Drive"} :
                      PairEndsAt(pair, sent[pair]) \/ PairEndsAt(pair, Still)

-----------------------------------------------------------------------------
(* Liveness.  The loop of HighLevelControl runs every 10 ms, and spinOnce() *)
(* only handles what had arrived when it was called; the motor node spins.  *)

Rest == UNCHANGED <<headingVars, depthTarget, commanded>>

Fairness == /\ WF_vars(Manage /\ Rest)
            /\ WF_vars(SpinEnds /\ Rest)
            /\ WF_vars(MotorMessage)
            /\ WF_vars(Sink)

FairSpec == Spec /\ Fairness

Wanted == [p \in Pair |-> IF p = "Drive" THEN DriveWanted
                          ELSE IF p = "Turn" THEN TurnWanted ELSE DepthWanted]

\* What HighLevelControl wants of a pair of thrusters reaches them, if it wants
\* it for long enough, although it is only sent when it changes.
ThrustLands ==
    \A p \in Pair :
        \/ []<>(commanded[p] \in {Wanted[p], Trim(Wanted[p])})
        \/ []<><<Wanted'[p] # Wanted[p]>>_vars

\* A depth command that HighLevelControl has accepted reaches the depth
\* controller, unless a newer one takes its place.
DepthCommandArrives ==
    \A d \in {r[1].value : r \in Requests} :
        command["Depth"] = d ~> (depthTarget = d
                                   \/ command["Depth"] \notin {d, TargetZero})

\* The sub is steered to its target heading, whether it moves or not.
HeadingHeld ==
    targetYaw # currYaw ~> (speed["Turn"] # 0 \/ targetYaw = currYaw)

SteerFairly == /\ WF_vars(Steer) /\ WF_vars(Sample)
               /\ \A p \in Publisher : SF_vars(HandleMotion(p) /\ Rest)

SteerSpec == FairSpec /\ SteerFairly
=============================================================================
