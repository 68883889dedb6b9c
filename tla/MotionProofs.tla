---------------------------- MODULE MotionProofs ----------------------------
(* Theorems about the motion nodes, for any speeds, requests and bounds. *)
EXTENDS Motion, TLAPS

\* Division keeps to the integers, whatever it rounds.
LEMMA QuotientInt ==
    ASSUME NEW a \in Int, NEW b \in Nat \ {0}
    PROVE  Quotient(a, b) \in Int
  BY DEF Quotient

\* makeSpeed() yields an integer speed, and nothing for nothing.
LEMMA MakeSpeedInt ==
    /\ MakeSpeed(0) = 0
    /\ \A v \in Int : MakeSpeed(v) \in Int
<1>1. MakeSpeed(0) = 0
  BY DEF MakeSpeed
<1>2. ASSUME NEW v \in Int PROVE MakeSpeed(v) \in Int
  <2> DEFINE p == Quotient(v * (MaxSpeed - MinSpeed), Full)
  <2>1. v * (MaxSpeed - MinSpeed) \in Int
    BY ThrustAssumption
  <2>2. p \in Int
    BY <2>1, QuotientInt, ThrustAssumption
  <2> HIDE DEF p
  <2>3. MakeSpeed(v) = IF v = 0 THEN 0 ELSE IF p > 0 THEN p + MinSpeed ELSE p - MinSpeed
    BY DEF MakeSpeed, p
  <2> QED BY <2>2, <2>3, ThrustAssumption
<1> QED BY <1>1, <1>2

\* sanitize() yields an integer speed.
LEMMA SanitizeInt == \A v \in Int : Sanitize(v) \in Int
  BY ThrustAssumption DEF Sanitize, Abs

\* The trimmed thrusts of a pair are thrusts again.
LEMMA TrimThrust == \A t \in Thrust2 : Trim(t) \in Thrust2
<1> SUFFICES ASSUME NEW t \in Thrust2 PROVE Trim(t) \in Thrust2
  OBVIOUS
<1>1. t.rear \in Int /\ t.front \in Int /\ t = [rear |-> t.rear, front |-> t.front]
  BY DEF Thrust2
<1>2. t.front * FrontTrim \in Int /\ t.rear * RearTrim \in Int
  BY <1>1, ThrustAssumption
<1>3. Quotient(t.front * FrontTrim, TrimUnit) \in Int
      /\ Quotient(t.rear * RearTrim, TrimUnit) \in Int
  BY <1>2, QuotientInt, ThrustAssumption
<1> QED BY <1>1, <1>3 DEF Trim, Thrust2

\* fmod(x, 180) lies between the two half turns.
LEMMA FmodRange == \A x \in Int : Fmod(x) \in 1 - HalfTurn..HalfTurn - 1
  BY HeadingAssumption DEF Fmod

-----------------------------------------------------------------------------
(* Type correctness                                                        *)

\* What the nodes publish are messages.
LEMMA MessageType ==
    ASSUME NEW v \in Int
    PROVE  \A d \in Axis : \A t \in {"Manual", "Command"} :
               /\ MotionMsg(d, t, v) \in Motion
               /\ <<MotionMsg(d, t, v)>> \in Seq(Motion)
<1> SUFFICES ASSUME NEW d \in Axis, NEW t \in {"Manual", "Command"}
             PROVE  /\ MotionMsg(d, t, v) \in Motion
                    /\ <<MotionMsg(d, t, v)>> \in Seq(Motion)
  OBVIOUS
<1>1. MotionMsg(d, t, v) \in Motion
  BY DEF MotionMsg, Motion
<1> QED BY <1>1

\* Publishing keeps every queue of requests a queue of requests.
LEMMA PublishType ==
    ASSUME TypeOK, NEW p \in Publisher, NEW msgs \in Seq(Motion), Publish(p, msgs)
    PROVE  motion' \in [Publisher -> Seq(Motion)]
<1>1. motion[p] \o msgs \in Seq(Motion)
  BY DEF TypeOK
<1> QED BY <1>1 DEF TypeOK, Publish

\* What HighLevelControl wants of its thrusters is a thrust.
LEMMA WantedType ==
    ASSUME TypeOK
    PROVE  /\ \A a \in Axis : Percent(a) \in Int
           /\ DriveWanted \in Thrust2 /\ TurnWanted \in Thrust2
           /\ DepthWanted \in Thrust2 /\ PitchWanted \in Int
<1>1. \A a \in Axis : speed[a] \in Int /\ command[a] \in Int
  BY DEF TypeOK
<1>2. ASSUME NEW a \in Axis PROVE Percent(a) \in Int
  BY <1>1, MakeSpeedInt DEF Percent
<1>3. {"Forward", "Turn", "Strafe", "Depth", "Pitch"} \subseteq Axis
  BY DEF Axis
<1>4. DriveWanted \in Thrust2
  BY <1>2, <1>3, SanitizeInt DEF DriveWanted, Thrust2
<1>5. TurnWanted \in Thrust2
  <2>1. speed["Turn"] \in Int /\ Percent("Strafe") \in Int
    BY <1>1, <1>2, <1>3
  <2>2. speed["Turn"] - Percent("Strafe") \in Int
        /\ speed["Turn"] + Percent("Strafe") \in Int
    BY <2>1
  <2> QED BY <2>2, SanitizeInt DEF TurnWanted, Thrust2
<1>6. PitchWanted \in Int
  BY <1>1, <1>3 DEF PitchWanted
<1>7. DepthWanted \in Thrust2
  BY <1>1, <1>3, <1>6 DEF DepthWanted, Thrust2
<1> QED BY <1>2, <1>4, <1>5, <1>6, <1>7

\* A message to the motor node is well formed, and so is the memory of it.
LEMMA SendType ==
    ASSUME TypeOK, NEW pair \in Pair, NEW wanted, NEW trimmed \in Thrust2,
           Send(pair, wanted, trimmed)
    PROVE  motorControl' \in Seq(MotorMsg) /\ sent' \in [Pair -> Thrust2]
<1>1. [pair |-> pair, thrust |-> trimmed] \in MotorMsg
  BY DEF MotorMsg
<1>2. motorControl \in Seq(MotorMsg) /\ sent \in [Pair -> Thrust2]
  BY DEF TypeOK
<1>3. CASE wanted = sent[pair]
  BY <1>2, <1>3 DEF Send
<1>4. CASE wanted # sent[pair]
  <2>1. /\ sent' = [sent EXCEPT ![pair] = trimmed]
        /\ motorControl' = Append(motorControl, [pair |-> pair, thrust |-> trimmed])
    BY <1>4 DEF Send
  <2>2. motorControl' \in Seq(MotorMsg)
    BY <1>1, <1>2, <2>1
  <2> QED BY <1>2, <2>1, <2>2
<1> QED BY <1>3, <1>4

\* Targets stay queues of integers.
LEMMA EnqueueInt ==
    ASSUME NEW q \in Seq(Int), NEW v \in Int
    PROVE  Enqueue(q, v) \in Seq(Int)
<1>1. CASE Len(q) < TopicBound
  BY <1>1 DEF Enqueue
<1>2. CASE ~(Len(q) < TopicBound)
  <2>1. Len(q) > 0 /\ q # <<>>
    BY <1>2, ControlAssumption
  <2>2. Tail(q) \in Seq(Int)
    BY <2>1
  <2> QED BY <1>2, <2>2 DEF Enqueue
<1> QED BY <1>1, <1>2

\* The loop of HighLevelControl keeps the types.
LEMMA ControlType == ASSUME TypeOK, ControlStep, Rest PROVE TypeOK'
<1> USE DEF Rest
<1>a. headingVars' = headingVars /\ depthTarget' = depthTarget
      /\ commanded' = commanded
  OBVIOUS
<1>b. /\ heard' \in Seq(Motion) /\ targetYaw' \in 1 - HalfTurn..HalfTurn - 1
      /\ currYaw' \in Int /\ isMoving' \in BOOLEAN /\ depthTarget' \in Int
      /\ commanded' \in [Pair -> Thrust2]
  BY <1>a DEF TypeOK, headingVars
<1>c. {"Forward", "Turn", "Strafe", "Depth", "Pitch"} \subseteq Axis
      /\ {"Drive", "Turn", "Depth"} \subseteq Pair
  BY DEF Axis, Pair
<1>1. CASE ManageForwardThrusters
  <2>1. DriveWanted \in Thrust2 /\ DriveWanted.rear \in Int
    BY WantedType DEF Thrust2
  <2>2. motorControl' \in Seq(MotorMsg) /\ sent' \in [Pair -> Thrust2]
    BY <1>1, <1>c, <2>1, SendType DEF ManageForwardThrusters
  <2>3. /\ step' = "turn" /\ speed' \in [Axis -> Int]
        /\ motion' = motion /\ targetHeading' = targetHeading
        /\ targetDepth' = targetDepth /\ mode' = mode /\ command' = command
    BY <1>1, <2>1 DEF ManageForwardThrusters, TypeOK
  <2> QED BY <1>b, <2>2, <2>3 DEF TypeOK
<1>2. CASE ManageTurnThrusters
  <2>1. TurnWanted \in Thrust2 /\ Trim(TurnWanted) \in Thrust2
        /\ Percent("Strafe") \in Int
    BY <1>c, WantedType, TrimThrust
  <2>2. motorControl' \in Seq(MotorMsg) /\ sent' \in [Pair -> Thrust2]
    BY <1>2, <1>c, <2>1, SendType DEF ManageTurnThrusters
  <2>3. targetHeading' \in Seq(Int) /\ command' \in [Axis -> Int]
    <3>1. PassOn("Turn", targetHeading)
      BY <1>2 DEF ManageTurnThrusters
    <3>2. Enqueue(targetHeading, command["Turn"]) \in Seq(Int)
      BY <1>c, EnqueueInt DEF TypeOK
    <3> QED BY <3>1, <3>2, ControlAssumption DEF PassOn, TypeOK
  <2>4. /\ step' = "depth" /\ speed' \in [Axis -> Int]
        /\ motion' = motion /\ targetDepth' = targetDepth /\ mode' = mode
    BY <1>2, <2>1 DEF ManageTurnThrusters, TypeOK
  <2> QED BY <1>b, <2>2, <2>3, <2>4 DEF TypeOK
<1>3. CASE ManageDepthThrusters
  <2>1. DepthWanted \in Thrust2 /\ PitchWanted \in Int
    BY WantedType
  <2>2. motorControl' \in Seq(MotorMsg) /\ sent' \in [Pair -> Thrust2]
    BY <1>3, <1>c, <2>1, SendType DEF ManageDepthThrusters
  <2>3. targetDepth' \in Seq(Int) /\ command' \in [Axis -> Int]
    <3>1. PassOn("Depth", targetDepth)
      BY <1>3 DEF ManageDepthThrusters
    <3>2. Enqueue(targetDepth, command["Depth"]) \in Seq(Int)
      BY <1>c, EnqueueInt DEF TypeOK
    <3> QED BY <3>1, <3>2, ControlAssumption DEF PassOn, TypeOK
  <2>4. /\ step' = "spin" /\ speed' \in [Axis -> Int]
        /\ motion' = motion /\ targetHeading' = targetHeading /\ mode' = mode
    BY <1>3, <2>1 DEF ManageDepthThrusters, TypeOK
  <2> QED BY <1>b, <2>2, <2>3, <2>4 DEF TypeOK
<1>4. CASE SpinEnds
  BY <1>4, <1>b DEF SpinEnds, TypeOK
<1>5. ASSUME NEW p \in Publisher, HandleMotion(p) PROVE TypeOK'
  <2>1. TakeMotion(p)
    BY <1>5 DEF HandleMotion, CommandRequest, ManualRequest, UnknownRequest
  <2>2. Head(motion[p]) \in Motion /\ Tail(motion[p]) \in Seq(Motion)
    BY <2>1 DEF TakeMotion, TypeOK
  <2>3. /\ motion' \in [Publisher -> Seq(Motion)]
        /\ motorControl' = motorControl /\ targetHeading' = targetHeading
        /\ targetDepth' = targetDepth /\ step' = step /\ sent' = sent
    BY <2>1, <2>2 DEF TakeMotion, TypeOK
  <2>4. /\ mode' \in [Axis -> {"MANUAL", "AUTOMATIC"}]
        /\ speed' \in [Axis -> Int] /\ command' \in [Axis -> Int]
    <3>1. Head(motion[p]).value \in Int /\ MakeSpeed(Head(motion[p]).value) \in Int
      BY <2>2, MakeSpeedInt DEF Motion
    <3>2. CASE CommandRequest(p)
      BY <3>1, <3>2 DEF CommandRequest, TypeOK
    <3>3. CASE ManualRequest(p)
      BY <3>1, <3>3 DEF ManualRequest, TypeOK
    <3>4. CASE UnknownRequest(p)
      BY <3>4 DEF UnknownRequest, TypeOK
    <3> QED BY <1>5, <3>2, <3>3, <3>4 DEF HandleMotion
  <2> QED BY <1>b, <2>3, <2>4 DEF TypeOK
<1> QED BY <1>1, <1>2, <1>3, <1>4, <1>5 DEF ControlStep, Manage

\* So does SubHeading.
LEMMA SteerType == ASSUME TypeOK, Steer PROVE TypeOK'
<1>a. depthTarget' = depthTarget /\ commanded' = commanded
  BY DEF Steer
<1>1. CASE TargetHeadingCallback
  <2>1. Head(targetHeading) \in Int /\ Tail(targetHeading) \in Seq(Int)
    BY <1>1 DEF TargetHeadingCallback, TypeOK
  <2>2. currYaw + Head(targetHeading) \in Int
    BY <2>1 DEF TypeOK
  <2>3. targetYaw' \in 1 - HalfTurn..HalfTurn - 1
    BY <1>1, <2>2, FmodRange DEF TargetHeadingCallback
  <2> QED BY <1>1, <1>a, <2>1, <2>3 DEF TargetHeadingCallback, TypeOK, controlVars
<1>2. CASE ReadForwardStatus
  <2>1. HearMotion
    BY <1>2 DEF ReadForwardStatus, StartMoving, StopMoving, IgnoreMotion
  <2>2. heard' \in Seq(Motion)
    BY <2>1 DEF HearMotion, TypeOK
  <2>3. motion' \in [Publisher -> Seq(Motion)] /\ isMoving' \in BOOLEAN
    <3>1. CASE StartMoving
      BY <3>1 DEF StartMoving, TypeOK
    <3>2. CASE StopMoving
      <4>1. <<MotionMsg("Turn", "Manual", 0)>> \in Seq(Motion)
        BY MessageType DEF Axis
      <4>2. "SubHeading" \in Publisher
        BY DEF Publisher
      <4> QED BY <3>2, <4>1, <4>2, PublishType DEF StopMoving
    <3>3. CASE IgnoreMotion
      BY <3>3 DEF IgnoreMotion, TypeOK
    <3> QED BY <1>2, <3>1, <3>2, <3>3 DEF ReadForwardStatus
  <2> QED BY <1>a, <2>1, <2>2, <2>3 DEF HearMotion, TypeOK, controlVars
<1> QED BY <1>1, <1>2 DEF Steer

\* So do the attitude and depth samples.
LEMMA SampleType == ASSUME TypeOK, Sample PROVE TypeOK'
<1>a. "SubHeading" \in Publisher /\ "SubDepthController" \in Publisher
  BY DEF Publisher
<1>1. ASSUME NEW yaw \in Yaws, HeadingCallback(yaw),
             UNCHANGED <<depthTarget, commanded>>
      PROVE  TypeOK'
  <2>1. yaw \in Int /\ targetYaw \in Int
    BY MotionAssumption, HeadingAssumption DEF TypeOK
  <2>2. motion' \in [Publisher -> Seq(Motion)]
    <3>1. CASE isMoving
      <4> DEFINE error == yaw - targetYaw
      <4>1. error \in Int /\ 0 - error \in Int
        BY <2>1
      <4>2. 0 - Saturate(Gain * error) \in Int
        BY <4>1, HeadingAssumption DEF Saturate
      <4>3. Steering(error) \in Seq(Motion)
        <5> DEFINE a == MotionMsg("Turn", "Manual", 0 - Saturate(Gain * error))
                   b == MotionMsg("Turn", "Command", 0 - error)
        <5>1. a \in Motion /\ b \in Motion
          BY <4>1, <4>2, MessageType DEF Axis
        <5>2. Steering(error) = <<a, b>>
          BY DEF Steering
        <5> HIDE DEF a, b, error
        <5>3. <<a, b>> \in Seq(Motion)
          BY <5>1
        <5> QED BY <5>2, <5>3
      <4>4. Publish("SubHeading", Steering(error))
        BY <1>1, <3>1 DEF HeadingCallback
      <4> HIDE DEF error
      <4> QED BY <1>a, <4>3, <4>4, PublishType
    <3>2. CASE ~isMoving
      BY <1>1, <3>2 DEF HeadingCallback, TypeOK
    <3> QED BY <3>1, <3>2
  <2> QED BY <1>1, <2>1, <2>2 DEF HeadingCallback, TypeOK, controlVars
<1>2. ASSUME NEW depth \in Depths, CurrentDepthCallback(depth),
             UNCHANGED <<headingVars, commanded>>
      PROVE  TypeOK'
  <2>1. DepthThrust(depth) \subseteq Int
    BY ThrustAssumption DEF DepthThrust
  <2>2. motion' \in [Publisher -> Seq(Motion)]
    <3>1. PICK v \in DepthThrust(depth) :
            Publish("SubDepthController", <<MotionMsg("Depth", "Manual", v)>>)
      BY <1>2 DEF CurrentDepthCallback
    <3>2. <<MotionMsg("Depth", "Manual", v)>> \in Seq(Motion)
      BY <2>1, MessageType DEF Axis
    <3> QED BY <1>a, <3>1, <3>2, PublishType
  <2> QED BY <1>2, <2>2 DEF CurrentDepthCallback, TypeOK, controlVars, headingVars
<1> QED BY <1>1, <1>2 DEF Sample

\* So do the requests of the Brain and of QualifyTask, and the motor node.
LEMMA OuterType ==
    ASSUME TypeOK,
           \/ Sink \/ MotorMessage \/ (\E request \in Requests : BrainAsks(request))
           \/ QualifyDives \/ QualifyDrives \/ MotorRespawn
    PROVE  TypeOK'
<1>1. CASE Sink
  <2>1. Head(targetDepth) \in Int /\ Tail(targetDepth) \in Seq(Int)
    BY <1>1 DEF Sink, TargetDepthCallback, TypeOK
  <2> QED BY <1>1, <2>1
          DEF Sink, TargetDepthCallback, TypeOK, controlVars, headingVars
<1>2. CASE MotorMessage
  <2>1. Head(motorControl) \in MotorMsg /\ Tail(motorControl) \in Seq(MotorMsg)
    BY <1>2 DEF MotorMessage, TypeOK
  <2>2. Head(motorControl).thrust \in Thrust2
    BY <2>1 DEF MotorMsg
  <2> QED BY <1>2, <2>1, <2>2 DEF MotorMessage, TypeOK, controlVars, headingVars
<1>3. ASSUME NEW request \in Requests, BrainAsks(request) PROVE TypeOK'
  <2>1. request \in Seq(Motion) /\ "Brain" \in Publisher
    BY MotionAssumption DEF Publisher
  <2>2. motion' \in [Publisher -> Seq(Motion)]
    BY <1>3, <2>1, PublishType DEF BrainAsks
  <2>3. heard' \in Seq(Motion)
    BY <1>3, <2>1 DEF BrainAsks, TypeOK
  <2> QED BY <1>3, <2>2, <2>3 DEF BrainAsks, TypeOK, controlVars
<1>4. CASE QualifyDives
  <2>1. targetDepth' \in Seq(Int)
    BY <1>4, EnqueueInt, MotionAssumption DEF QualifyDives, TypeOK
  <2> QED BY <1>4, <2>1 DEF QualifyDives, TypeOK, controlVars, headingVars
<1>5. CASE QualifyDrives
  <2>1. [pair |-> "Drive", thrust |-> DirectThrust] \in MotorMsg
    BY MotionAssumption DEF MotorMsg, Pair
  <2> QED BY <1>5, <2>1 DEF QualifyDrives, TypeOK, controlVars, headingVars
<1>6. CASE MotorRespawn
  <2>1. Still \in Thrust2
    BY DEF Still, Thrust2
  <2> QED BY <1>6, <2>1 DEF MotorRespawn, TypeOK, controlVars, headingVars
<1> QED BY <1>1, <1>2, <1>3, <1>4, <1>5, <1>6

\* The nodes start with the right types.
LEMMA InitMotionType == ASSUME Init PROVE TypeOK
<1>1. Still \in Thrust2
  BY DEF Still, Thrust2
<1>2. 0 \in 1 - HalfTurn..HalfTurn - 1
  BY HeadingAssumption
<1>3. /\ motion = [p \in Publisher |-> <<>>] /\ motorControl = <<>>
      /\ targetHeading = <<>> /\ targetDepth = <<>> /\ step = "forward"
      /\ mode = [a \in Axis |-> "MANUAL"]
      /\ speed = [a \in Axis |-> 0] /\ command = [a \in Axis |-> 0]
      /\ sent = [p \in Pair |-> Still] /\ commanded = sent
      /\ heard = <<>> /\ targetYaw = 0 /\ currYaw = 0 /\ isMoving = FALSE
      /\ depthTarget = 0
  BY DEF Init, ControlInit, HeadingInit, DepthInit
<1>4. motion \in [Publisher -> Seq(Motion)] /\ heard \in Seq(Motion)
  BY <1>3
<1>5. motorControl \in Seq(MotorMsg)
  BY <1>3
<1>6. targetHeading \in Seq(Int) /\ targetDepth \in Seq(Int)
  BY <1>3
<1>7. mode \in [Axis -> {"MANUAL", "AUTOMATIC"}]
      /\ speed \in [Axis -> Int] /\ command \in [Axis -> Int]
  BY <1>3
<1>8. sent \in [Pair -> Thrust2] /\ commanded \in [Pair -> Thrust2]
  BY <1>1, <1>3
<1>9. /\ step \in {"forward", "turn", "depth", "spin"}
      /\ targetYaw \in 1 - HalfTurn..HalfTurn - 1
      /\ currYaw \in Int /\ depthTarget \in Int
  BY <1>2, <1>3
<1>10. isMoving \in BOOLEAN
  BY <1>3
<1> QED BY <1>4, <1>5, <1>6, <1>7, <1>8, <1>9, <1>10 DEF TypeOK

\* Every step keeps them.
LEMMA NextMotionType == ASSUME TypeOK, [Next]_vars PROVE TypeOK'
<1>1. TypeOK /\ Next => TypeOK'
  BY ControlType, SteerType, SampleType, OuterType DEF Next, Control, Rest
<1>2. TypeOK /\ UNCHANGED vars => TypeOK'
  BY DEF vars, TypeOK, controlVars, headingVars
<1> QED BY <1>1, <1>2

\* Every field keeps its type: in particular a target heading is always less
\* than half a turn either way, whatever offsets are asked for.
THEOREM MotionTypeCorrect == Spec => []TypeOK
<1>1. Init => TypeOK
  BY InitMotionType
<1>2. TypeOK /\ [Next]_vars => TypeOK'
  BY NextMotionType
<1> QED BY <1>1, <1>2, PTL DEF Spec

-----------------------------------------------------------------------------
(* A stopped sub ends up turning nowhere                                   *)

\* Only SubHeading sets the turn speed directly.
OnlySteering == \A p \in Publisher \ {"SubHeading"} :
                    \A i \in DOMAIN motion[p] : ~TurnManual(motion[p][i])

\* What StoppedStraight proves inductively.
StraightInv == TypeOK /\ OnlySteering /\ StoppedIsStraight

\* What the other nodes publish leaves it so.
LEMMA OthersPublish ==
    ASSUME TypeOK, OnlySteering, NEW p \in Publisher, NEW msgs \in Seq(Motion),
           p = "SubHeading" \/ \A i \in DOMAIN msgs : ~TurnManual(msgs[i]),
           Publish(p, msgs)
    PROVE  OnlySteering'
<1> SUFFICES ASSUME NEW o \in Publisher \ {"SubHeading"}, NEW i \in DOMAIN motion'[o]
             PROVE  ~TurnManual(motion'[o][i])
  BY DEF OnlySteering, TurnManual
<1>1. CASE o # p
  <2>1. motion'[o] = motion[o]
    BY <1>1 DEF Publish, TypeOK
  <2> QED BY <2>1 DEF OnlySteering
<1>2. CASE o = p
  <2>1. motion[p] \in Seq(Motion) /\ motion'[o] = motion[p] \o msgs
    BY <1>2 DEF Publish, TypeOK
  <2>2. \A j \in DOMAIN msgs : ~TurnManual(msgs[j])
    BY <1>2
  <2>3. CASE i \in DOMAIN motion[p]
    BY <1>2, <2>1, <2>3 DEF OnlySteering
  <2>4. CASE i \notin DOMAIN motion[p]
    <3>1. i - Len(motion[p]) \in DOMAIN msgs
          /\ motion'[o][i] = msgs[i - Len(motion[p])]
      BY <2>1, <2>4
    <3> QED BY <2>2, <3>1
  <2> QED BY <2>3, <2>4
<1> QED BY <1>1, <1>2

\* The loop of HighLevelControl leaves the speed of a turn alone.
LEMMA ManageKeepsTurn ==
    ASSUME TypeOK, Manage \/ SpinEnds
    PROVE  motion' = motion /\ speed'["Turn"] = speed["Turn"]
<1>1. "Turn" \in Axis
  BY DEF Axis
<1>2. CASE ManageForwardThrusters
  BY <1>1, <1>2 DEF ManageForwardThrusters, TypeOK
<1>3. CASE ManageTurnThrusters
  BY <1>1, <1>3 DEF ManageTurnThrusters, TypeOK
<1>4. CASE ManageDepthThrusters
  BY <1>1, <1>4 DEF ManageDepthThrusters, TypeOK
<1>5. CASE SpinEnds
  BY <1>5 DEF SpinEnds
<1> QED BY <1>2, <1>3, <1>4, <1>5 DEF Manage

\* A step that touches neither the steering on its way, nor the speed of a
\* turn, nor whether the sub moves, keeps the promise.
LEMMA StraightFrame ==
    ASSUME StoppedIsStraight, motion'["SubHeading"] = motion["SubHeading"],
           speed'["Turn"] = speed["Turn"], isMoving' = isMoving
    PROVE  StoppedIsStraight'
  BY DEF StoppedIsStraight, TurnEndsAt, TurnManual

\* A handled request is gone from its queue; if it set the speed of a turn, it
\* was an order of SubHeading.
LEMMA HandledTurn ==
    ASSUME StraightInv, NEW p \in Publisher, HandleMotion(p)
    PROVE  LET m == Head(motion[p])
           IN  /\ motion[p] # <<>> /\ motion[p] \in Seq(Motion)
               /\ motion' = [motion EXCEPT ![p] = Tail(@)]
               /\ TurnManual(m) => /\ p = "SubHeading"
                                   /\ speed'["Turn"] = MakeSpeed(m.value)
               /\ ~TurnManual(m) => speed'["Turn"] = speed["Turn"]
<1> DEFINE m == Head(motion[p])
<1>1. TakeMotion(p)
  BY DEF HandleMotion, CommandRequest, ManualRequest, UnknownRequest
<1>2. /\ motion[p] # <<>> /\ motion[p] \in Seq(Motion)
      /\ motion' = [motion EXCEPT ![p] = Tail(@)]
  BY <1>1 DEF TakeMotion, StraightInv, TypeOK
<1>3. m \in Motion /\ 1 \in DOMAIN motion[p] /\ m = motion[p][1]
  BY <1>2
<1>4. "Turn" \in Axis
  BY DEF Axis
<1>5. TurnManual(m) => p = "SubHeading"
  BY <1>3 DEF StraightInv, OnlySteering
<1>6. TurnManual(m) => speed'["Turn"] = MakeSpeed(m.value)
  BY <1>4 DEF HandleMotion, CommandRequest, ManualRequest, UnknownRequest,
              TurnManual, StraightInv, TypeOK
<1>7. ~TurnManual(m) => speed'["Turn"] = speed["Turn"]
  BY <1>4 DEF HandleMotion, CommandRequest, ManualRequest, UnknownRequest,
              TurnManual, StraightInv, TypeOK
<1> QED BY <1>2, <1>5, <1>6, <1>7

\* Handling a request keeps the promise: the last order is still to come, or it
\* is the one that has just been carried out.
LEMMA HandleStraight ==
    ASSUME StraightInv, NEW p \in Publisher, HandleMotion(p), isMoving' = isMoving
    PROVE  OnlySteering' /\ StoppedIsStraight'
<1> DEFINE m == Head(motion[p])
           q == motion["SubHeading"]
<1>1. /\ motion[p] # <<>> /\ motion[p] \in Seq(Motion)
      /\ motion' = [motion EXCEPT ![p] = Tail(@)]
      /\ TurnManual(m) => p = "SubHeading" /\ speed'["Turn"] = MakeSpeed(m.value)
      /\ ~TurnManual(m) => speed'["Turn"] = speed["Turn"]
  BY HandledTurn
<1>2. motion \in [Publisher -> Seq(Motion)] /\ "SubHeading" \in Publisher
  BY DEF StraightInv, TypeOK, Publisher
<1>3. OnlySteering'
  <2> SUFFICES ASSUME NEW o \in Publisher \ {"SubHeading"},
                      NEW i \in DOMAIN motion'[o]
               PROVE  ~TurnManual(motion'[o][i])
    BY DEF OnlySteering, TurnManual
  <2>1. CASE o # p
    BY <1>1, <1>2, <2>1 DEF StraightInv, OnlySteering
  <2>2. CASE o = p
    <3>1. motion'[o] = Tail(motion[o]) /\ motion[o] \in Seq(Motion) /\ motion[o] # <<>>
      BY <1>1, <1>2, <2>2
    <3>2. i + 1 \in DOMAIN motion[o] /\ motion'[o][i] = motion[o][i + 1]
      BY <3>1
    <3> QED BY <3>2 DEF StraightInv, OnlySteering
  <2> QED BY <2>1, <2>2
<1>4. CASE p # "SubHeading"
  <2>1. motion'["SubHeading"] = motion["SubHeading"] /\ speed'["Turn"] = speed["Turn"]
    BY <1>1, <1>2, <1>4
  <2> QED BY <1>3, <2>1, StraightFrame DEF StraightInv
<1>5. CASE p = "SubHeading"
  <2> SUFFICES ASSUME ~isMoving PROVE TurnEndsAt(0)'
    BY <1>3 DEF StoppedIsStraight
  <2>1. q \in Seq(Motion) /\ q # <<>> /\ m = q[1] /\ motion'["SubHeading"] = Tail(q)
    BY <1>1, <1>2, <1>5
  <2>2. TurnEndsAt(0)
    BY DEF StraightInv, StoppedIsStraight
  <2>3. \A i \in DOMAIN Tail(q) : i + 1 \in DOMAIN q /\ Tail(q)[i] = q[i + 1]
    BY <2>1
  <2>4. CASE \E i \in DOMAIN q : /\ TurnManual(q[i]) /\ q[i].value = 0
                                 /\ \A j \in DOMAIN q : j > i => ~TurnManual(q[j])
    <3>1. PICK i \in DOMAIN q : /\ TurnManual(q[i]) /\ q[i].value = 0
                                /\ \A j \in DOMAIN q : j > i => ~TurnManual(q[j])
      BY <2>4
    <3>2. CASE i = 1
      <4>1. \A j \in DOMAIN Tail(q) : ~TurnManual(Tail(q)[j])
        BY <2>1, <2>3, <3>1, <3>2
      <4>2. speed'["Turn"] = MakeSpeed(0)
        BY <1>1, <2>1, <3>1, <3>2
      <4> QED BY <2>1, <4>1, <4>2 DEF TurnEndsAt, TurnManual
    <3>3. CASE i # 1
      <4>1. i - 1 \in DOMAIN Tail(q) /\ Tail(q)[i - 1] = q[i]
        BY <2>1, <3>3
      <4>2. \A j \in DOMAIN Tail(q) : j > i - 1 => ~TurnManual(Tail(q)[j])
        BY <2>1, <2>3, <3>1
      <4> QED BY <2>1, <3>1, <4>1, <4>2 DEF TurnEndsAt, TurnManual
    <3> QED BY <3>2, <3>3
  <2>5. CASE speed["Turn"] = MakeSpeed(0) /\ \A i \in DOMAIN q : ~TurnManual(q[i])
    <3>1. \A i \in DOMAIN Tail(q) : ~TurnManual(Tail(q)[i])
      BY <2>3, <2>5
    <3>2. ~TurnManual(m)
      BY <2>1, <2>5
    <3>3. speed'["Turn"] = MakeSpeed(0)
      BY <1>1, <2>5, <3>2
    <3> QED BY <2>1, <3>1, <3>3 DEF TurnEndsAt, TurnManual
  <2> QED BY <2>2, <2>4, <2>5 DEF TurnEndsAt
<1> QED BY <1>4, <1>5

\* SubHeading keeps the promise: it says 0 whenever it stops.
LEMMA SteerStraight ==
    ASSUME StraightInv, Steer
    PROVE  OnlySteering' /\ StoppedIsStraight'
<1>1. CASE TargetHeadingCallback
  <2>1. motion' = motion /\ speed' = speed /\ isMoving' = isMoving
    BY <1>1 DEF TargetHeadingCallback, controlVars
  <2> QED BY <2>1, StraightFrame DEF StraightInv, OnlySteering
<1>2. CASE StartMoving
  <2>1. motion' = motion /\ isMoving' = TRUE
    BY <1>2 DEF StartMoving
  <2> QED BY <2>1 DEF StraightInv, OnlySteering, StoppedIsStraight
<1>3. CASE StopMoving
  <2> DEFINE m == MotionMsg("Turn", "Manual", 0)
             q == motion["SubHeading"]
  <2>1. Publish("SubHeading", <<m>>) /\ "SubHeading" \in Publisher
    BY <1>3 DEF StopMoving, Publisher
  <2>2. <<m>> \in Seq(Motion)
    BY MessageType DEF Axis
  <2>3. OnlySteering'
    BY <2>1, <2>2, OthersPublish DEF StraightInv
  <2>4. q \in Seq(Motion) /\ motion'["SubHeading"] = q \o <<m>>
    BY <2>1 DEF StraightInv, TypeOK, Publish
  <2>5. TurnManual(m) /\ m.value = 0
    BY DEF TurnManual, MotionMsg
  <2> HIDE DEF m
  <2>6. /\ Len(q) + 1 \in DOMAIN (q \o <<m>>) /\ (q \o <<m>>)[Len(q) + 1] = m
        /\ \A j \in DOMAIN (q \o <<m>>) : ~(j > Len(q) + 1)
    BY <2>4
  <2> QED BY <2>3, <2>4, <2>5, <2>6 DEF StoppedIsStraight, TurnEndsAt, TurnManual
<1>4. CASE IgnoreMotion
  <2>1. motion' = motion /\ speed' = speed /\ isMoving' = isMoving
    BY <1>4 DEF IgnoreMotion, HearMotion, controlVars
  <2> QED BY <2>1, StraightFrame DEF StraightInv, OnlySteering
<1> QED BY <1>1, <1>2, <1>3, <1>4 DEF Steer, ReadForwardStatus

\* So does a sample: it only steers while the sub moves.
LEMMA SampleStraight ==
    ASSUME StraightInv, Sample
    PROVE  OnlySteering' /\ StoppedIsStraight'
<1>a. "SubHeading" \in Publisher /\ "SubDepthController" \in Publisher
  BY DEF Publisher
<1>1. ASSUME NEW yaw \in Yaws, HeadingCallback(yaw)
      PROVE  OnlySteering' /\ StoppedIsStraight'
  <2>1. CASE isMoving
    <3>1. isMoving' /\ Publish("SubHeading", Steering(yaw - targetYaw))
      BY <1>1, <2>1 DEF HeadingCallback
    <3>2. \A o \in Publisher \ {"SubHeading"} : motion'[o] = motion[o]
      BY <3>1 DEF Publish, StraightInv, TypeOK
    <3> QED BY <3>1, <3>2 DEF StraightInv, OnlySteering, StoppedIsStraight
  <2>2. CASE ~isMoving
    <3>1. motion' = motion /\ speed' = speed /\ isMoving' = isMoving
      BY <1>1, <2>2 DEF HeadingCallback, controlVars
    <3> QED BY <3>1, StraightFrame DEF StraightInv, OnlySteering
  <2> QED BY <2>1, <2>2
<1>2. ASSUME NEW depth \in Depths, CurrentDepthCallback(depth), UNCHANGED headingVars
      PROVE  OnlySteering' /\ StoppedIsStraight'
  <2>1. PICK v \in DepthThrust(depth) :
          Publish("SubDepthController", <<MotionMsg("Depth", "Manual", v)>>)
    BY <1>2 DEF CurrentDepthCallback
  <2> DEFINE m == MotionMsg("Depth", "Manual", v)
  <2>2. v \in Int
    BY ThrustAssumption DEF DepthThrust
  <2>3. <<m>> \in Seq(Motion) /\ ~TurnManual(m)
    BY <2>2, MessageType DEF Axis, MotionMsg, TurnManual
  <2> HIDE DEF m
  <2>4. \A i \in DOMAIN <<m>> : ~TurnManual(<<m>>[i])
    BY <2>3
  <2>5. OnlySteering'
    BY <1>a, <2>1, <2>3, <2>4, OthersPublish DEF StraightInv, m
  <2>6. motion'["SubHeading"] = motion["SubHeading"] /\ speed' = speed
        /\ isMoving' = isMoving
    BY <1>2, <1>a, <2>1
       DEF Publish, CurrentDepthCallback, controlVars, headingVars, StraightInv, TypeOK
  <2> QED BY <2>5, <2>6, StraightFrame DEF StraightInv
<1> QED BY <1>1, <1>2 DEF Sample

\* A sub told to stop ends up turning nowhere, whatever steering was still on
\* its way to HighLevelControl when mReadForwardStatus() said 0.
THEOREM StoppedStraight == Spec => []StoppedIsStraight
<1>1. Init => StraightInv
  <2> SUFFICES ASSUME Init PROVE StraightInv
    OBVIOUS
  <2>1. TypeOK
    BY InitMotionType
  <2>2. \A p \in Publisher : motion[p] = <<>>
    BY DEF Init, ControlInit
  <2>3. OnlySteering
    BY <2>2 DEF OnlySteering
  <2>4. speed["Turn"] = MakeSpeed(0)
    BY MakeSpeedInt DEF Init, ControlInit, Axis
  <2>5. StoppedIsStraight
    BY <2>2, <2>4 DEF StoppedIsStraight, TurnEndsAt, Publisher
  <2> QED BY <2>1, <2>3, <2>5 DEF StraightInv
<1>2. StraightInv /\ [Next]_vars => StraightInv'
  <2> SUFFICES ASSUME StraightInv, [Next]_vars PROVE StraightInv'
    OBVIOUS
  <2>1. TypeOK'
    BY NextMotionType DEF StraightInv
  <2>2. OnlySteering' /\ StoppedIsStraight'
    <3>1. CASE Control
      <4>1. isMoving' = isMoving
        BY <3>1 DEF Control, headingVars
      <4>2. CASE Manage \/ SpinEnds
        <5>1. motion' = motion /\ speed'["Turn"] = speed["Turn"]
          BY <4>2, ManageKeepsTurn DEF StraightInv
        <5> QED BY <4>1, <5>1, StraightFrame DEF StraightInv, OnlySteering
      <4>3. ASSUME NEW p \in Publisher, HandleMotion(p)
            PROVE  OnlySteering' /\ StoppedIsStraight'
        BY <4>1, <4>3, HandleStraight
      <4> QED BY <3>1, <4>2, <4>3 DEF Control, ControlStep
    <3>2. CASE Steer
      BY <3>2, SteerStraight
    <3>3. CASE Sample
      BY <3>3, SampleStraight
    <3>4. ASSUME NEW request \in Requests, BrainAsks(request)
          PROVE  OnlySteering' /\ StoppedIsStraight'
      <4>1. /\ request \in Seq(Motion) /\ "Brain" \in Publisher
            /\ Publish("Brain", request)
            /\ \A i \in DOMAIN request : ~TurnManual(request[i])
        BY <3>4, MotionAssumption DEF BrainAsks, Publisher, TurnManual
      <4>2. OnlySteering'
        BY <4>1, OthersPublish DEF StraightInv
      <4>3. motion'["SubHeading"] = motion["SubHeading"] /\ speed' = speed
            /\ isMoving' = isMoving
        BY <3>4, <4>1 DEF BrainAsks, Publish, StraightInv, TypeOK, controlVars
      <4> QED BY <4>2, <4>3, StraightFrame DEF StraightInv
    <3>5. CASE Sink \/ MotorMessage \/ QualifyDives \/ QualifyDrives \/ MotorRespawn
               \/ UNCHANGED vars
      <4>1. motion' = motion /\ speed' = speed /\ isMoving' = isMoving
        BY <3>5 DEF Sink, TargetDepthCallback, MotorMessage, QualifyDives,
                    QualifyDrives, MotorRespawn, vars, controlVars, headingVars
      <4> QED BY <4>1, StraightFrame DEF StraightInv, OnlySteering
    <3> QED BY <3>1, <3>2, <3>3, <3>4, <3>5 DEF Next
  <2> QED BY <2>1, <2>2 DEF StraightInv
<1>3. StraightInv => StoppedIsStraight
  BY DEF StraightInv
<1> QED BY <1>1, <1>2, <1>3, PTL DEF Spec

-----------------------------------------------------------------------------
(* The cache of HighLevelControl, as long as nobody interferes             *)

\* A message that is published becomes the last word for its pair, and for no
\* other.
LEMMA AppendEnds ==
    ASSUME TypeOK, commanded' = commanded, NEW m \in MotorMsg,
           motorControl' = Append(motorControl, m)
    PROVE  /\ PairEndsAt(m.pair, m.thrust)'
           /\ \A o \in Pair \ {m.pair} : \A t :
                  PairEndsAt(o, t) => PairEndsAt(o, t)'
<1> DEFINE q == motorControl
<1>1. /\ Append(q, m)[Len(q) + 1] = m
      /\ DOMAIN Append(q, m) = DOMAIN q \cup {Len(q) + 1}
      /\ \A i \in DOMAIN q : i # Len(q) + 1 /\ Append(q, m)[i] = q[i]
      /\ \A j \in DOMAIN Append(q, m) : ~(j > Len(q) + 1)
      /\ Len(q) + 1 \in DOMAIN Append(q, m)
  BY DEF TypeOK
<1>2. PairEndsAt(m.pair, m.thrust)'
  BY <1>1 DEF PairEndsAt
<1>3. ASSUME NEW o \in Pair \ {m.pair}, NEW t, PairEndsAt(o, t)
      PROVE  PairEndsAt(o, t)'
  <2>1. CASE \E i \in DOMAIN q :
               /\ q[i].pair = o /\ q[i].thrust = t
               /\ \A j \in DOMAIN q : j > i => q[j].pair # o
    <3>1. PICK i \in DOMAIN q :
               /\ q[i].pair = o /\ q[i].thrust = t
               /\ \A j \in DOMAIN q : j > i => q[j].pair # o
      BY <2>1
    <3>2. \A j \in DOMAIN Append(q, m) : j > i => Append(q, m)[j].pair # o
      BY <1>1, <1>3, <3>1
    <3> QED BY <1>1, <3>1, <3>2 DEF PairEndsAt
  <2>2. CASE commanded[o] = t /\ \A i \in DOMAIN q : q[i].pair # o
    <3>1. \A j \in DOMAIN Append(q, m) : Append(q, m)[j].pair # o
      BY <1>1, <1>3, <2>2
    <3> QED BY <2>2, <3>1 DEF PairEndsAt
  <2> QED BY <1>3, <2>1, <2>2 DEF PairEndsAt
<1> QED BY <1>2, <1>3

\* The motor node takes the messages in order, so the last word stays the last.
LEMMA MotorMessageEnds ==
    ASSUME TypeOK, MotorMessage, NEW o \in Pair, NEW t, PairEndsAt(o, t)
    PROVE  PairEndsAt(o, t)'
<1> DEFINE q == motorControl
           m == Head(q)
<1>1. /\ q # <<>> /\ q \in Seq(MotorMsg) /\ m \in MotorMsg /\ m = q[1]
      /\ 1 \in DOMAIN q
  BY DEF MotorMessage, TypeOK
<1>2. motorControl' = Tail(q) /\ commanded' = [commanded EXCEPT ![m.pair] = m.thrust]
  BY DEF MotorMessage
<1>3. \A i \in DOMAIN Tail(q) : i + 1 \in DOMAIN q /\ Tail(q)[i] = q[i + 1]
  BY <1>1
<1>4. m.pair \in Pair
  BY <1>1 DEF MotorMsg
<1> HIDE DEF m
<1>6. commanded'[o] = IF o = m.pair THEN m.thrust ELSE commanded[o]
  BY <1>2, <1>4 DEF TypeOK
<1>7. CASE \E i \in DOMAIN q :
             /\ q[i].pair = o /\ q[i].thrust = t
             /\ \A j \in DOMAIN q : j > i => q[j].pair # o
  <2>1. PICK i \in DOMAIN q :
             /\ q[i].pair = o /\ q[i].thrust = t
             /\ \A j \in DOMAIN q : j > i => q[j].pair # o
    BY <1>7
  <2>2. CASE i = 1
    <3>1. \A j \in DOMAIN Tail(q) : Tail(q)[j].pair # o
      BY <1>1, <1>3, <2>1, <2>2
    <3>2. commanded'[o] = t
      BY <1>1, <1>6, <2>1, <2>2
    <3> QED BY <1>2, <3>1, <3>2 DEF PairEndsAt
  <2>3. CASE i # 1
    <3>1. i - 1 \in DOMAIN Tail(q) /\ Tail(q)[i - 1] = q[i]
      BY <1>1, <2>3
    <3>2. \A j \in DOMAIN Tail(q) : j > i - 1 => Tail(q)[j].pair # o
      BY <1>1, <1>3, <2>1
    <3> QED BY <1>2, <2>1, <3>1, <3>2 DEF PairEndsAt
  <2> QED BY <2>2, <2>3
<1>8. CASE commanded[o] = t /\ \A i \in DOMAIN q : q[i].pair # o
  <2>1. \A j \in DOMAIN Tail(q) : Tail(q)[j].pair # o
    BY <1>3, <1>8
  <2>2. commanded'[o] = t
    BY <1>1, <1>6, <1>8
  <2> QED BY <1>2, <2>1, <2>2 DEF PairEndsAt
<1> QED BY <1>7, <1>8 DEF PairEndsAt

\* What HighLevelControl sends to a pair is what it remembers of it; the other
\* pairs' speeds and the memory of them stay.
LEMMA SendEnds ==
    ASSUME TypeOK, commanded' = commanded,
           NEW p \in Pair, NEW wanted, NEW trimmed \in Thrust2,
           Send(p, wanted, trimmed), NEW o \in Pair
    PROVE  \/ \E t : sent'[o] = t /\ PairEndsAt(o, t)'
           \/ /\ sent'[o] = sent[o]
              /\ \A t : PairEndsAt(o, t) => PairEndsAt(o, t)'
<1>1. CASE wanted = sent[p]
  BY <1>1 DEF Send, PairEndsAt
<1>2. CASE wanted # sent[p]
  <2> DEFINE m == [pair |-> p, thrust |-> trimmed]
  <2>1. sent' = [sent EXCEPT ![p] = trimmed]
        /\ motorControl' = Append(motorControl, m)
    BY <1>2 DEF Send
  <2>2. m \in MotorMsg /\ m.pair = p /\ m.thrust = trimmed
    BY DEF MotorMsg
  <2> HIDE DEF m
  <2>3. PairEndsAt(p, trimmed)'
    BY <2>1, <2>2, AppendEnds
  <2>4. ASSUME o # p PROVE \A t : PairEndsAt(o, t) => PairEndsAt(o, t)'
    BY <2>1, <2>2, <2>4, AppendEnds
  <2> QED BY <2>1, <2>3, <2>4 DEF TypeOK
<1> QED BY <1>1, <1>2

\* The control loop either says a last word to a pair or leaves it alone.
LEMMA ControlEnds ==
    ASSUME TypeOK, Control, NEW o \in Pair
    PROVE  \/ \E t : sent'[o] = t /\ PairEndsAt(o, t)'
           \/ /\ sent'[o] = sent[o]
              /\ \A t : PairEndsAt(o, t) => PairEndsAt(o, t)'
<1>1. {"Drive", "Turn", "Depth"} \subseteq Pair /\ commanded' = commanded
  BY DEF Pair, Control
<1>2. CASE ManageForwardThrusters
  <2>1. DriveWanted \in Thrust2 /\ Send("Drive", DriveWanted, DriveWanted)
    BY <1>2, WantedType DEF ManageForwardThrusters
  <2> QED BY <1>1, <2>1, SendEnds
<1>3. CASE ManageTurnThrusters
  <2>1. Trim(TurnWanted) \in Thrust2 /\ Send("Turn", TurnWanted, Trim(TurnWanted))
    BY <1>3, WantedType, TrimThrust DEF ManageTurnThrusters
  <2> QED BY <1>1, <2>1, SendEnds
<1>4. CASE ManageDepthThrusters
  <2>1. DepthWanted \in Thrust2 /\ Send("Depth", DepthWanted, DepthWanted)
    BY <1>4, WantedType DEF ManageDepthThrusters
  <2> QED BY <1>1, <2>1, SendEnds
<1>5. CASE SpinEnds \/ \E p \in Publisher : HandleMotion(p)
  <2>1. motorControl' = motorControl /\ sent' = sent
    BY <1>5 DEF SpinEnds, HandleMotion, CommandRequest, ManualRequest,
                UnknownRequest, TakeMotion
  <2> QED BY <1>1, <2>1 DEF PairEndsAt
<1> QED BY <1>2, <1>3, <1>4, <1>5 DEF Control, ControlStep, Manage

\* The other nodes do not touch the thrusters' speeds.
LEMMA OthersSteer ==
    ASSUME \/ Steer \/ Sample \/ Sink \/ QualifyDives \/ UNCHANGED vars
           \/ \E request \in Requests : BrainAsks(request)
    PROVE  motorControl' = motorControl /\ sent' = sent /\ commanded' = commanded
  BY DEF Steer, TargetHeadingCallback, ReadForwardStatus, StartMoving,
         StopMoving, IgnoreMotion, HearMotion, Sample, HeadingCallback,
         CurrentDepthCallback, Sink, TargetDepthCallback, BrainAsks,
         QualifyDives, controlVars, vars

\* If QualifyTask stays away from Motor_Control and the motor node lives, the
\* speeds HighLevelControl remembers are those its thrusters end up with.
THEOREM CacheTrue == ASSUME Faults = {} PROVE Spec => []CacheIsLastSent
<1>1. Init => CacheIsLastSent
  <2>1. Init => /\ motorControl = <<>> /\ commanded = sent
    BY DEF Init, ControlInit
  <2> QED BY <2>1 DEF CacheIsLastSent, PairEndsAt
<1>2. TypeOK /\ CacheIsLastSent /\ [Next]_vars => CacheIsLastSent'
  <2> SUFFICES ASSUME TypeOK, CacheIsLastSent, [Next]_vars, NEW o \in Pair
               PROVE  \E t : sent'[o] = t /\ PairEndsAt(o, t)'
    BY DEF CacheIsLastSent, PairEndsAt
  <2>1. PairEndsAt(o, sent[o])
    BY DEF CacheIsLastSent
  <2>2. CASE Control
    BY <2>1, <2>2, ControlEnds
  <2>3. CASE MotorMessage
    <3>1. sent' = sent
      BY <2>3 DEF MotorMessage, controlVars
    <3> QED BY <2>1, <2>3, <3>1, MotorMessageEnds
  <2>4. CASE QualifyDrives \/ MotorRespawn
    BY <2>4 DEF QualifyDrives, MotorRespawn
  <2>5. CASE \/ Steer \/ Sample \/ Sink \/ QualifyDives \/ UNCHANGED vars
             \/ \E request \in Requests : BrainAsks(request)
    BY <2>1, <2>5, OthersSteer DEF PairEndsAt
  <2> QED BY <2>2, <2>3, <2>4, <2>5 DEF Next
<1> QED BY <1>1, <1>2, MotionTypeCorrect, PTL DEF Spec

\* With QualifyTask on the same topic and a motor node that dies at any time, the
\* thrusters of the other pairs end up with what HighLevelControl remembers or at
\* rest.
THEOREM OnlyStops == Spec => []DeathOnlyStops
<1>1. Init => DeathOnlyStops
  <2>1. Init => /\ motorControl = <<>> /\ commanded = sent
    BY DEF Init, ControlInit
  <2> QED BY <2>1 DEF DeathOnlyStops, PairEndsAt
<1>2. TypeOK /\ DeathOnlyStops /\ [Next]_vars => DeathOnlyStops'
  <2> SUFFICES ASSUME TypeOK, DeathOnlyStops, [Next]_vars,
                      NEW o \in Pair \ {"Drive"}
               PROVE  \/ \E t : sent'[o] = t /\ PairEndsAt(o, t)'
                      \/ PairEndsAt(o, Still)'
    BY DEF DeathOnlyStops, PairEndsAt, Still
  <2>1. o \in Pair /\ (PairEndsAt(o, sent[o]) \/ PairEndsAt(o, Still))
    BY DEF DeathOnlyStops
  <2>2. CASE Control
    BY <2>1, <2>2, ControlEnds DEF Still
  <2>3. CASE MotorMessage
    <3>1. sent' = sent
      BY <2>3 DEF MotorMessage, controlVars
    <3> QED BY <2>1, <2>3, <3>1, MotorMessageEnds DEF Still
  <2>4. CASE QualifyDrives
    <3> DEFINE m == [pair |-> "Drive", thrust |-> DirectThrust]
    <3>1. m \in MotorMsg /\ m.pair = "Drive"
      BY MotionAssumption DEF MotorMsg, Pair
    <3>2. /\ motorControl' = Append(motorControl, m)
          /\ sent' = sent /\ commanded' = commanded
      BY <2>4 DEF QualifyDrives, controlVars
    <3> HIDE DEF m
    <3> QED BY <2>1, <3>1, <3>2, AppendEnds DEF Still
  <2>5. CASE MotorRespawn
    BY <2>1, <2>5 DEF MotorRespawn, PairEndsAt, Still
  <2>6. CASE \/ Steer \/ Sample \/ Sink \/ QualifyDives \/ UNCHANGED vars
             \/ \E request \in Requests : BrainAsks(request)
    BY <2>1, <2>6, OthersSteer DEF PairEndsAt, Still
  <2> QED BY <2>2, <2>3, <2>4, <2>5, <2>6 DEF Next
<1> QED BY <1>1, <1>2, MotionTypeCorrect, PTL DEF Spec
=============================================================================
