--------------------------- MODULE MotorRampProofs ---------------------------
(***************************************************************************)
(* Theorems about MotorLink when an answer never takes longer than         *)
(* RESEND_TIMEOUT ("delay" is not among the faults): frames are lost, the   *)
(* node crashes, the board cuts and resets, but the link alternates.       *)
(***************************************************************************)
EXTENDS MotorLinkProofs

\* A line that holds one frame.
LEMMA Singleton ==
    ASSUME NEW m
    PROVE  /\ <<m>> # <<>> /\ Head(<<m>>) = m /\ Tail(<<m>>) = <<>>
           /\ Append(<<>>, m) = <<m>>
OBVIOUS

-----------------------------------------------------------------------------
(* The link alternates                                                     *)

\* What LinkAlternates proves inductively.
LinkInv == TypeOK /\ Alternates

\* transmit() is only called when no request is unanswered, or it is late.
LEMMA TransmitAlternates ==
    ASSUME LinkInv, NEW m \in Request, Transmit(m), pc # "down", pc' # "down",
           ~awaitingResponse \/ late
    PROVE  Alternates'
<1> USE DEF LinkInv, Alternates, Quiet
<1>1. CASE TransmitOpen(m)
  <2>1. toBoard = <<>> /\ toHost = <<>>
    BY <1>1 DEF TransmitOpen
  <2>2. toBoard' = <<m>> /\ toHost' = <<>> /\ portOpen' = portOpen
    BY <1>1, <2>1, Singleton DEF TransmitOpen
  <2> QED BY <1>1, <2>2, Singleton DEF TransmitOpen, Transmit
<1>2. CASE TransmitReopen(m)
  BY <1>2, Singleton DEF TransmitReopen, BoardReset, Transmit
<1>3. CASE TransmitFails
  BY <1>3 DEF TransmitFails, Transmit, lineVars
<1> QED BY <1>1, <1>2, <1>3 DEF Transmit

\* The node never has two requests under way.
LEMMA HostAlternates ==
    ASSUME LinkInv, HostStep
    PROVE  Alternates'
<1>1. CASE CheckMotor
  <2> DEFINE next == [s \in Side |-> RampTo(speed[s], targetSpeed[s])]
  <2>1. next \in [Side -> Speed]
    BY RampBounds DEF LinkInv, TypeOK
  <2>2. DriveMsg(next) \in Request
    BY <2>1, AppliedDriveMsg DEF Request
  <2>3. Transmit(DriveMsg(next))
    BY <1>1 DEF CheckMotor
  <2> HIDE DEF next
  <2> QED BY <1>1, <2>2, <2>3, TransmitAlternates DEF CheckMotor
<1>2. CASE \E q \in Queries : CheckQuery(q)
  <2>1. Queries \subseteq Request
    BY DEF Queries, Request
  <2> QED BY <1>2, <2>1, TransmitAlternates DEF CheckQuery
<1>3. CASE Resend
  <2>1. currentMessage \in Request
    BY <1>3 DEF Resend, LinkInv, TypeOK
  <2> QED BY <1>3, <2>1, TransmitAlternates DEF Resend
<1>4. CASE ProcessResponse
  <2>1. TakeResponse
    BY <1>4 DEF ProcessResponse, DriveEchoed, CurrentReported, VoltageReported,
                ErrorReported, MismatchIgnored
  <2>2. toHost' = <<>> /\ toBoard' = <<>> /\ pc' = "drain" /\ portOpen' = portOpen
    BY <2>1 DEF TakeResponse, LinkInv, Alternates
  <2> QED BY <2>2 DEF LinkInv, Alternates, Quiet
<1>5. CASE Receive \/ DrainDone \/ MotorNotDue \/ QueryNotDue \/ SpinEnds
  BY <1>5 DEF LinkInv, Alternates, Quiet, Receive, DrainDone, MotorNotDue,
              QueryNotDue, SpinEnds, boardVars, lineVars
<1> QED BY <1>1, <1>2, <1>3, <1>4, <1>5 DEF HostStep

\* The board answers each request once, and with the matching reply.
LEMMA BoardAlternates ==
    ASSUME LinkInv, BoardStep
    PROVE  Alternates'
<1> USE DEF LinkInv, Alternates, Quiet
<1>1. ASSUME NEW t, TakePacket(t), NEW r, Reply(r),
             portOpen => Answers(r, currentMessage)
      PROVE  Alternates'
  <2>1. toBoard' = <<>> /\ toHost = <<>>
    BY <1>1 DEF TakePacket
  <2>2. toHost' = IF portOpen THEN <<r>> ELSE <<>>
    BY <1>1, <2>1, Singleton DEF Reply
  <2>3. portOpen => awaitingResponse /\ ~late
    BY <1>1 DEF TakePacket
  <2> QED BY <1>1, <2>1, <2>2, <2>3, Singleton DEF TakePacket, hostVars
<1>2. CASE BoardDrives
  <2>1. portOpen =>
          Answers([type |-> "d", duty |-> Head(toBoard).duty], currentMessage)
    BY <1>2 DEF BoardDrives, TakePacket, Answers
  <2> QED BY <1>1, <1>2, <2>1 DEF BoardDrives
<1>3. CASE BoardRefuses
  <2>1. portOpen => Answers([type |-> "e"], currentMessage)
    BY <1>3 DEF BoardRefuses, TakePacket, Answers
  <2> QED BY <1>1, <1>3, <2>1 DEF BoardRefuses
<1>4. CASE BoardReportsCurrent
  <2>1. portOpen =>
          Answers([type |-> "c", side |-> Head(toBoard).side], currentMessage)
    BY <1>4 DEF BoardReportsCurrent, TakePacket, Answers
  <2> QED BY <1>1, <1>4, <2>1 DEF BoardReportsCurrent
<1>5. CASE BoardReportsVoltage
  <2>1. portOpen => Answers([type |-> "v"], currentMessage)
    BY <1>5 DEF BoardReportsVoltage, TakePacket, Answers
  <2> QED BY <1>1, <1>5, <2>1 DEF BoardReportsVoltage
<1>6. CASE NoPacket
  BY <1>6 DEF NoPacket, hostVars, lineVars
<1>7. CASE \E over \in SUBSET Side : CheckHealth(over)
  BY <1>7 DEF CheckHealth, hostVars, lineVars
<1> QED BY <1>2, <1>3, <1>4, <1>5, <1>6, <1>7 DEF BoardStep, BoardTakes

\* A loss or a crash leaves the line empty or as it was; without delays a
\* request becomes late only once the line is empty.
LEMMA EnvironmentAlternates ==
    ASSUME "delay" \notin Faults, LinkInv, Environment
    PROVE  Alternates'
<1> USE DEF LinkInv, Alternates, Quiet
<1>1. CASE Lose
  BY <1>1 DEF Lose, hostVars, boardVars
<1>2. CASE Tick
  BY <1>2 DEF Tick, lineVars
<1>3. CASE FlipKill
  BY <1>3 DEF FlipKill, hostVars, boardVars, lineVars
<1>4. CASE Crash
  BY <1>4 DEF Crash
<1>5. CASE Restart
  BY <1>5 DEF Restart, BoardReset, boardVars, lineVars
<1> QED BY <1>1, <1>2, <1>3, <1>4, <1>5 DEF Environment

\* Every step keeps the link alternating.
LEMMA StepAlternates ==
    ASSUME "delay" \notin Faults, LinkInv, [Next]_vars
    PROVE  LinkInv'
<1>1. CASE UNCHANGED vars
  BY <1>1 DEF LinkInv, Alternates, Quiet, TypeOK, vars, hostVars, boardVars,
              lineVars
<1>2. CASE \E c \in Commands : SetMotorSpeed(c)
  BY <1>2, CommandType DEF LinkInv, Alternates, Quiet, SetMotorSpeed, lineVars
<1> QED BY <1>1, <1>2, StepType, HostAlternates, BoardAlternates,
           EnvironmentAlternates DEF Next, LinkInv

\* At most one frame is on the line, and it is the pending request or the answer
\* to it: a retransmission never meets the frame it repeats.
THEOREM LinkAlternates ==
    ASSUME "delay" \notin Faults
    PROVE  Spec => []Alternates
<1>1. Init => LinkInv
  BY InitType DEF Init, LinkInv, Alternates, Quiet
<1>2. LinkInv /\ [Next]_vars => LinkInv'
  BY StepAlternates
<1>3. LinkInv => Alternates
  BY DEF LinkInv
<1> QED BY <1>1, <1>2, <1>3, PTL DEF Spec
-----------------------------------------------------------------------------
(* Labels of published currents                                            *)

\* A current is published with the side it was asked for.
LEMMA StepLabels == LinkInv /\ LabelMatches /\ [Next]_vars => LabelMatches'
<1> SUFFICES ASSUME LinkInv, LabelMatches, [Next]_vars PROVE LabelMatches'
  OBVIOUS
<1> USE DEF LabelMatches
<1>1. CASE CurrentReported
  <2>1. currentMessage.side = Head(toHost).side
    BY <1>1 DEF CurrentReported, TakeResponse, LinkInv, Alternates, Answers
  <2> QED BY <1>1, <2>1 DEF CurrentReported
<1>2. CASE Crash
  BY <1>2 DEF Crash, Nothing
<1>3. CASE published' = published
  BY <1>3
<1>4. CurrentReported \/ Crash \/ published' = published
  BY DEF Next, HostStep, BoardStep, BoardTakes, Environment, ProcessResponse,
         Receive, DriveEchoed, VoltageReported, ErrorReported, MismatchIgnored,
         DrainDone, CheckMotor, MotorNotDue, CheckQuery, QueryNotDue, Resend,
         SpinEnds, Restart, BoardDrives, BoardRefuses, BoardReportsCurrent,
         BoardReportsVoltage, NoPacket, TakePacket, CheckHealth, FlipKill, Lose,
         Tick, SetMotorSpeed, vars, hostVars
<1> QED BY <1>1, <1>2, <1>3, <1>4

\* Every published current carries the name of the side it was measured on.
THEOREM LabelsMatch ==
    ASSUME "delay" \notin Faults
    PROVE  Spec => []LabelMatches
<1>1. Init => LabelMatches
  <2>1. Init => published = Nothing
    BY DEF Init
  <2>2. Nothing.position = Nothing.measured
    BY DEF Nothing
  <2> QED BY <2>1, <2>2 DEF LabelMatches
<1>2. TypeOK /\ Alternates /\ LabelMatches /\ [Next]_vars => LabelMatches'
  BY StepLabels DEF LinkInv
<1> QED BY <1>1, <1>2, TypeCorrect, LinkAlternates, PTL DEF Spec

-----------------------------------------------------------------------------
(* The heartbeat                                                           *)

\* A transmission starts a new wait for an answer.
LEMMA TransmitSilence ==
    ASSUME LinkInv, SilenceIsLoss, NEW m, Transmit(m), ~awaitingResponse \/ late
    PROVE  SilenceIsLoss'
<1> USE DEF SilenceIsLoss
<1>1. CASE TransmitOpen(m)
  <2>1. toBoard = <<>> /\ toHost = <<>>
    BY <1>1 DEF TransmitOpen, LinkInv, Alternates, Quiet
  <2>2. toBoard' = <<m>> /\ toHost' = <<>>
    BY <1>1, <2>1, Singleton DEF TransmitOpen
  <2>3. silence' = silence /\ losses' = losses /\ awaitingResponse' = TRUE
    BY <1>1 DEF TransmitOpen, Transmit, boardVars
  <2> QED BY <1>1, <2>2, <2>3, Singleton DEF TransmitOpen, Quiet
<1>2. CASE TransmitReopen(m)
  BY <1>2, Singleton DEF TransmitReopen, BoardReset, Transmit, Quiet
<1>3. CASE TransmitFails
  BY <1>3 DEF TransmitFails
<1> QED BY <1>1, <1>2, <1>3 DEF Transmit

\* The board only goes without a frame when one was lost or nobody sends.
LEMMA StepSilence ==
    ASSUME "delay" \notin Faults, LinkInv, SilenceIsLoss, [Next]_vars
    PROVE  SilenceIsLoss'
<1> USE DEF SilenceIsLoss
<1>1. CASE CheckMotor \/ Resend \/ \E q \in Queries : CheckQuery(q)
  BY <1>1, TransmitSilence DEF CheckMotor, Resend, CheckQuery
<1>2. CASE ProcessResponse
  <2>1. TakeResponse
    BY <1>2 DEF ProcessResponse, DriveEchoed, CurrentReported, VoltageReported,
                ErrorReported, MismatchIgnored
  <2>2. awaitingResponse' = FALSE
    BY <1>2, <2>1
    DEF ProcessResponse, DriveEchoed, CurrentReported, VoltageReported,
        ErrorReported, MismatchIgnored, TakeResponse, Settle, LinkInv,
        Alternates, Answers
  <2>3. portOpen => silence = 0
    BY <2>1 DEF TakeResponse
  <2> QED BY <2>1, <2>2, <2>3 DEF TakeResponse, boardVars
<1>3. CASE Receive \/ DrainDone \/ MotorNotDue \/ QueryNotDue \/ SpinEnds
             \/ FlipKill \/ UNCHANGED vars
             \/ (\E c \in Commands : SetMotorSpeed(c))
  BY <1>3 DEF Receive, DrainDone, MotorNotDue, QueryNotDue, SpinEnds, FlipKill,
              SetMotorSpeed, Quiet, vars, hostVars, boardVars, lineVars
<1>4. CASE BoardDrives \/ BoardRefuses \/ BoardReportsCurrent
             \/ BoardReportsVoltage
  <2>1. PICK t : TakePacket(t)
    BY <1>4
    DEF BoardDrives, BoardRefuses, BoardReportsCurrent, BoardReportsVoltage
  <2>2. PICK r : Reply(r)
    BY <1>4
    DEF BoardDrives, BoardRefuses, BoardReportsCurrent, BoardReportsVoltage
  <2>3. portOpen => toHost' # <<>>
    BY <2>1, <2>2, Singleton DEF TakePacket, Reply, LinkInv, Alternates
  <2>4. losses \in Nat
    BY MotorLinkAssumption DEF LinkInv, TypeOK
  <2> QED BY <2>1, <2>3, <2>4 DEF TakePacket, hostVars, Quiet
<1>5. CASE NoPacket
  BY <1>5 DEF NoPacket, Quiet, hostVars, lineVars
<1>6. CASE \E over \in SUBSET Side : CheckHealth(over)
  <2>1. silence' = silence \/ (silence' = 0 /\ silence >= HeartBeat)
    <3>1. PICK over \in SUBSET Side : CheckHealth(over)
      BY <1>6
    <3> QED BY <3>1 DEF CheckHealth, HeartbeatExpired
  <2>2. portOpen => silence < HeartBeat
    BY MotorLinkAssumption DEF LinkInv, TypeOK
  <2>3. silence \in Nat /\ HeartBeat \in Nat
    BY MotorLinkAssumption DEF LinkInv, TypeOK
  <2>4. portOpen => silence' = silence
    BY <2>1, <2>2, <2>3
  <2> QED BY <1>6, <2>4 DEF CheckHealth, Quiet, hostVars, lineVars
<1>7. CASE Lose
  <2>1. silence \in Nat /\ losses \in Nat
    BY MotorLinkAssumption DEF LinkInv, TypeOK
  <2>2. portOpen => awaitingResponse
    BY <1>7 DEF Lose, LinkInv, Alternates, Quiet
  <2>3. toHost' # <<>> => toHost # <<>>
    BY <1>7 DEF Lose, LinkInv, Alternates
  <2> QED BY <1>7, <2>1, <2>2, <2>3 DEF Lose, hostVars, boardVars
<1>8. CASE Tick
  <2>1. silence \in Nat /\ losses \in Nat
    BY MotorLinkAssumption DEF LinkInv, TypeOK
  <2>2. portOpen => late'
    BY <1>8 DEF Tick, LinkInv, Alternates
  <2> QED BY <1>8, <2>1, <2>2 DEF Tick, Quiet, lineVars
<1>9. CASE Crash
  BY <1>9 DEF Crash
<1>10. CASE Restart
  <2>1. CASE portOpen' = TRUE /\ BoardReset
    <3>1. silence' = 0 /\ losses' = 0 /\ awaitingResponse' = awaitingResponse
      BY <1>10, <2>1 DEF Restart, BoardReset
    <3>2. ~awaitingResponse
      BY <1>10 DEF Restart, LinkInv, Alternates
    <3> QED BY <3>1, <3>2
  <2>2. CASE UNCHANGED <<portOpen, boardVars, lineVars>>
    BY <1>10, <2>2 DEF Restart, LinkInv, Alternates
  <2> QED BY <1>10, <2>1, <2>2 DEF Restart
<1> QED BY <1>1, <1>2, <1>3, <1>4, <1>5, <1>6, <1>7, <1>8, <1>9, <1>10
        DEF Next, HostStep, BoardStep, BoardTakes, Environment

\* A host that is connected is never cut off by the board's heartbeat as long as
\* it loses fewer than HeartBeat frames in a row.
THEOREM HeartbeatIsQuiet ==
    ASSUME "delay" \notin Faults
    PROVE  Spec => []NoFalseHeartbeat
<1>1. Init => SilenceIsLoss
  BY DEF Init, SilenceIsLoss
<1>2. TypeOK /\ Alternates /\ SilenceIsLoss /\ [Next]_vars => SilenceIsLoss'
  BY StepSilence DEF LinkInv
<1>3. TypeOK /\ SilenceIsLoss => NoFalseHeartbeat
  BY MotorLinkAssumption DEF TypeOK, SilenceIsLoss, NoFalseHeartbeat
<1> QED BY <1>1, <1>2, <1>3, TypeCorrect, LinkAlternates, PTL DEF Spec
-----------------------------------------------------------------------------
(* The ramp                                                                *)

\* What RampInvariant proves inductively.
RampInv == /\ LinkInv /\ KilledIsCut
           /\ RampInStep /\ BeliefTracks /\ NoPortNoSpeed

\* The part of it that is about the thrusters.
RampGoal == RampInStep /\ BeliefTracks /\ NoPortNoSpeed

\* The speed of a side is what its own bridge is given.
LEMMA AppliedAt == \A p : \A s \in Side : Applied(p)[s] = Decode(p[s])
BY DEF Applied

\* At rest both sides stand at 0, and nothing is out of step with itself.
LEMMA AtRest ==
    /\ \A s \in Side : Applied(AllOff)[s] = 0 /\ Stopped[s] = 0
    /\ \A a \in Int : Within(a, a, MaxStep)
<1>1. \A s \in Side : Applied(AllOff)[s] = 0 /\ Stopped[s] = 0
  BY AppliedOff DEF Stopped
<1>2. \A a \in Int : Within(a, a, MaxStep)
  BY MotorFramesAssumption DEF Within
<1> QED BY <1>1, <1>2

\* A transmission keeps both ends in step if its message does.
LEMMA TransmitRamp ==
    ASSUME RampInv, NEW m \in Request, Transmit(m), ~awaitingResponse \/ late,
           speed' = speed,
           m.type = "D" =>
             \A s \in Side : Within(Decode(m.duty[s]), speed[s], MaxStep),
           portOpen /\ m.type = "D" /\ motorOverload = {} =>
             \A s \in Side \ cut :
                 Within(Decode(m.duty[s]), Applied(pwm)[s], MaxStep),
           portOpen /\ m.type # "D" /\ motorOverload = {} =>
             \A s \in Side \ cut : Applied(pwm)[s] = speed[s]
    PROVE  RampGoal'
<1> USE DEF RampInv, RampGoal, RampInStep, BeliefTracks, NoPortNoSpeed, Pending
<1>1. CASE TransmitOpen(m)
  <2>1. toBoard = <<>> /\ toHost = <<>>
    BY <1>1 DEF TransmitOpen, LinkInv, Alternates, Quiet
  <2>2. toBoard' = <<m>> /\ toHost' = <<>>
    BY <1>1, <2>1, Singleton DEF TransmitOpen
  <2>3. Head(toBoard') = m
    BY <2>2, Singleton
  <2>4. UNCHANGED <<pwm, motorOverload, cut, portOpen>>
    BY <1>1 DEF TransmitOpen, boardVars
  <2>5. currentMessage' = m /\ awaitingResponse' = TRUE
    BY DEF Transmit
  <2> QED BY <1>1, <2>2, <2>3, <2>4, <2>5 DEF TransmitOpen
<1>2. CASE TransmitReopen(m)
  <2>1. speed = Stopped
    BY <1>2 DEF TransmitReopen
  <2>2. toBoard' = <<m>> /\ toHost' = <<>> /\ pwm' = AllOff /\ cut' = {}
    BY <1>2 DEF TransmitReopen, BoardReset
  <2>3. Head(toBoard') = m
    BY <2>2, Singleton
  <2>4. \A s \in Side : Applied(pwm')[s] = 0 /\ speed[s] = 0
    BY <2>1, <2>2, AtRest
  <2>5. currentMessage' = m /\ awaitingResponse' = TRUE /\ portOpen' = TRUE
    BY <1>2 DEF Transmit, TransmitReopen
  <2>6. Within(0, 0, MaxStep)
    BY AtRest
  <2> QED BY <2>2, <2>3, <2>4, <2>5, <2>6
<1>3. CASE TransmitFails
  <2>1. UNCHANGED <<pwm, motorOverload, cut, portOpen, toBoard, toHost>>
    BY <1>3 DEF TransmitFails, boardVars, lineVars
  <2>2. ~portOpen /\ currentMessage' = m
    BY <1>3 DEF TransmitFails, Transmit
  <2> QED BY <2>1, <2>2
<1> QED BY <1>1, <1>2, <1>3 DEF Transmit

\* The node asks for at most one ramp step more than it believes.
LEMMA HostRamp ==
    ASSUME RampInv, HostStep
    PROVE  RampGoal'
<1> USE DEF RampInv
<1>1. CASE CheckMotor
  <2> DEFINE next == [s \in Side |-> RampTo(speed[s], targetSpeed[s])]
             m == DriveMsg(next)
  <2>1. /\ next \in [Side -> Speed]
        /\ \A s \in Side : Within(next[s], speed[s], MaxStep)
    BY RampBounds DEF LinkInv, TypeOK
  <2>2. m \in Request /\ Applied(m.duty) = next
    BY <2>1, AppliedDriveMsg DEF Request
  <2>3. \A s \in Side : Decode(m.duty[s]) = next[s]
    BY <2>2, AppliedAt
  <2>4. Transmit(m) /\ ~awaitingResponse /\ speed' = speed
    BY <1>1 DEF CheckMotor
  <2>5. m.type = "D"
    BY DEF DriveMsg
  <2>6. portOpen /\ motorOverload = {} =>
          \A s \in Side \ cut : Applied(pwm)[s] = speed[s]
    BY <2>4 DEF RampInStep, Pending
  <2> HIDE DEF next, m
  <2> QED BY <2>1, <2>2, <2>3, <2>4, <2>5, <2>6, TransmitRamp
<1>2. CASE \E q \in Queries : CheckQuery(q)
  <2>1. PICK q \in Queries : CheckQuery(q)
    BY <1>2
  <2>2. q \in Request /\ q.type # "D"
    BY DEF Queries, Request
  <2>3. Transmit(q) /\ ~awaitingResponse /\ speed' = speed
    BY <2>1 DEF CheckQuery
  <2>4. portOpen /\ motorOverload = {} =>
          \A s \in Side \ cut : Applied(pwm)[s] = speed[s]
    BY <2>3 DEF RampInStep, Pending
  <2> QED BY <2>2, <2>3, <2>4, TransmitRamp
<1>3. CASE Resend
  <2>1. /\ currentMessage \in Request /\ Transmit(currentMessage)
        /\ awaitingResponse /\ late /\ speed' = speed
    BY <1>3 DEF Resend, LinkInv, TypeOK
  <2> QED BY <2>1, TransmitRamp DEF RampInStep, Pending
<1>4. CASE ProcessResponse
  <2>1. /\ TakeResponse /\ toHost # <<>> /\ portOpen
        /\ Answers(Head(toHost), currentMessage)
    BY <1>4 DEF ProcessResponse, DriveEchoed, CurrentReported, VoltageReported,
                ErrorReported, MismatchIgnored, TakeResponse, LinkInv, Alternates
  <2>2. /\ toHost' = <<>> /\ toBoard' = <<>>
        /\ UNCHANGED <<pwm, motorOverload, cut, portOpen>>
    BY <2>1 DEF TakeResponse, LinkInv, Alternates, boardVars
  <2>3. CASE DriveEchoed
    <3>1. \A s \in Side \ cut : Applied(pwm)[s] = speed'[s]
      BY <2>3, AppliedAt DEF DriveEchoed, TakeResponse, RampInStep
    <3>2. awaitingResponse' = FALSE
      BY <2>3 DEF DriveEchoed, Settle
    <3>3. \A s \in Side : Applied(pwm)[s] \in Int
      BY AppliedSpeed, MotorFramesAssumption DEF LinkInv, TypeOK, Speed
    <3> QED BY <2>1, <2>2, <3>1, <3>2, <3>3, AtRest
            DEF RampGoal, RampInStep, BeliefTracks, NoPortNoSpeed, Pending
  <2>4. CASE ErrorReported
    <3>1. motorOverload # {} \/ cut = Side
      BY <2>4 DEF ErrorReported, TakeResponse, RampInStep
    <3>2. awaitingResponse' = FALSE /\ speed' = speed
      BY <2>4 DEF ErrorReported
    <3> QED BY <2>1, <2>2, <3>1, <3>2
            DEF RampGoal, RampInStep, BeliefTracks, NoPortNoSpeed, Pending
  <2>5. CASE CurrentReported \/ VoltageReported
    <3>1. ~Pending /\ awaitingResponse' = FALSE /\ speed' = speed
      BY <2>5 DEF CurrentReported, VoltageReported, Settle, Pending
    <3> QED BY <2>1, <2>2, <3>1
            DEF RampGoal, RampInStep, BeliefTracks, NoPortNoSpeed, Pending
  <2>6. CASE MismatchIgnored
    BY <2>1, <2>6 DEF MismatchIgnored, Answers
  <2> QED BY <1>4, <2>3, <2>4, <2>5, <2>6 DEF ProcessResponse
<1>5. CASE Receive \/ DrainDone \/ MotorNotDue \/ QueryNotDue \/ SpinEnds
  BY <1>5 DEF RampGoal, RampInStep, BeliefTracks, NoPortNoSpeed, Pending,
              Receive, DrainDone, MotorNotDue, QueryNotDue, SpinEnds,
              boardVars, lineVars
<1> QED BY <1>1, <1>2, <1>3, <1>4, <1>5 DEF HostStep

\* The board applies what was asked, refuses it, or cuts, and says which.
LEMMA BoardRamp ==
    ASSUME RampInv, BoardStep
    PROVE  RampGoal'
<1> USE DEF RampInv, RampGoal
<1>1. ASSUME NEW t, TakePacket(t), NEW r, Reply(r)
      PROVE  /\ toBoard # <<>> /\ toBoard' = <<>>
             /\ toHost' # <<>> => toHost' = <<r>> /\ Head(toHost') = r
             /\ UNCHANGED <<portOpen, awaitingResponse, currentMessage, speed,
                            motorOverload>>
             /\ portOpen => awaitingResponse /\ Head(toBoard) = currentMessage
             /\ Head(toBoard).type = t
  <2>1. toHost = <<>> /\ toBoard' = <<>>
    BY <1>1 DEF TakePacket, LinkInv, Alternates
  <2>2. toHost' = IF portOpen THEN <<r>> ELSE <<>>
    BY <1>1, <2>1, Singleton DEF Reply
  <2>3. Head(<<r>>) = r
    BY Singleton
  <2>4. portOpen => awaitingResponse /\ Head(toBoard) = currentMessage
    BY <1>1 DEF TakePacket, LinkInv, Alternates, Quiet
  <2> QED BY <1>1, <2>1, <2>2, <2>3, <2>4 DEF TakePacket, hostVars
<1>2. CASE BoardDrives
  <2> DEFINE duty == Head(toBoard).duty
  <2>1. TakePacket("D") /\ Reply([type |-> "d", duty |-> duty])
    BY <1>2 DEF BoardDrives
  <2>2. /\ Head(toBoard) \in Request /\ duty \in [Side -> Duty]
    BY <2>1, HeadTailProperties, RequestFields DEF TakePacket, LinkInv, TypeOK
  <2>3. pwm' = duty /\ cut' = {}
    BY <1>2 DEF BoardDrives
  <2>4. portOpen => Pending /\ currentMessage.duty = duty
    BY <1>1, <2>1 DEF Pending
  <2>5. \A s \in Side : Applied(pwm')[s] = Decode(duty[s])
    BY <2>3, AppliedAt
  <2>6. \A s \in Side : Decode(duty[s]) \in Int
    BY <2>2, DecodeSpeed, MotorFramesAssumption DEF Speed
  <2>7. portOpen => BeliefTracks'
    BY <1>1, <2>1, <2>4, <2>5 DEF BeliefTracks, RampInStep
  <2>8. \A s \in Side :
          portOpen => Within(Decode(currentMessage.duty[s]), Applied(pwm')[s],
                             MaxStep)
    BY <2>4, <2>5, <2>6, AtRest
  <2>9. [type |-> "d", duty |-> duty].duty = duty
    OBVIOUS
  <2>10. toHost' # <<>> => Head(toHost').duty = duty /\ Head(toHost').type = "d"
    BY <1>1, <2>1
  <2>11. UNCHANGED <<portOpen, awaitingResponse, currentMessage, speed>>
    BY <1>1, <2>1
  <2>12. toBoard' = <<>>
    BY <1>1, <2>1
  <2> HIDE DEF duty
  <2>13. RampInStep'
    BY <2>3, <2>4, <2>8, <2>10, <2>11, <2>12 DEF RampInStep, Pending
  <2> QED BY <2>7, <2>11, <2>13 DEF BeliefTracks, NoPortNoSpeed
<1>3. CASE BoardRefuses
  <2>1. TakePacket("D") /\ Reply([type |-> "e"]) /\ UNCHANGED <<pwm, cut>>
    BY <1>3 DEF BoardRefuses
  <2>2. motorOverload # {} \/ cut = Side
    BY <1>3 DEF BoardRefuses, KilledIsCut
  <2> QED BY <1>1, <2>1, <2>2
          DEF RampInStep, BeliefTracks, NoPortNoSpeed, Pending
<1>4. CASE BoardReportsCurrent \/ BoardReportsVoltage
  <2>1. PICK t, r : /\ TakePacket(t) /\ Reply(r) /\ r.type \in {"c", "v"}
                    /\ UNCHANGED <<pwm, cut>>
    BY <1>4 DEF BoardReportsCurrent, BoardReportsVoltage
  <2> QED BY <1>1, <2>1 DEF RampInStep, BeliefTracks, NoPortNoSpeed, Pending
<1>5. CASE NoPacket
  BY <1>5 DEF NoPacket, RampInStep, BeliefTracks, NoPortNoSpeed, Pending,
              hostVars, lineVars
<1>6. CASE \E over \in SUBSET Side : CheckHealth(over)
  <2>1. PICK over \in SUBSET Side : CheckHealth(over)
    BY <1>6
  <2>2. CutBy(over) \subseteq Side /\ cut \subseteq Side
    BY DEF CutBy, LinkInv, TypeOK
  <2>3. cut' = cut \cup CutBy(over) /\ motorOverload' = motorOverload \cup over
    BY <2>1 DEF CheckHealth
  <2>4. \A s \in Side \ cut' : s \notin cut /\ pwm'[s] = pwm[s]
    BY <2>1, <2>3 DEF CheckHealth
  <2>5. \A s \in Side \ cut' : Applied(pwm')[s] = Applied(pwm)[s]
    BY <2>4, AppliedAt
  <2>6. motorOverload' = {} => motorOverload = {}
    BY <2>3
  <2>7. cut = Side => cut' = Side
    BY <2>2, <2>3
  <2>8. UNCHANGED <<portOpen, awaitingResponse, currentMessage, speed, toBoard,
                    toHost>>
    BY <2>1 DEF CheckHealth, hostVars, lineVars
  <2> QED BY <2>4, <2>5, <2>6, <2>7, <2>8
          DEF RampInStep, BeliefTracks, NoPortNoSpeed, Pending
<1> QED BY <1>2, <1>3, <1>4, <1>5, <1>6 DEF BoardStep, BoardTakes

\* A lost frame leaves the node where its belief was still right.
LEMMA EnvironmentRamp ==
    ASSUME "delay" \notin Faults, RampInv, Environment
    PROVE  RampGoal'
<1> USE DEF RampInv, RampGoal
<1>1. CASE FlipKill \/ Tick
  BY <1>1 DEF FlipKill, Tick, RampInStep, BeliefTracks, NoPortNoSpeed, Pending,
              hostVars, boardVars, lineVars
<1>2. CASE Lose
  <2>1. /\ toBoard' # <<>> => toBoard' = toBoard
        /\ toHost' # <<>> => toHost' = toHost
    BY <1>2 DEF Lose, LinkInv, Alternates
  <2> QED BY <1>2, <2>1 DEF Lose, RampInStep, BeliefTracks, NoPortNoSpeed,
                            Pending, hostVars, boardVars
<1>3. CASE Crash
  BY <1>3 DEF Crash, RampInStep, BeliefTracks, NoPortNoSpeed, Pending, boardVars
<1>4. CASE Restart
  <2>1. ~portOpen /\ ~awaitingResponse
    BY <1>4 DEF Restart, LinkInv, Alternates
  <2>2. speed = Stopped
    BY <2>1 DEF NoPortNoSpeed
  <2>3. UNCHANGED <<speed, awaitingResponse>>
    BY <1>4 DEF Restart
  <2>4. CASE BoardReset /\ toBoard' = <<>>
    <3>1. \A s \in Side : Applied(pwm')[s] = 0 /\ speed'[s] = 0
      BY <2>2, <2>3, <2>4, AtRest DEF BoardReset
    <3> QED BY <2>1, <2>2, <2>3, <2>4, <3>1, AtRest
            DEF BoardReset, RampInStep, BeliefTracks, NoPortNoSpeed, Pending
  <2>5. CASE UNCHANGED <<portOpen, boardVars, lineVars>>
    BY <2>1, <2>2, <2>3, <2>5 DEF RampInStep, BeliefTracks, NoPortNoSpeed,
                                  Pending, LinkInv, Alternates, boardVars, lineVars
  <2> QED BY <1>4, <2>4, <2>5 DEF Restart
<1> QED BY <1>1, <1>2, <1>3, <1>4 DEF Environment

\* Everything starts at rest.
LEMMA InitRamp == Init => RampGoal
<1> SUFFICES ASSUME Init PROVE RampGoal
  OBVIOUS
<1>1. /\ toBoard = <<>> /\ toHost = <<>> /\ awaitingResponse = FALSE
      /\ speed = Stopped /\ pwm = AllOff
  BY DEF Init
<1>2. \A s \in Side : Applied(pwm)[s] = 0 /\ speed[s] = 0
  BY <1>1, AtRest
<1> QED BY <1>1, <1>2, AtRest
        DEF RampGoal, RampInStep, BeliefTracks, NoPortNoSpeed, Pending

\* Every step keeps host and board within one ramp step of each other.
LEMMA StepRamp ==
    ASSUME "delay" \notin Faults, RampInv, [Next]_vars
    PROVE  RampGoal'
<1>1. CASE (\E c \in Commands : SetMotorSpeed(c)) \/ UNCHANGED vars
  BY <1>1 DEF RampInv, RampGoal, RampInStep, BeliefTracks, NoPortNoSpeed,
              Pending, SetMotorSpeed, vars, hostVars, boardVars, lineVars
<1> QED BY <1>1, HostRamp, BoardRamp, EnvironmentRamp DEF Next

\* As long as no answer is later than RESEND_TIMEOUT, whatever CheckMotor()
\* asks for, and whatever it believes, is within MAX_STEP of what the board does.
THEOREM RampInvariant ==
    ASSUME "delay" \notin Faults
    PROVE  Spec => []RampInv
<1>1. TypeOK /\ Alternates /\ KilledIsCut /\ RampGoal /\ [Next]_vars => RampGoal'
  BY StepRamp DEF RampInv, RampGoal, LinkInv
<1>2. TypeOK /\ Alternates /\ KilledIsCut /\ RampGoal => RampInv
  BY DEF RampInv, RampGoal, LinkInv
<1> QED BY <1>1, <1>2, InitRamp, TypeCorrect, LinkAlternates, KillSwitchHolds,
           PTL DEF Spec

\* The speed the host last heard of is within a ramp step of the speed applied,
\* on every side not cut behind its back.
THEOREM BeliefIsTrue ==
    ASSUME "delay" \notin Faults
    PROVE  Spec => []BeliefTracks
<1>1. RampInv => BeliefTracks
  BY DEF RampInv
<1> QED BY <1>1, RampInvariant, PTL

-----------------------------------------------------------------------------
(* Host, line and board together implement the ramped thruster             *)

\* Every step of host, board or line is a step of the ramped thruster, or none.
LEMMA StepRefines ==
    ASSUME RampInv, [Next]_vars
    PROVE  [Abstract!Next]_(Abstract!thrusterVars)
<1> DEFINE Still == UNCHANGED <<pwm, cut>>
<1>1. ASSUME Still PROVE UNCHANGED Abstract!thrusterVars
  BY <1>1 DEF Abstract!thrusterVars, Applied
<1>2. ASSUME BoardReset PROVE Abstract!Next
  <2>1. pwm' = AllOff /\ cut' = {}
    BY <1>2 DEF BoardReset
  <2>2. Applied(pwm') = Stopped
    BY <2>1, AppliedOff
  <2> QED BY <2>1, <2>2 DEF Abstract!Next, Abstract!Reset, Abstract!Stopped,
                            Abstract!Side, Stopped, Side
<1>3. CASE BoardDrives
  <2>1. /\ toBoard # <<>> /\ Head(toBoard).type = "D" /\ motorOverload = {}
        /\ pwm' = Head(toBoard).duty /\ cut' = {}
    BY <1>3 DEF BoardDrives, TakePacket
  <2>2. Head(toBoard).duty \in [Side -> Duty]
    BY <2>1, HeadTailProperties, RequestFields DEF RampInv, LinkInv, TypeOK
  <2>3. Applied(pwm') \in [Side -> Speed]
    BY <2>1, <2>2, AppliedSpeed
  <2>4. \A s \in Side \ cut : Within(Applied(pwm')[s], Applied(pwm)[s], MaxStep)
    BY <2>1, AppliedAt DEF RampInv, RampInStep
  <2>5. Abstract!Drive
    BY <2>1, <2>3, <2>4 DEF Abstract!Drive, Abstract!Side, Abstract!Speed,
                            Abstract!Within, Side, Speed, Within
  <2> QED BY <2>5 DEF Abstract!Next
<1>4. CASE \E over \in SUBSET Side : CheckHealth(over)
  <2>1. PICK over \in SUBSET Side : CheckHealth(over)
    BY <1>4
  <2> DEFINE S == CutBy(over)
  <2>2. S \in SUBSET Side
    BY DEF CutBy
  <2>3. /\ pwm' = [s \in Side |-> IF s \in S THEN Off ELSE pwm[s]]
        /\ cut' = cut \cup S
    BY <2>1 DEF CheckHealth
  <2> HIDE DEF S
  <2>5. Applied(pwm') = [s \in Side |-> IF s \in S THEN 0 ELSE Applied(pwm)[s]]
    BY <2>3, OffIsZero DEF Applied
  <2>6. Abstract!Cut(S)
    BY <2>3, <2>5 DEF Abstract!Cut, Abstract!Side, Side
  <2> QED BY <2>2, <2>6 DEF Abstract!Next, Abstract!Side, Side
<1>5. CASE BoardRefuses \/ BoardReportsCurrent \/ BoardReportsVoltage \/ NoPacket
             \/ UNCHANGED vars
  <2>1. Still
    BY <1>5 DEF BoardRefuses, BoardReportsCurrent, BoardReportsVoltage, NoPacket,
                vars, boardVars
  <2> QED BY <1>1, <2>1
<1>6. CASE HostStep \/ Environment \/ \E c \in Commands : SetMotorSpeed(c)
  <2>1. Still \/ BoardReset
    BY <1>6, HostLeavesBoard
  <2> QED BY <1>1, <1>2, <2>1
<1> QED BY <1>3, <1>4, <1>5, <1>6 DEF Next, BoardStep, BoardTakes

\* Whatever frames are lost, whenever the node crashes and whatever the board
\* cuts: a thruster's speed only moves by ramp steps, cuts and resets.
THEOREM LinkImplementsThruster ==
    ASSUME "delay" \notin Faults
    PROVE  Spec => RefinesThruster
<1>1. Init => Abstract!Init
  BY AppliedOff DEF Init, Abstract!Init, Stopped, Abstract!Stopped,
                    Abstract!Side, Side
<1>2. RampInv /\ [Next]_vars => [Abstract!Next]_(Abstract!thrusterVars)
  BY StepRefines
<1> QED BY <1>1, <1>2, RampInvariant, PTL DEF Spec, RefinesThruster, Abstract!Spec
=============================================================================
