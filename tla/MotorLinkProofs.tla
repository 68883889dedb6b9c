--------------------------- MODULE MotorLinkProofs ---------------------------
(***************************************************************************)
(* Theorems about MotorLink for every MaxByte, MaxStep, HeartBeat, bound   *)
(* and set of commands.                                                    *)
(***************************************************************************)
EXTENDS MotorLink, SequenceTheorems, TLAPS

-----------------------------------------------------------------------------
(* The arithmetic on speeds and the frames                                 *)

\* A clamped value lies within the bound (setMotorSpeed, CheckMotor).
LEMMA ClampBounds ==
    ASSUME NEW v \in Int, NEW m \in Nat
    PROVE  Clamp(v, m) \in -m..m
BY DEF Clamp

\* filter() brings any command into the range a data byte can carry.
LEMMA FilterSpeed ==
    ASSUME NEW v \in Int
    PROVE  Filter(v) \in Speed
<1>1. Clamp(v, MaxByte) \in -MaxByte..MaxByte
  BY ClampBounds, MotorFramesAssumption
<1> QED BY <1>1, MotorFramesAssumption DEF Filter, Speed

\* The next set speed of CheckMotor() is a legal speed, one step away at most.
LEMMA RampBounds ==
    ASSUME NEW c \in Speed, NEW t \in Speed
    PROVE  RampTo(c, t) \in Speed /\ Within(RampTo(c, t), c, MaxStep)
BY MotorFramesAssumption DEF RampTo, Clamp, Speed, Within

\* A small number is its own remainder: the cast to unsigned char loses nothing.
LEMMA SmallMod ==
    ASSUME NEW v \in Nat, NEW m \in Nat, v <= m
    PROVE  v % (m + 1) = v
BY SMT

\* createMessageFromSpeed() yields two bytes, one of which is zero, and what
\* processResponse() reads back from an echo of them is the speed again.
LEMMA EncodeDecode ==
    ASSUME NEW v \in Speed
    PROVE  /\ Encode(v) \in Duty
           /\ Encode(v).fwd = 0 \/ Encode(v).rev = 0
           /\ Decode(Encode(v)) = v
<1> USE MotorFramesAssumption DEF Speed, Encode, Decode, Duty, Byte
<1>1. CASE v > 0
  <2>1. v % (MaxByte + 1) = v
    BY <1>1, SmallMod
  <2> QED BY <1>1, <2>1
<1>2. CASE ~(v > 0)
  <2>1. (-v) % (MaxByte + 1) = -v
    BY <1>2, SmallMod
  <2> QED BY <1>2, <2>1
<1> QED BY <1>1, <1>2

\* Whatever bytes come back, the speed read from them is in range.
LEMMA DecodeSpeed ==
    ASSUME NEW d \in Duty
    PROVE  Decode(d) \in Speed
BY MotorFramesAssumption DEF Decode, Duty, Byte, Speed

\* The board's echo of a command is what the host set.
LEMMA AppliedDriveMsg ==
    ASSUME NEW f \in [Side -> Speed]
    PROVE  /\ DriveMsg(f) \in DriveFrame
           /\ Applied(DriveMsg(f).duty) = f
<1>1. \A s \in Side : Encode(f[s]) \in Duty /\ Decode(Encode(f[s])) = f[s]
  BY EncodeDecode
<1>2. [s \in Side |-> Encode(f[s])] \in [Side -> Duty]
  BY <1>1
<1> QED BY <1>1, <1>2 DEF DriveMsg, DriveFrame, Applied

\* What a frame of each type carries.
LEMMA RequestFields ==
    ASSUME NEW m \in Request \cup {NoMessage}
    PROVE  /\ m.type = "C" => m.side \in Side
           /\ m.type = "D" => m.duty \in [Side -> Duty]
<1>1. CASE m \in DriveFrame
  BY <1>1 DEF DriveFrame
<1>2. CASE m \in [type : {"C"}, side : Side]
  BY <1>2
<1>3. CASE m \in [type : {"V"}]
  BY <1>3
<1>4. CASE m = NoMessage
  BY <1>4 DEF NoMessage
<1> QED BY <1>1, <1>2, <1>3, <1>4 DEF Request

\* A reply carries the fields its reader expects: sendMsg() in the pde.
LEMMA ResponseFields ==
    ASSUME NEW r \in Response
    PROVE  /\ r.type = "c" => r.side \in Side
           /\ r.type = "d" => r.duty \in [Side -> Duty]
<1>1. CASE r \in [type : {"d"}, duty : [Side -> Duty]]
  BY <1>1
<1>2. CASE r \in [type : {"c"}, side : Side]
  BY <1>2
<1>3. CASE r \in [type : {"v", "e"}]
  BY <1>3
<1> QED BY <1>1, <1>2, <1>3 DEF Response

\* What the duties of both bridges amount to is a speed each.
LEMMA AppliedSpeed ==
    ASSUME NEW p \in [Side -> Duty]
    PROVE  Applied(p) \in [Side -> Speed]
BY DecodeSpeed DEF Applied

\* A bridge with both inputs at zero stands still.
LEMMA OffIsZero == Decode(Off) = 0
<1>1. Off.fwd = 0 /\ Off.rev = 0
  BY DEF Off
<1> QED BY <1>1 DEF Decode

\* After checkHealth() has zeroed every pin, both thrusters stand still.
LEMMA AppliedOff == Applied(AllOff) = Stopped
BY OffIsZero DEF Applied, AllOff, Stopped

-----------------------------------------------------------------------------
(* Type correctness                                                        *)

\* The counters start within their bounds.
LEMMA ZeroInBounds == 0 \in 0..MaxLosses /\ 0 \in 0..HeartBeat
BY MotorLinkAssumption

\* The fields a transmission changes keep their types, whether the port is
\* open, opens, or does not.
LEMMA TransmitType ==
    ASSUME TypeOK, NEW m \in Request, Transmit(m),
           pc' \in {"query", "resend", "receive"},
           UNCHANGED <<speed, targetSpeed, published, killPin>>
    PROVE  TypeOK'
<1>1. CASE TransmitOpen(m)
  <2>1. toBoard' \in Seq(Request)
    BY <1>1, AppendProperties DEF TransmitOpen, TypeOK
  <2> QED BY <1>1, <2>1 DEF TypeOK, Transmit, TransmitOpen, boardVars
<1>2. CASE TransmitReopen(m)
  <2>1. pwm' \in [Side -> Duty]
    BY <1>2, MotorFramesAssumption
    DEF TransmitReopen, BoardReset, AllOff, Off, Duty, Byte
  <2>2. toBoard' \in Seq(Request) /\ toHost' \in Seq(Response)
    BY <1>2 DEF TransmitReopen, BoardReset
  <2> QED BY <1>2, <2>1, <2>2, ZeroInBounds
          DEF TypeOK, Transmit, TransmitReopen, BoardReset
<1>3. CASE TransmitFails
  BY <1>3 DEF TypeOK, Transmit, TransmitFails, boardVars, lineVars
<1> QED BY <1>1, <1>2, <1>3 DEF Transmit

\* Host, board and line start with the right types.
LEMMA InitType == Init => TypeOK
<1> SUFFICES ASSUME Init PROVE TypeOK
  OBVIOUS
<1>1. pwm \in [Side -> Duty]
  BY MotorFramesAssumption DEF Init, AllOff, Off, Duty, Byte
<1>2. speed \in [Side -> Speed] /\ targetSpeed \in [Side -> Speed]
  BY MotorFramesAssumption DEF Init, Stopped, Speed
<1>3. toBoard \in Seq(Request) /\ toHost \in Seq(Response)
  BY DEF Init
<1> QED BY <1>1, <1>2, <1>3, ZeroInBounds DEF Init, TypeOK

\* Every step of the node (spinOnce() and what it calls) keeps the types.
LEMMA HostType ==
    ASSUME TypeOK, HostStep
    PROVE  TypeOK'
<1>1. CASE Receive
  BY <1>1 DEF TypeOK, Receive, boardVars, lineVars
<1>2. CASE ProcessResponse
  <2>1. ASSUME TakeResponse
        PROVE  Head(toHost) \in Response /\ toHost' \in Seq(Response)
    BY <2>1, HeadTailProperties DEF TakeResponse, TypeOK
  <2>2. CASE DriveEchoed
    <3>1. Head(toHost).duty \in [Side -> Duty]
      BY <2>1, <2>2, ResponseFields DEF DriveEchoed
    <3>2. speed' \in [Side -> Speed]
      BY <2>2, <3>1, AppliedSpeed DEF DriveEchoed
    <3> QED BY <2>1, <2>2, <3>2, ZeroInBounds
            DEF TypeOK, DriveEchoed, TakeResponse, Settle, boardVars
  <2>3. CASE CurrentReported
    <3>1. Head(toHost).side \in Side
      BY <2>1, <2>3, ResponseFields DEF CurrentReported
    <3>2. currentMessage.side \in Side
      BY <2>3, RequestFields DEF CurrentReported, TypeOK
    <3> QED BY <2>1, <2>3, <3>1, <3>2, ZeroInBounds
            DEF TypeOK, CurrentReported, TakeResponse, Settle, boardVars
  <2>4. CASE VoltageReported
    BY <2>1, <2>4, ZeroInBounds
    DEF TypeOK, VoltageReported, TakeResponse, Settle, boardVars
  <2>5. CASE ErrorReported
    BY <2>1, <2>5, ZeroInBounds
    DEF TypeOK, ErrorReported, TakeResponse, boardVars
  <2>6. CASE MismatchIgnored
    BY <2>1, <2>6, ZeroInBounds
    DEF TypeOK, MismatchIgnored, TakeResponse, boardVars
  <2> QED BY <1>2, <2>2, <2>3, <2>4, <2>5, <2>6 DEF ProcessResponse
<1>3. CASE DrainDone
  BY <1>3 DEF TypeOK, DrainDone, boardVars, lineVars
<1>4. CASE CheckMotor
  <2> DEFINE next == [s \in Side |-> RampTo(speed[s], targetSpeed[s])]
  <2>1. next \in [Side -> Speed]
    BY RampBounds DEF TypeOK
  <2>2. DriveMsg(next) \in Request
    BY <2>1, AppliedDriveMsg DEF Request
  <2>3. Transmit(DriveMsg(next))
    BY <1>4 DEF CheckMotor
  <2> HIDE DEF next
  <2> QED BY <1>4, <2>2, <2>3, TransmitType DEF CheckMotor
<1>5. CASE MotorNotDue
  BY <1>5 DEF TypeOK, MotorNotDue, boardVars, lineVars
<1>6. CASE \E q \in Queries : CheckQuery(q)
  <2>1. Queries \subseteq Request
    BY DEF Queries, Request
  <2> QED BY <1>6, <2>1, TransmitType DEF CheckQuery
<1>7. CASE QueryNotDue
  BY <1>7 DEF TypeOK, QueryNotDue, boardVars, lineVars
<1>8. CASE Resend
  <2>1. currentMessage \in Request
    BY <1>8 DEF Resend, TypeOK
  <2> QED BY <1>8, <2>1, TransmitType DEF Resend
<1>9. CASE SpinEnds
  BY <1>9 DEF TypeOK, SpinEnds, boardVars, lineVars
<1> QED BY <1>1, <1>2, <1>3, <1>4, <1>5, <1>6, <1>7, <1>8, <1>9 DEF HostStep

\* So does every step of the board (loop() and checkHealth()).
LEMMA BoardType ==
    ASSUME TypeOK, BoardStep
    PROVE  TypeOK'
<1>1. ASSUME NEW t, TakePacket(t)
      PROVE  Head(toBoard) \in Request /\ toBoard' \in Seq(Request)
  BY <1>1, HeadTailProperties DEF TakePacket, TypeOK
<1>2. ASSUME NEW r \in Response, Reply(r)
      PROVE  toHost' \in Seq(Response)
  BY <1>2, AppendProperties DEF Reply, TypeOK
<1>3. CASE BoardDrives
  <2>1. Head(toBoard).duty \in [Side -> Duty]
    BY <1>1, <1>3, RequestFields DEF BoardDrives, TakePacket
  <2>2. toHost' \in Seq(Response)
    BY <1>2, <1>3, <2>1 DEF BoardDrives, Response
  <2> QED BY <1>1, <1>3, <2>1, <2>2, ZeroInBounds
          DEF TypeOK, BoardDrives, TakePacket, hostVars
<1>4. CASE BoardRefuses
  <2>1. toHost' \in Seq(Response)
    BY <1>2, <1>4 DEF BoardRefuses, Response
  <2> QED BY <1>1, <1>4, <2>1, ZeroInBounds
          DEF TypeOK, BoardRefuses, TakePacket, hostVars
<1>5. CASE BoardReportsCurrent
  <2>1. Head(toBoard).side \in Side
    BY <1>1, <1>5, RequestFields DEF BoardReportsCurrent, TakePacket
  <2>2. toHost' \in Seq(Response)
    BY <1>2, <1>5, <2>1 DEF BoardReportsCurrent, Response
  <2> QED BY <1>1, <1>5, <2>2, ZeroInBounds
          DEF TypeOK, BoardReportsCurrent, TakePacket, hostVars
<1>6. CASE BoardReportsVoltage
  <2>1. toHost' \in Seq(Response)
    BY <1>2, <1>6 DEF BoardReportsVoltage, Response
  <2> QED BY <1>1, <1>6, <2>1, ZeroInBounds
          DEF TypeOK, BoardReportsVoltage, TakePacket, hostVars
<1>7. CASE NoPacket
  BY <1>7 DEF TypeOK, NoPacket, hostVars, lineVars
<1>8. CASE \E over \in SUBSET Side : CheckHealth(over)
  <2>1. PICK over \in SUBSET Side : CheckHealth(over)
    BY <1>8
  <2>2. pwm' \in [Side -> Duty]
    BY <2>1, MotorFramesAssumption
    DEF CheckHealth, TypeOK, Off, Duty, Byte
  <2>3. CutBy(over) \subseteq Side
    BY DEF CutBy
  <2> QED BY <2>1, <2>2, <2>3, ZeroInBounds
          DEF TypeOK, CheckHealth, hostVars, lineVars
<1> QED BY <1>3, <1>4, <1>5, <1>6, <1>7, <1>8 DEF BoardStep, BoardTakes

\* So does the environment: losses, crashes, time and the kill switch.
LEMMA EnvironmentType ==
    ASSUME TypeOK, Environment
    PROVE  TypeOK'
<1>1. CASE FlipKill
  BY <1>1 DEF TypeOK, FlipKill, hostVars, boardVars, lineVars
<1>2. CASE Lose
  <2>1. toBoard' \in Seq(Request) /\ toHost' \in Seq(Response)
    BY <1>2, HeadTailProperties DEF Lose, TypeOK
  <2> QED BY <1>2, <2>1, MotorLinkAssumption
          DEF TypeOK, Lose, hostVars, boardVars
<1>3. CASE Tick
  BY <1>3, MotorLinkAssumption DEF TypeOK, Tick, lineVars
<1>4. CASE Crash
  <2>1. Stopped \in [Side -> Speed]
    BY MotorFramesAssumption DEF Stopped, Speed
  <2>2. toHost' \in Seq(Response)
    BY <1>4 DEF Crash
  <2> QED BY <1>4, <2>1, <2>2 DEF TypeOK, Crash, boardVars
<1>5. CASE Restart
  <2>1. AllOff \in [Side -> Duty]
    BY MotorFramesAssumption DEF AllOff, Off, Duty, Byte
  <2>2. <<>> \in Seq(Request) /\ <<>> \in Seq(Response)
    OBVIOUS
  <2> QED BY <1>5, <2>1, <2>2, ZeroInBounds
          DEF TypeOK, Restart, BoardReset, boardVars, lineVars
<1> QED BY <1>1, <1>2, <1>3, <1>4, <1>5 DEF Environment

\* So does a new target speed, which setMotorSpeed() clamps.
LEMMA CommandType ==
    ASSUME TypeOK, NEW c \in Commands, SetMotorSpeed(c)
    PROVE  TypeOK'
<1>1. targetSpeed' \in [Side -> Speed]
  BY FilterSpeed, MotorLinkAssumption DEF SetMotorSpeed
<1> QED BY <1>1 DEF TypeOK, SetMotorSpeed, boardVars, lineVars

\* TypeOK is inductive by itself.
LEMMA StepType == TypeOK /\ [Next]_vars => TypeOK'
<1>1. ASSUME TypeOK, UNCHANGED vars
      PROVE  TypeOK'
  BY <1>1 DEF TypeOK, vars, hostVars, boardVars, lineVars
<1> QED BY <1>1, HostType, BoardType, EnvironmentType, CommandType DEF Next

\* Every variable of host, board and line keeps its type; in particular the
\* casts to unsigned char lose nothing and the heartbeat never ages past its limit.
THEOREM TypeCorrect == Spec => []TypeOK
<1> QED BY InitType, StepType, PTL DEF Spec
-----------------------------------------------------------------------------
(* The H bridges, under every fault                                        *)

\* What HBridgesSafe proves inductively: the frames under way are one-sided.
HBridgeInv == TypeOK /\ FramesOneSided /\ HBridgeSafe

\* createMessageFromSpeed() never asks for both directions of a side.
LEMMA DriveMsgOneSided ==
    ASSUME NEW f \in [Side -> Speed]
    PROVE  DriveMsg(f) \in SafeRequest
<1>1. \A s \in Side : Encode(f[s]).fwd = 0 \/ Encode(f[s]).rev = 0
  BY EncodeDecode
<1>2. DriveMsg(f) \in Request
  BY AppliedDriveMsg DEF Request
<1> QED BY <1>1, <1>2 DEF SafeRequest, OneSided, DriveMsg

\* transmit() only adds the frame it is given, or resets the board.
LEMMA TransmitOneSided ==
    ASSUME HBridgeInv, NEW m \in SafeRequest, Transmit(m)
    PROVE  FramesOneSided' /\ HBridgeSafe'
<1>1. CASE TransmitOpen(m)
  <2>1. toBoard' \in Seq(SafeRequest)
    BY <1>1, AppendProperties DEF TransmitOpen, HBridgeInv, FramesOneSided
  <2> QED BY <1>1, <2>1
          DEF Transmit, TransmitOpen, HBridgeInv, FramesOneSided, HBridgeSafe,
              boardVars
<1>2. CASE TransmitReopen(m)
  <2>1. toBoard' \in Seq(SafeRequest)
    BY <1>2 DEF TransmitReopen
  <2> QED BY <1>2, <2>1
          DEF Transmit, TransmitReopen, BoardReset, FramesOneSided, HBridgeSafe,
              AllOff, Off
<1>3. CASE TransmitFails
  BY <1>3 DEF Transmit, TransmitFails, HBridgeInv, FramesOneSided, HBridgeSafe,
              boardVars, lineVars
<1> QED BY <1>1, <1>2, <1>3 DEF Transmit

\* The node sends one-sided frames only.
LEMMA HostOneSided ==
    ASSUME HBridgeInv, HostStep
    PROVE  FramesOneSided' /\ HBridgeSafe'
<1> USE DEF HBridgeInv
<1>1. CASE CheckMotor
  <2> DEFINE next == [s \in Side |-> RampTo(speed[s], targetSpeed[s])]
  <2>1. next \in [Side -> Speed]
    BY RampBounds DEF TypeOK
  <2>2. DriveMsg(next) \in SafeRequest
    BY <2>1, DriveMsgOneSided
  <2>3. Transmit(DriveMsg(next))
    BY <1>1 DEF CheckMotor
  <2> HIDE DEF next
  <2> QED BY <2>2, <2>3, TransmitOneSided
<1>2. CASE \E q \in Queries : CheckQuery(q)
  <2>1. Queries \subseteq SafeRequest
    BY DEF Queries, SafeRequest, Request
  <2> QED BY <1>2, <2>1, TransmitOneSided DEF CheckQuery
<1>3. CASE Resend
  <2>1. currentMessage \in SafeRequest
    BY <1>3 DEF Resend, FramesOneSided
  <2> QED BY <1>3, <2>1, TransmitOneSided DEF Resend
<1>4. CASE ProcessResponse
  BY <1>4
  DEF FramesOneSided, HBridgeSafe, ProcessResponse, DriveEchoed, CurrentReported,
      VoltageReported, ErrorReported, MismatchIgnored, TakeResponse, Settle,
      boardVars
<1>5. CASE Receive \/ DrainDone \/ MotorNotDue \/ QueryNotDue \/ SpinEnds
  BY <1>5 DEF FramesOneSided, HBridgeSafe, Receive, DrainDone, MotorNotDue,
              QueryNotDue, SpinEnds, boardVars, lineVars
<1> QED BY <1>1, <1>2, <1>3, <1>4, <1>5 DEF HostStep

\* The board only applies what a frame says, or zero.
LEMMA BoardOneSided ==
    ASSUME HBridgeInv, BoardStep
    PROVE  FramesOneSided' /\ HBridgeSafe'
<1> USE DEF HBridgeInv
<1>1. ASSUME NEW t, TakePacket(t)
      PROVE  /\ Head(toBoard) \in SafeRequest
             /\ FramesOneSided'
  BY <1>1, HeadTailProperties DEF TakePacket, FramesOneSided, hostVars
<1>2. CASE BoardDrives
  <2>1. OneSided(Head(toBoard).duty)
    BY <1>1, <1>2 DEF BoardDrives, TakePacket, SafeRequest
  <2> QED BY <1>1, <1>2, <2>1 DEF BoardDrives, OneSided, HBridgeSafe
<1>3. CASE BoardRefuses \/ BoardReportsCurrent \/ BoardReportsVoltage
  BY <1>1, <1>3
  DEF BoardRefuses, BoardReportsCurrent, BoardReportsVoltage, HBridgeSafe
<1>4. CASE NoPacket
  BY <1>4 DEF NoPacket, FramesOneSided, HBridgeSafe, hostVars, lineVars
<1>5. CASE \E over \in SUBSET Side : CheckHealth(over)
  BY <1>5 DEF CheckHealth, FramesOneSided, HBridgeSafe, Off, hostVars, lineVars
<1> QED BY <1>2, <1>3, <1>4, <1>5 DEF BoardStep, BoardTakes

\* Losing a frame or crashing makes no new one.
LEMMA EnvironmentOneSided ==
    ASSUME HBridgeInv, Environment
    PROVE  FramesOneSided' /\ HBridgeSafe'
<1> USE DEF HBridgeInv, FramesOneSided, HBridgeSafe
<1>1. CASE Lose
  <2>1. toBoard' \in Seq(SafeRequest)
    BY <1>1, HeadTailProperties DEF Lose
  <2> QED BY <1>1, <2>1 DEF Lose, hostVars, boardVars
<1>2. CASE FlipKill \/ Tick \/ Crash
  BY <1>2 DEF FlipKill, Tick, Crash, hostVars, boardVars, lineVars
<1>3. CASE Restart
  <2>1. <<>> \in Seq(SafeRequest)
    OBVIOUS
  <2>2. FramesOneSided'
    BY <1>3, <2>1 DEF Restart, boardVars, lineVars
  <2>3. HBridgeSafe'
    BY <1>3 DEF Restart, BoardReset, AllOff, Off, boardVars, lineVars
  <2> QED BY <2>2, <2>3
<1> QED BY <1>1, <1>2, <1>3 DEF Environment

\* No bridge is ever driven both ways at once, whatever is lost, delayed,
\* repeated, cut or restarted, and however large the commands are.
THEOREM HBridgesSafe == Spec => []HBridgeSafe
<1>1. Init => HBridgeInv
  <2>1. Init => FramesOneSided
    <3>1. <<>> \in Seq(SafeRequest)
      OBVIOUS
    <3> QED BY <3>1 DEF Init, FramesOneSided
  <2>2. Init => HBridgeSafe
    BY DEF Init, HBridgeSafe, AllOff, Off
  <2> QED BY <2>1, <2>2, InitType DEF HBridgeInv
<1>2. HBridgeInv /\ [Next]_vars => HBridgeInv'
  <2>1. ASSUME HBridgeInv, UNCHANGED vars
        PROVE  FramesOneSided' /\ HBridgeSafe'
    BY <2>1 DEF HBridgeInv, FramesOneSided, HBridgeSafe, vars, hostVars,
                boardVars, lineVars
  <2>2. ASSUME HBridgeInv, NEW c \in Commands, SetMotorSpeed(c)
        PROVE  FramesOneSided' /\ HBridgeSafe'
    BY <2>2 DEF HBridgeInv, FramesOneSided, HBridgeSafe, SetMotorSpeed,
                boardVars, lineVars
  <2> QED BY <2>1, <2>2, StepType, HostOneSided, BoardOneSided,
             EnvironmentOneSided DEF Next, HBridgeInv
<1>3. HBridgeInv => HBridgeSafe
  BY DEF HBridgeInv
<1> QED BY <1>1, <1>2, <1>3, PTL DEF Spec
-----------------------------------------------------------------------------
(* What the board alone guarantees, under every fault                      *)

\* The host never reaches the board's state except by resetting the board.
LEMMA HostLeavesBoard ==
    ASSUME HostStep \/ Environment \/ \E c \in Commands : SetMotorSpeed(c)
    PROVE  \/ UNCHANGED <<pwm, motorOverload, motorsKilled, cut>>
           \/ BoardReset
<1>1. \A m : Transmit(m) => UNCHANGED boardVars \/ BoardReset
  BY DEF Transmit, TransmitOpen, TransmitReopen, TransmitFails
<1>2. CASE CheckMotor \/ Resend \/ \E q \in Queries : CheckQuery(q)
  BY <1>1, <1>2 DEF CheckMotor, Resend, CheckQuery, boardVars
<1>3. CASE ProcessResponse
  BY <1>3
  DEF ProcessResponse, DriveEchoed, CurrentReported, VoltageReported,
      ErrorReported, MismatchIgnored, TakeResponse, boardVars
<1>4. CASE Receive \/ DrainDone \/ MotorNotDue \/ QueryNotDue \/ SpinEnds
  BY <1>4 DEF Receive, DrainDone, MotorNotDue, QueryNotDue, SpinEnds, boardVars
<1>5. CASE FlipKill \/ Lose \/ Tick \/ Crash \/ Restart
  BY <1>5 DEF FlipKill, Lose, Tick, Crash, Restart, boardVars
<1>6. CASE \E c \in Commands : SetMotorSpeed(c)
  BY <1>6 DEF SetMotorSpeed, boardVars
<1> QED BY <1>2, <1>3, <1>4, <1>5, <1>6 DEF HostStep, Environment

\* The kill switch promise with what makes it inductive.
KillInv == KilledIsCut /\ KillHolds

\* While the board knows the kill switch is pressed, no thruster runs, and the
\* board counts both sides as cut.
THEOREM KillSwitchHolds == Spec => [](KilledIsCut /\ KillHolds)
<1>1. Init => KillInv
  BY DEF Init, KillInv, KilledIsCut, KillHolds
<1>2. TypeOK /\ KillInv /\ [Next]_vars => KillInv'
  <2> SUFFICES ASSUME TypeOK, KillInv, [Next]_vars PROVE KillInv'
    OBVIOUS
  <2> USE DEF KillInv, KilledIsCut, KillHolds
  <2>1. CASE UNCHANGED <<pwm, motorOverload, motorsKilled, cut>> \/ BoardReset
    BY <2>1 DEF BoardReset
  <2>2. CASE BoardDrives
    BY <2>2 DEF BoardDrives, TakePacket
  <2>3. CASE BoardRefuses \/ BoardReportsCurrent \/ BoardReportsVoltage
               \/ NoPacket
    BY <2>3 DEF BoardRefuses, BoardReportsCurrent, BoardReportsVoltage,
                NoPacket, TakePacket
  <2>4. CASE \E over \in SUBSET Side : CheckHealth(over)
    <3>1. PICK over \in SUBSET Side : CheckHealth(over)
      BY <2>4
    <3>2. CASE killPin
      BY <3>1, <3>2 DEF CheckHealth, CutBy, AllOff, TypeOK
    <3>3. CASE ~killPin
      BY <3>1, <3>3 DEF CheckHealth
    <3> QED BY <3>2, <3>3
  <2>5. CASE UNCHANGED vars
    BY <2>5 DEF vars, boardVars
  <2> QED BY <2>1, <2>2, <2>3, <2>4, <2>5, HostLeavesBoard
          DEF Next, BoardStep, BoardTakes
<1> QED BY <1>1, <1>2, TypeCorrect, PTL DEF Spec, KillInv

\* Once a side is overloaded no command changes a duty: each thruster keeps its
\* duty or is switched off, whatever the host asks.
THEOREM OverloadBarsCommands == Spec => OverloadFreezes
<1>1. [Next]_vars =>
        [motorOverload # {} => \A s \in Side : pwm'[s] \in {pwm[s], Off}]_vars
  <2> SUFFICES ASSUME [Next]_vars, motorOverload # {}, NEW s \in Side
               PROVE  pwm'[s] \in {pwm[s], Off}
    OBVIOUS
  <2>1. CASE UNCHANGED <<pwm, motorOverload, motorsKilled, cut>> \/ BoardReset
    BY <2>1 DEF BoardReset, AllOff
  <2>2. ~BoardDrives
    BY DEF BoardDrives
  <2>3. CASE BoardRefuses \/ BoardReportsCurrent \/ BoardReportsVoltage
               \/ NoPacket
    BY <2>3 DEF BoardRefuses, BoardReportsCurrent, BoardReportsVoltage, NoPacket
  <2>4. CASE \E over \in SUBSET Side : CheckHealth(over)
    BY <2>4 DEF CheckHealth
  <2>5. CASE UNCHANGED vars
    BY <2>5 DEF vars, boardVars
  <2> QED BY <2>1, <2>2, <2>3, <2>4, <2>5, HostLeavesBoard
          DEF Next, BoardStep, BoardTakes
<1> QED BY <1>1, PTL DEF Spec, OverloadFreezes
=============================================================================
