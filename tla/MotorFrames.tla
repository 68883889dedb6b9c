---------------------------- MODULE MotorFrames ----------------------------
(***************************************************************************)
(* The messages exchanged by SubMotorController (host) and the             *)
(* WildThumperControllerSerial sketch (board), and the arithmetic on       *)
(* speeds both sides apply to them.  A frame on the wire is 7 bytes,       *)
(* 'S' type d0 d1 d2 d3 'E'; here it is a record with the type letter and  *)
(* what the four data bytes mean for that type.                            *)
(***************************************************************************)
EXTENDS Integers

CONSTANTS
    MaxByte,    \* largest data byte: 255 on the wire
    MaxStep     \* MotorControllerHandler::MaxStep: 20

ASSUME MotorFramesAssumption == MaxByte \in Nat /\ MaxStep \in Nat

Side  == {"L", "R"}
Byte  == 0..MaxByte
Speed == -MaxByte..MaxByte

\* One H bridge is driven by two PWM inputs, A (forward) and B (reverse).
Duty    == [fwd : Byte, rev : Byte]
Off     == [fwd |-> 0, rev |-> 0]
AllOff  == [s \in Side |-> Off]
Stopped == [s \in Side |-> 0]

DriveFrame == [type : {"D"}, duty : [Side -> Duty]]
Request    == DriveFrame \cup [type : {"C"}, side : Side] \cup [type : {"V"}]
Response   == [type : {"d"}, duty : [Side -> Duty]]
                \cup [type : {"c"}, side : Side] \cup [type : {"v", "e"}]
NoMessage  == [type |-> " "]

-----------------------------------------------------------------------------
Clamp(v, m) == IF v > m THEN m ELSE IF v < -m THEN -m ELSE v

\* Mutant of Filter: the clamp forgotten.
FilterUnclamped(v) == -v

\* filter(): clamp to the byte range, then reverse the direction.
Filter(v) == -Clamp(v, MaxByte)

\* Mutant of RampTo: no ramp at all.
RampToTarget(current, target) == target

\* CheckMotor(): the next set speed, at most MaxStep away from the current one.
RampTo(current, target) == current + Clamp(target - current, MaxStep)

\* Mutant of Encode: the input of the other direction is not zeroed.
EncodeBoth(v) == [fwd |-> v % (MaxByte + 1), rev |-> (-v) % (MaxByte + 1)]

\* createMessageFromSpeed(): int assigned to unsigned char keeps the low byte.
Encode(v) == IF v > 0 THEN [fwd |-> v % (MaxByte + 1), rev |-> 0]
                      ELSE [fwd |-> 0, rev |-> (-v) % (MaxByte + 1)]

\* processResponse(), case MOTOR_RESPONSE_TYPE: the speed an echo stands for.
Decode(d) == IF d.fwd # 0 THEN d.fwd ELSE 0 - d.rev

DriveMsg(speeds) == [type |-> "D", duty |-> [s \in Side |-> Encode(speeds[s])]]

\* The signed speed each side is really driven at by the bridge inputs.
Applied(pwm) == [s \in Side |-> Decode(pwm[s])]

Within(a, b, m) == -m <= a - b /\ a - b <= m
=============================================================================
