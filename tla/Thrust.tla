------------------------------- MODULE Thrust -------------------------------
(***************************************************************************)
(* The arithmetic HighLevelControl applies to what it is asked: percent to *)
(* thruster speed (makeSpeed), the dead band and limit (sanitize) and the  *)
(* correction for unequal motors.  Percents are counted in units of which  *)
(* Full make 100%, so that a small instance has few of them.               *)
(***************************************************************************)
EXTENDS Integers

CONSTANTS
    Full,           \* 100%
    MinSpeed,       \* smallest speed that turns a thruster: 60
    MaxSpeed,       \* largest speed: 255
    FrontTrim,      \* FRONT_TURN_MULT and REAR_TURN_MULT, in parts of TrimUnit
    RearTrim,
    TrimUnit

ASSUME ThrustAssumption ==
    /\ Full \in Nat \ {0}
    /\ MinSpeed \in Nat \ {0} /\ MaxSpeed \in Nat /\ MinSpeed < MaxSpeed
    /\ TrimUnit \in Nat \ {0} /\ FrontTrim \in 0..TrimUnit /\ RearTrim \in 0..TrimUnit

Abs(v) == IF v < 0 THEN 0 - v ELSE v

\* C division: towards zero.
Quotient(a, b) == IF a < 0 THEN 0 - ((0 - a) \div b) ELSE a \div b

\* makeSpeed(): nothing, or at least MinSpeed.
MakeSpeed(percent) ==
    LET p == Quotient(percent * (MaxSpeed - MinSpeed), Full)
    IN IF percent = 0 THEN 0 ELSE IF p > 0 THEN p + MinSpeed ELSE p - MinSpeed

\* sanitize(): what would not turn a thruster becomes 0, the rest is limited.
Sanitize(v) == IF Abs(v) < MinSpeed THEN 0
               ELSE IF v > MaxSpeed THEN MaxSpeed
               ELSE IF v < 0 - MaxSpeed THEN 0 - MaxSpeed ELSE v

\* ManageTurnThrusters(): the stronger thruster of a turn is held back.
Trim(t) ==
    IF t.rear < 0 THEN [t EXCEPT !.front = Quotient(@ * FrontTrim, TrimUnit)]
    ELSE IF t.front < 0 THEN [t EXCEPT !.rear = Quotient(@ * RearTrim, TrimUnit)]
    ELSE t
=============================================================================
