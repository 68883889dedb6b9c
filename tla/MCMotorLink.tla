---------------------------- MODULE MCMotorLink ----------------------------
(* Model values for TLC: what /Motor_Control asks of one pair of thrusters. *)
EXTENDS MotorLink

\* Both ways, out of range, and the two sides against each other.
MCCommands == { [L |-> 0, R |-> 0],
                [L |-> MaxByte + 2, R |-> 1],
                [L |-> -MaxByte, R |-> MaxByte] }

\* One side is stopped and started.
MCStops == { Stopped, [L |-> 1, R |-> 0] }
=============================================================================
