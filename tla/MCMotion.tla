------------------------------ MODULE MCMotion ------------------------------
(* Model values for TLC: a handful of requests and samples. *)
EXTENDS Motion

MCTargetZero == -500

MCDirectFull == [rear |-> MaxSpeed, front |-> MaxSpeed]

MCDirect == [rear |-> MaxSpeed, front |-> MinSpeed]

\* Start and stop moving, which also retargets the heading.
MCMoves == { Forward(Full), Forward(0) }

\* Moving sideways and diving, and a direction nobody knows.
MCThrusts == { Strafe(Full), Dive(2),
               <<MotionMsg(Unknown, "Command", Full)>> }

MCDives == { Dive(2) }

MCScan == { Turn(1), Forward(0) }
=============================================================================
