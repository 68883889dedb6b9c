------------------------------ MODULE Thruster ------------------------------
(***************************************************************************)
(* What one motor controller promises about the two thrusters it drives,   *)
(* with no link, no messages and no timers: the speed of a thruster moves  *)
(* by at most MaxStep at a time, except that the board may cut it to zero  *)
(* at any moment (kill switch, overload, heartbeat, board reset).  A       *)
(* thruster that was cut is "coasting": the host was not told, so the next *)
(* command may put it anywhere.                                            *)
(***************************************************************************)
EXTENDS MotorFrames

VARIABLES
    applied,    \* [Side -> Speed], the speed each thruster is driven at
    coasting    \* the sides cut since the last command was accepted

thrusterVars == <<applied, coasting>>

Init == applied = Stopped /\ coasting = {}

Drive ==
    /\ applied' \in [Side -> Speed]
    /\ \A s \in Side \ coasting : Within(applied'[s], applied[s], MaxStep)
    /\ coasting' = {}

Cut(S) ==
    /\ applied' = [s \in Side |-> IF s \in S THEN 0 ELSE applied[s]]
    /\ coasting' = coasting \cup S

\* A board that resets and a host that starts both believe the speed is zero.
Reset == applied' = Stopped /\ coasting' = {}

Next == Drive \/ (\E S \in SUBSET Side : Cut(S)) \/ Reset

Spec == Init /\ [][Next]_thrusterVars
=============================================================================
