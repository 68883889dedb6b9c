------------------------- MODULE SubDepthController -------------------------
(***************************************************************************)
(* The SubDepthController node: a depth target arrives on Target_Depth,    *)
(* and every depth sample makes it publish a depth thrust.  Depths are     *)
(* counted in half feet.  Outside the three bands where it forces full     *)
(* thrust the value comes from a PI controller, whose integrator is left   *)
(* out: any thrust may result.                                             *)
(***************************************************************************)
EXTENDS HighLevelControl

VARIABLE depthTarget    \* targetDepth

DepthInit == depthTarget = 0

TargetDepthCallback ==
    /\ targetDepth # <<>> /\ targetDepth' = Tail(targetDepth)
    /\ depthTarget' = Head(targetDepth)
    /\ UNCHANGED <<motion, motorControl, targetHeading, controlVars>>

\* mCurrentDepthCallback(): the speeds that may be published; positive is down.
DepthThrust(depth) ==
    LET error == depth - depthTarget
    IN IF error > 1 /\ depth < 2 THEN {Full}
       ELSE IF error > 3 /\ depth > 2 THEN {0 - Full}
       ELSE IF error < 0 - 3 /\ depth > 2 THEN {Full}
       ELSE 0 - Full..Full

CurrentDepthCallback(depth) ==
    /\ Room("SubDepthController", 1)
    /\ \E v \in DepthThrust(depth) :
         Publish("SubDepthController", <<MotionMsg("Depth", "Manual", v)>>)
    /\ UNCHANGED <<motorControl, targetHeading, targetDepth, controlVars,
                   depthTarget>>
=============================================================================
