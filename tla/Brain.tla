-------------------------------- MODULE Brain -------------------------------
(***************************************************************************)
(* The Brain (rospy and smach): Idle waits for the kill switch, CompRun    *)
(* runs a mission beside a monitor of the switch.  The machine's threads,  *)
(* that of the mission and those of the callbacks interleave.              *)
(*                                                                         *)
(* A MonitorState subscribes to Motor_State and then waits on a condition, *)
(* which its callback and a preemption notify: a notification between the  *)
(* two is lost, and messages go on being handled until it unsubscribes.    *)
(***************************************************************************)
EXTENDS Sensors

VARIABLES
    shouldStartMission,
    monitor,        \* where the two MonitorStates stand
    mission,        \* and NewPathTask.execute
    outcome,        \* outcomes of CompRun's children
    preempt_requested,
    cancelled,      \* CompRun has preempted the children that were left
    is_complete, expired,   \* of NewPathTask: never reset
    watching,       \* its objSub exists: it is never unregistered
    Module_Enable,  \* State of the last message for 'NewPathTask'
    ahead,          \* the last Forward command: "stop" or "go"
    strayed,        \* given by objCallback while Idle
    runs            \* tally: executions of CompRun

brainOwn == <<shouldStartMission, monitor, mission, outcome, preempt_requested,
              cancelled, is_complete, expired, watching, Module_Enable, ahead,
              strayed, runs>>
brainVars == <<sensorsVars, brainOwn>>
restOfSensors == <<switch, line, controllerState, motorKilled, timedOut, requests,
                   commands, pulls, asked, failures>>

Monitor == {"Idle", "MissionMonitor"}
Child == {"MissionMonitor", "SurfaceMonitor", "Mission"}
Listening == {"listening", "waiting", "woken"}
None == "none"
InIdle == monitor["Idle"] # "off"

BrainTypeOK ==
    /\ SensorsTypeOK /\ shouldStartMission \in BOOLEAN
    /\ monitor \in [Monitor -> Listening \cup {"off", "entered"}]
    /\ mission \in {"off", "entered", "loop", "drive"}
    /\ outcome \in [Child -> {None, "invalid", "preempted", "succeeded", "timeout"}]
    /\ preempt_requested \in [Child -> BOOLEAN]
    /\ {cancelled, is_complete, expired, watching, Module_Enable, strayed} \subseteq BOOLEAN
    /\ ahead \in {"stop", "go"} /\ runs \in Nat

BrainInit ==
    /\ SensorsInit /\ shouldStartMission = FALSE
    /\ monitor = [m \in Monitor |-> IF m = "Idle" THEN "entered" ELSE "off"]
    /\ mission = "off" /\ outcome = [c \in Child |-> None]
    /\ preempt_requested = [c \in Child |-> FALSE] /\ cancelled = FALSE
    /\ is_complete = FALSE /\ expired = FALSE /\ watching = FALSE
    /\ Module_Enable = FALSE /\ ahead = "stop" /\ strayed = FALSE /\ runs = 0

-----------------------------------------------------------------------------
\* Idle.execute stops the sub; a MonitorState subscribes.
Listen(m) ==
    /\ monitor[m] = "entered"
    /\ monitor' = [monitor EXCEPT ![m] = "listening"]
    /\ IF m = "Idle" THEN ahead' = "stop" /\ strayed' = FALSE
                     ELSE UNCHANGED <<ahead, strayed>>
    /\ UNCHANGED <<sensorsVars, shouldStartMission, mission, outcome, preempt_requested,
                   cancelled, is_complete, expired, watching, Module_Enable, runs>>

Wait(m) ==
    /\ monitor[m] = "listening"
    /\ monitor' = [monitor EXCEPT ![m] = "waiting"]
    /\ UNCHANGED <<sensorsVars, shouldStartMission, mission, outcome, preempt_requested,
                   cancelled, is_complete, expired, watching, Module_Enable, ahead,
                   strayed, runs>>

Notify(M) == [m \in Monitor |-> IF m \in M /\ monitor[m] = "waiting" THEN "woken"
                                ELSE monitor[m]]

\* Idle.cb and MissionMonitor.cb: which of them returns False.
Refuses(value) ==
    {m \in Monitor : monitor[m] \in Listening /\
        CASE m = "Idle" -> value = 1 /\ shouldStartMission
          [] m = "MissionMonitor" -> value # 1}

\* Mutant of Armed: one pull of the switch is good for many missions.
ArmedForGood(value) == shouldStartMission \/ value = 0

\* shouldStartMission after Idle.cb.
Armed(value) == value = 0

\* A Motor_State message; a monitor without a subscription does not get it.
Hear ==
    /\ reports # <<>> /\ reports' = Tail(reports)
    /\ monitor' = Notify(Refuses(Head(reports)))
    /\ shouldStartMission' = IF monitor["Idle"] \in Listening THEN Armed(Head(reports))
                             ELSE shouldStartMission
    /\ UNCHANGED <<restOfSensors, mission, outcome, preempt_requested, cancelled,
                   is_complete, expired, watching, Module_Enable, ahead, strayed, runs>>

-----------------------------------------------------------------------------
\* Idle unsubscribes and returns 'invalid': CompRun starts its children.
StartRun ==
    /\ monitor["Idle"] = "woken"
    /\ monitor' = [Idle |-> "off", MissionMonitor |-> "entered"]
    /\ mission' = "entered" /\ cancelled' = FALSE /\ runs' = runs + 1
    /\ outcome' = [c \in Child |-> None]
    /\ UNCHANGED <<sensorsVars, shouldStartMission, preempt_requested, is_complete,
                   expired, watching, Module_Enable, ahead, strayed>>

\* MissionMonitor unsubscribes; a preemption comes before what it heard.
MonitorEnds ==
    /\ monitor["MissionMonitor"] = "woken"
    /\ monitor' = [monitor EXCEPT !["MissionMonitor"] = "off"]
    /\ outcome' = [outcome EXCEPT !["MissionMonitor"] =
           IF preempt_requested["MissionMonitor"] THEN "preempted" ELSE "invalid"]
    /\ preempt_requested' = [preempt_requested EXCEPT !["MissionMonitor"] = FALSE]
    /\ UNCHANGED <<sensorsVars, shouldStartMission, mission, cancelled, is_complete,
                   expired, watching, Module_Enable, ahead, strayed, runs>>

SurfaceEnds ==
    /\ ~InIdle /\ outcome["SurfaceMonitor"] = None /\ preempt_requested["SurfaceMonitor"]
    /\ outcome' = [outcome EXCEPT !["SurfaceMonitor"] = "preempted"]
    /\ preempt_requested' = [preempt_requested EXCEPT !["SurfaceMonitor"] = FALSE]
    /\ UNCHANGED <<sensorsVars, shouldStartMission, monitor, mission, cancelled,
                   is_complete, expired, watching, Module_Enable, ahead, strayed, runs>>

\* Mutant of child_term_cb: the kill switch does not end the run.
TermOnSuccess == outcome["Mission"] = "succeeded"

child_term_cb == outcome["Mission"] = "succeeded" \/ outcome["MissionMonitor"] = "invalid"

\* CompRun preempts the children that still run.
Cancel ==
    /\ ~InIdle /\ ~cancelled /\ child_term_cb
    /\ cancelled' = TRUE
    /\ preempt_requested' = [c \in Child |-> preempt_requested[c] \/ outcome[c] = None]
    /\ monitor' = Notify({m \in {"MissionMonitor"} : outcome[m] = None})
    /\ UNCHANGED <<sensorsVars, shouldStartMission, mission, outcome, is_complete,
                   expired, watching, Module_Enable, ahead, strayed, runs>>

\* Mutant of AllEnded: CompRun does not wait for the mission's thread.
MonitorsEnded == \A c \in Child \ {"Mission"} : outcome[c] # None

AllEnded == \A c \in Child : outcome[c] # None

\* Every outcome of CompRun leads to Idle.
EndRun ==
    /\ ~InIdle /\ AllEnded
    /\ monitor' = [monitor EXCEPT !["Idle"] = "entered"]
    /\ UNCHANGED <<sensorsVars, shouldStartMission, mission, outcome, preempt_requested,
                   cancelled, is_complete, expired, watching, Module_Enable, ahead,
                   strayed, runs>>

-----------------------------------------------------------------------------
\* NewPathTask.execute up to its loop.
MissionStarts ==
    /\ mission = "entered" /\ mission' = "loop"
    /\ watching' = TRUE /\ Module_Enable' = TRUE
    /\ UNCHANGED <<sensorsVars, shouldStartMission, monitor, outcome, preempt_requested,
                   cancelled, is_complete, expired, ahead, strayed, runs>>

\* A turn of it: the tests that let it go on,
MissionTests ==
    /\ mission = "loop" /\ ~expired /\ ~is_complete /\ ~preempt_requested["Mission"]
    /\ mission' = "drive"
    /\ UNCHANGED <<sensorsVars, shouldStartMission, monitor, outcome, preempt_requested,
                   cancelled, is_complete, expired, watching, Module_Enable, ahead,
                   strayed, runs>>

\* and forward for a second, which may be the last.
MissionDrives ==
    /\ mission = "drive" /\ mission' = "loop"
    /\ ahead' = "go" /\ expired' \in BOOLEAN
    /\ UNCHANGED <<sensorsVars, shouldStartMission, monitor, outcome, preempt_requested,
                   cancelled, is_complete, watching, Module_Enable, strayed, runs>>

\* Mutant of disable_task: a task that timed out is left enabled.
disable_task_kept == Module_Enable' = expired

disable_task == Module_Enable' = FALSE

\* It returns; only 'preempted' services the preemption.
MissionEnds ==
    /\ mission = "loop" /\ mission' = "off" /\ disable_task
    /\ \/ expired /\ outcome' = [outcome EXCEPT !["Mission"] = "timeout"]
          /\ UNCHANGED preempt_requested
       \/ /\ ~expired /\ is_complete
          /\ outcome' = [outcome EXCEPT !["Mission"] = "succeeded"]
          /\ UNCHANGED preempt_requested
       \/ /\ ~expired /\ ~is_complete /\ preempt_requested["Mission"]
          /\ outcome' = [outcome EXCEPT !["Mission"] = "preempted"]
          /\ preempt_requested' = [preempt_requested EXCEPT !["Mission"] = FALSE]
    /\ UNCHANGED <<sensorsVars, shouldStartMission, monitor, cancelled, is_complete,
                   expired, watching, ahead, strayed, runs>>

\* objCallback: a path is off on one axis or the other, or is aligned to.
PathSeen ==
    /\ watching
    /\ \/ ahead' = "go" /\ UNCHANGED is_complete
       \/ ahead' = "stop" /\ is_complete' \in {is_complete, TRUE}
    /\ strayed' = (strayed \/ (InIdle /\ ahead' = "go"))
    /\ UNCHANGED <<sensorsVars, shouldStartMission, monitor, mission, outcome,
                   preempt_requested, cancelled, expired, watching, Module_Enable, runs>>

\* What the threads do by themselves.
BrainStep ==
    \/ \E m \in Monitor : Listen(m) \/ Wait(m)
    \/ StartRun \/ MonitorEnds \/ SurfaceEnds \/ Cancel \/ EndRun
    \/ MissionStarts \/ MissionEnds

BrainNext ==
    \/ SensorsNext /\ UNCHANGED brainOwn
    \/ Hear \/ BrainStep \/ MissionTests \/ MissionDrives \/ PathSeen

\* Threads run and messages arrive; paths need not be seen.
BrainFairness ==
    /\ WF_brainVars(BrainStep) /\ WF_brainVars(Hear)
    /\ WF_brainVars(MissionTests \/ MissionDrives)

BrainSpec == BrainInit /\ [][BrainNext]_brainVars /\ SensorsFairness /\ BrainFairness

-----------------------------------------------------------------------------
\* A mission needs a pull of the switch of its own: no run is started by a switch
\* that has stayed on, whatever reports are repeated, late or lost on the way.
RunsArePulled == runs <= pulls

\* In Idle the task last named on Module_Enable is disabled, however the mission
\* ended and whichever thread saw the switch first.
IdleIsDisabled == InIdle => ~Module_Enable

\* Once Idle has stopped the sub it stays so: no command of the mission comes
\* after.  Only the subscription it leaves behind (strayed) may move the sub.
IdleIsStill == monitor["Idle"] \in Listening /\ ~strayed => ahead = "stop"

\* A switch that stays pulled ends the run, also when it was pulled before the
\* monitor listened or its notification was lost: the report comes again.
KillEndsRun == <>[](switch = 0) => <>[]InIdle
=============================================================================
