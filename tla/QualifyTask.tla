----------------------------- MODULE QualifyTask ----------------------------
(***************************************************************************)
(* The QualifyTask node (rospy): each accepted enabling message starts a   *)
(* thread of diveAndDrive, which sleeps in slices and looks at isEnabled   *)
(* in between; a disabling message only clears that flag.                  *)
(***************************************************************************)
EXTENDS Naturals

CONSTANT Worker     \* the threads that may ever be started

VARIABLES
    isEnabled,
    worker,     \* where each thread stands in diveAndDrive
    depthSet,   \* Target_Depth has been published
    driving     \* the thrusters have been set on Motor_Control

qualifyVars == <<isEnabled, worker, depthSet, driving>>

\* The three calls of fancySleep, the test after each, and what follows it.
Sleeping == {"sleep1", "sleep2", "sleep3"}
Waking == {"wake1", "wake2", "wake3"}
Acting == {"dive", "drive"}
Live == Sleeping \cup Waking \cup Acting \cup {"reset"}

QualifyTypeOK ==
    /\ isEnabled \in BOOLEAN /\ depthSet \in BOOLEAN /\ driving \in BOOLEAN
    /\ worker \in [Worker -> Live \cup {"none", "done"}]

QualifyInit ==
    /\ isEnabled = FALSE /\ depthSet = FALSE /\ driving = FALSE
    /\ worker = [w \in Worker |-> "none"]

Become(w, place) == worker' = [worker EXCEPT ![w] = place]

-----------------------------------------------------------------------------
\* moduleEnableCallback: the flag is set and the thread started.  Nothing but
\* the flag could change in between, and the thread reads it first.
QualifyEnable(w) ==
    /\ ~isEnabled /\ worker[w] = "none"
    /\ isEnabled' = TRUE /\ Become(w, "sleep1")
    /\ UNCHANGED <<depthSet, driving>>

\* Disabled, and reset(): neither touches the thrusters.
QualifyDisable ==
    /\ isEnabled /\ isEnabled' = FALSE
    /\ UNCHANGED <<worker, depthSet, driving>>

\* Mutant of Wake: the time is no multiple of the slice, and is never quite up.
WakeDisabled(w) ==
    /\ ~isEnabled /\ worker[w] \in Sleeping
    /\ Become(w, [sleep1 |-> "wake1", sleep2 |-> "wake2", sleep3 |-> "wake3"][worker[w]])
    /\ UNCHANGED <<isEnabled, depthSet, driving>>

\* A sleep ends when its time is up or a slice finds the task disabled: the
\* time left is not counted, so it may end at any slice.
Wake(w) ==
    /\ worker[w] \in Sleeping
    /\ Become(w, [sleep1 |-> "wake1", sleep2 |-> "wake2", sleep3 |-> "wake3"][worker[w]])
    /\ UNCHANGED <<isEnabled, depthSet, driving>>

Work == [wake1 |-> "dive", wake2 |-> "drive", wake3 |-> "reset"]

\* Mutant of Check: a thread that finds the task disabled just returns, and
\* one that has slept its last does so without a reset.
CheckReturns(w) ==
    /\ worker[w] \in Waking
    /\ Become(w, IF isEnabled /\ worker[w] # "wake3" THEN Work[worker[w]] ELSE "done")
    /\ UNCHANGED <<isEnabled, depthSet, driving>>

\* The flag is read again after the loop: the thread goes on, or resets.
Check(w) ==
    /\ worker[w] \in Waking
    /\ Become(w, IF isEnabled THEN Work[worker[w]] ELSE "reset")
    /\ UNCHANGED <<isEnabled, depthSet, driving>>

\* The two publications, on Target_Depth and on Motor_Control.
Act(w) ==
    /\ worker[w] \in Acting
    /\ depthSet' = (depthSet \/ worker[w] = "dive")
    /\ driving' = (driving \/ worker[w] = "drive")
    /\ Become(w, IF worker[w] = "dive" THEN "sleep2" ELSE "sleep3")
    /\ UNCHANGED isEnabled

\* reset() by the thread, whichever run the flag belongs to by now.
Reset(w) ==
    /\ worker[w] = "reset"
    /\ isEnabled' = FALSE /\ Become(w, "done")
    /\ UNCHANGED <<depthSet, driving>>

QualifyStep(w) == Wake(w) \/ Check(w) \/ Act(w) \/ Reset(w)

QualifyNext ==
    \/ QualifyDisable
    \/ \E w \in Worker : QualifyEnable(w) \/ QualifyStep(w)

\* Threads run and sleeps end.
QualifyFairness == \A w \in Worker : WF_qualifyVars(QualifyStep(w))

QualifySpec == QualifyInit /\ [][QualifyNext]_qualifyVars /\ QualifyFairness

-----------------------------------------------------------------------------
\* While the task counts as enabled, and so refuses to be enabled ("I'm already
\* 1"), a thread that has not reset it is at work, however disabling messages,
\* impatient enabling ones and the resets of older threads interleave.
EnabledIsServed == isEnabled => \E w \in Worker : worker[w] \in Live

\* No race leaves the task enabled for ever, and so deaf to all that would
\* start it again: its time runs out if nobody disables it.
EnabledEnds == isEnabled ~> ~isEnabled
=============================================================================
