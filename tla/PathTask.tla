------------------------------ MODULE PathTask ------------------------------
(***************************************************************************)
(* The PathTask node (rospy): the callbacks of Module_Enable and of the    *)
(* image topic and the motor_watcher each have a thread, and share the     *)
(* fields of one object without a lock.  A step is what a thread does      *)
(* between two accesses to those fields that another thread could notice.  *)
(***************************************************************************)
EXTENDS Naturals, Sequences

CONSTANTS
    Goal,           \* SUCCESS_GOAL: still frames in a row
    Patience,       \* the 3 seconds of motor_watcher, in ticks
    Sightings,      \* what a path may look like: the axes it is off on
    MaxEnables      \* bound: messages that enable the task

Axis == {"Forward", "Straf", "Turn"}

ASSUME PathAssumption ==
    /\ Goal \in Nat \ {0} /\ Patience \in Nat /\ MaxEnables \in Nat
    /\ Sightings \subseteq SUBSET Axis

VARIABLES
    enabled, can_turn, success_counter,
    paths,          \* the paths of the frame under way: none, one, or Several
    last_motor_change,  \* ticks since, or Never
    at,             \* where each thread stands
    state,          \* State of the Module_Enable message in hand, till it is used
    seen,           \* the path in hand of image_recognition_cb
    aligning,       \* the path it aligns to
    did_something,
    asked,          \* the axes whose last published value is not 0
    late,           \* one of them was asked for after the task was disabled
    enables, reports    \* tallies: enabling messages, reports per thread

shared == <<enabled, can_turn, success_counter, paths, last_motor_change>>
inHand == <<seen, aligning, did_something>>
pathVars == <<shared, at, state, inHand, asked, late, enables, reports>>

Thread == {"image", "enable", "watch"}
Reporter == {"image", "watch"}
Stopping == {"stopForward", "stopStraf", "stopTurn", "stopClear"}
Place == [image |-> {"idle", "look", "select", "Straf", "Forward", "Turn",
                     "settle", "complete", "restart", "append"} \cup Stopping,
          enable |-> {"idle", "write", "reset"} \cup Stopping,
          watch |-> {"idle", "compare", "complete"} \cup Stopping]
Never == Patience + 2
Several == <<{}, {}>>

PathTypeOK ==
    /\ enabled \in BOOLEAN /\ can_turn \in BOOLEAN
    /\ success_counter \in 0..Goal /\ last_motor_change \in 0..Never
    /\ paths \in Seq(SUBSET Axis) /\ Len(paths) <= 2
    /\ at \in [Thread -> UNION {Place[t] : t \in Thread}]
    /\ \A t \in Thread : at[t] \in Place[t]
    /\ state \in BOOLEAN /\ did_something \in BOOLEAN /\ late \in BOOLEAN
    /\ seen \subseteq Axis /\ aligning \subseteq Axis /\ asked \subseteq Axis
    /\ enables \in 0..MaxEnables /\ reports \in [Reporter -> Nat]

PathInit ==
    /\ enabled = FALSE /\ can_turn = TRUE /\ success_counter = 0
    /\ paths = <<>> /\ last_motor_change = Never
    /\ at = [t \in Thread |-> "idle"] /\ state = FALSE
    /\ seen = {} /\ aligning = {} /\ did_something = FALSE
    /\ asked = {} /\ late = FALSE
    /\ enables = 0 /\ reports = [t \in Reporter |-> 0]

Go(t, place) == at' = [at EXCEPT ![t] = place]

\* image_recognition_cb returns or raises: its locals are gone.
Return == seen' = {} /\ aligning' = {} /\ did_something' = FALSE

-----------------------------------------------------------------------------
\* image_recognition_cb; an image that finds the task disabled changes nothing.
ImageArrives ==
    /\ at["image"] = "idle" /\ enabled
    /\ seen' \in Sightings /\ Go("image", "look")
    /\ UNCHANGED <<shared, state, aligning, did_something, asked, late, enables, reports>>

\* Its path may be the first of a frame (id 0), which settles the frame before.
ImageLooks ==
    /\ at["image"] = "look"
    /\ \/ Go("image", "append")
       \/ paths # <<>> /\ Go("image", "select")
    /\ UNCHANGED <<shared, state, inHand, asked, late, enables, reports>>

\* select_correct_path.  Of several paths (or none, when they have just been
\* reset) it returns a pair, at whose center_x align_to_path raises: the
\* callback ends there, the frame stays and the image is not appended.
SelectPath ==
    /\ at["image"] = "select"
    /\ IF Len(paths) = 1
       THEN /\ aligning' = Head(paths) /\ did_something' = FALSE
            /\ Go("image", "Straf")
            /\ UNCHANGED seen
       ELSE Go("image", "idle") /\ Return
    /\ UNCHANGED <<shared, state, asked, late, enables, reports>>

AfterAxis == [Straf |-> "Forward", Forward |-> "Turn", Turn |-> "settle"]

\* One of the three publications of align_to_path.
AlignAxis ==
    LET axis == at["image"]
        off  == axis \in aligning /\ (axis = "Turn" => can_turn)
    IN  /\ axis \in Axis
        /\ asked' = IF off THEN asked \cup {axis} ELSE asked \ {axis}
        /\ late' = (late \/ (off /\ ~enabled))
        /\ did_something' = (did_something \/ off)
        /\ Go("image", AfterAxis[axis])
        /\ UNCHANGED <<shared, state, seen, aligning, enables, reports>>

\* The rest of align_to_path: moving again, still, or still for long enough.
Settle ==
    /\ at["image"] = "settle"
    /\ \/ /\ did_something
          /\ success_counter' = 0 /\ last_motor_change' = 0
          /\ Go("image", "restart") /\ UNCHANGED can_turn
       \/ /\ ~did_something /\ success_counter + 1 < Goal
          /\ success_counter' = success_counter + 1
          /\ Go("image", "restart") /\ UNCHANGED <<can_turn, last_motor_change>>
       \/ /\ ~did_something /\ success_counter + 1 >= Goal
          /\ success_counter' = IF can_turn THEN Goal ELSE 0
          /\ can_turn' = TRUE
          /\ Go("image", IF can_turn THEN "complete" ELSE "restart")
          /\ UNCHANGED last_motor_change
    /\ UNCHANGED <<enabled, paths, state, inHand, asked, late, enables, reports>>

\* self.paths = [] after an alignment, and the image is appended.
AppendPath ==
    /\ at["image"] \in {"restart", "append"}
    /\ paths' = IF at["image"] = "restart" \/ paths = <<>> THEN <<seen>> ELSE Several
    /\ Go("image", "idle") /\ Return
    /\ UNCHANGED <<enabled, can_turn, success_counter, last_motor_change, state,
                   asked, late, enables, reports>>

-----------------------------------------------------------------------------
\* Mutant of Complete: the report leaves the task enabled.
CompleteEnabled(t) ==
    /\ at[t] = "complete"
    /\ reports' = [reports EXCEPT ![t] = @ + 1] /\ Go(t, "stopForward")
    /\ UNCHANGED <<shared, late, state, inHand, asked, enables>>

\* task_complete: disabled, the result is published, and stop_motors.
Complete(t) ==
    /\ at[t] = "complete"
    /\ enabled' = FALSE /\ late' = FALSE
    /\ reports' = [reports EXCEPT ![t] = @ + 1]
    /\ Go(t, "stopForward")
    /\ UNCHANGED <<can_turn, success_counter, paths, last_motor_change, state,
                   inHand, asked, enables>>

\* stop_motors, one publication a step, then last_motor_change = 0.
Stops == [stopForward |-> "Forward", stopStraf |-> "Straf", stopTurn |-> "Turn"]
AfterStop(t) == [stopForward |-> "stopStraf", stopStraf |-> "stopTurn",
                 stopTurn |-> "stopClear",
                 stopClear |-> IF t = "image" THEN "restart" ELSE "idle"]

StopMotors(t) ==
    /\ at[t] \in Stopping
    /\ asked' = {a \in asked : at[t] = "stopClear" \/ a # Stops[at[t]]}
    /\ last_motor_change' = IF at[t] = "stopClear" THEN Never ELSE last_motor_change
    /\ Go(t, AfterStop(t)[at[t]])
    /\ UNCHANGED <<enabled, can_turn, success_counter, paths, state, inHand, late,
                   enables, reports>>

-----------------------------------------------------------------------------
\* module_enable_cb up to, at and after the assignment to enabled.
EnableArrives(s) ==
    /\ at["enable"] = "idle" /\ (s => enables < MaxEnables)
    /\ state' = s /\ can_turn' = FALSE /\ Go("enable", "write")
    /\ UNCHANGED <<enabled, success_counter, paths, last_motor_change, inHand,
                   asked, late, enables, reports>>

EnableWrites ==
    /\ at["enable"] = "write"
    /\ enabled' = state /\ late' = (late /\ state)
    /\ enables' = IF state THEN enables + 1 ELSE enables
    /\ state' = FALSE /\ Go("enable", "reset")
    /\ UNCHANGED <<can_turn, success_counter, paths, last_motor_change,
                   inHand, asked, reports>>

\* Mutant of EnableResets: a disabled task does not stop the motors.
EnableResetsOnly ==
    /\ at["enable"] = "reset"
    /\ paths' = <<>> /\ success_counter' = 0 /\ last_motor_change' = Never
    /\ Go("enable", "idle")
    /\ UNCHANGED <<enabled, can_turn, state, inHand, asked, late, enables, reports>>

\* The enabled it tests at the end is the field, not the message.
EnableResets ==
    /\ at["enable"] = "reset"
    /\ paths' = <<>> /\ success_counter' = 0 /\ last_motor_change' = Never
    /\ Go("enable", IF enabled THEN "idle" ELSE "stopForward")
    /\ UNCHANGED <<enabled, can_turn, state, inHand, asked, late, enables, reports>>

-----------------------------------------------------------------------------
\* motor_watcher, once a second: its two tests read the fields anew.
WatchTests ==
    /\ at["watch"] = "idle" /\ enabled /\ last_motor_change # Never
    /\ Go("watch", "compare")
    /\ UNCHANGED <<shared, state, inHand, asked, late, enables, reports>>

\* Mutant of WatchCompares: an equality, which a late look misses.
WatchComparesOnce ==
    /\ at["watch"] = "compare"
    /\ Go("watch", IF last_motor_change = Patience THEN "complete" ELSE "idle")
    /\ UNCHANGED <<shared, state, inHand, asked, late, enables, reports>>

\* A last_motor_change of 0 (Never) lies further back than any patience.
WatchCompares ==
    /\ at["watch"] = "compare"
    /\ Go("watch", IF last_motor_change > Patience THEN "complete" ELSE "idle")
    /\ UNCHANGED <<shared, state, inHand, asked, late, enables, reports>>

PathTick ==
    /\ last_motor_change <= Patience
    /\ last_motor_change' = last_motor_change + 1
    /\ UNCHANGED <<enabled, can_turn, success_counter, paths, at, state, inHand,
                   asked, late, enables, reports>>

PathNext ==
    \/ ImageArrives \/ ImageLooks \/ SelectPath \/ AlignAxis \/ Settle \/ AppendPath
    \/ \E t \in Reporter : Complete(t)
    \/ \E t \in Thread : StopMotors(t)
    \/ \E s \in BOOLEAN : EnableArrives(s)
    \/ EnableWrites \/ EnableResets
    \/ WatchTests \/ WatchCompares \/ PathTick

WatchStep == WatchTests \/ WatchCompares \/ Complete("watch") \/ StopMotors("watch")

EnableCallback == EnableWrites \/ EnableResets \/ StopMotors("enable")
ImageCallback ==
    \/ ImageLooks \/ SelectPath \/ AlignAxis \/ Settle \/ AppendPath
    \/ Complete("image") \/ StopMotors("image")

\* Threads are scheduled and time passes: the watcher goes on, and a callback that
\* was entered ends.  Images and messages may cease.
PathFairness ==
    /\ WF_pathVars(WatchStep) /\ WF_pathVars(PathTick)
    /\ WF_pathVars(EnableCallback) /\ WF_pathVars(ImageCallback)

PathSpec == PathInit /\ [][PathNext]_pathVars /\ PathFairness

-----------------------------------------------------------------------------
\* A disabled task asks for no motion once its callbacks are through, unless
\* image_recognition_cb was past its test of enabled when the motors were
\* stopped (late): nothing else undoes a stop.
DisabledIsStill ==
    ~enabled /\ ~late /\ (\A t \in Thread : at[t] = "idle") => asked = {}

\* However the threads race, each reports at most once per enabling message:
\* task_complete of a thread follows an enabled it has read since its last.
ReportsEarned == \A t \in Reporter : reports[t] <= enables

Realigned == enabled /\ last_motor_change = 0

\* Another thread is about to reset last_motor_change under an enabled task: the
\* message was a second enabling one, or a report of an earlier run still stops.
Overridden ==
    enabled /\ (at["enable"] = "reset" \/ \E t \in Reporter : at[t] = "stopClear")

\* A motion does not outlast the watcher's patience, even if no image ever comes
\* again: the motors are stopped, unless a new alignment renews it, an image
\* commands them after the task was disabled (late), or last_motor_change is
\* reset under the watcher (Overridden), which then never looks again.
Watched == (enabled /\ last_motor_change # Never)
               ~> (asked = {} \/ Realigned \/ late \/ Overridden)
=============================================================================
