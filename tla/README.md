# Guillemot core: a TLA+ verification project

This directory holds the specifications of the control path of the submarine
whose code is in `src/`: TLA+ modules, TLC configurations and machine-checked
proofs. It answers one question at several levels: *when the Brain asks for
motion, and above all when it asks for none, what do the thrusters do?*
Above that level stand the task nodes and the two programs that enable them, the
Brain and SubStateMachine: *when may a task run, when does it end, and what does
it leave behind?* Beside it all stands the store of the newer Python programs
(`src/python`), the roslite Registrar: *what becomes of a value once it is set?*

Paths below are relative to the repository. The abbreviations used:
`motorController.cpp` is `src/rosWorkspace/SubMotorController/src/motorController.cpp`,
`main.cpp` and `HighLevelControl.cpp` are in the same directory, the *board
sketch* is `src/arduinoWorkspace/WildThumperControllerSerial/WildThumperControllerSerial.pde`,
the *sensor sketch* is `src/arduinoWorkspace/SubSensorBoard/SubSensorBoard.ino`, and
every other node has its source in `src/rosWorkspace/<node>/`.

## 1. The system

The sub is a set of ROS nodes (separate processes, C++ or Python) that talk over
topics, and three motor controller boards on serial lines. ROS topics are queues
of bounded length per subscriber that drop their oldest message; a C++ node
handles callbacks in `ros::spin()` or `ros::spinOnce()`, one at a time and, in a
node, in the order of arrival; a rospy node has a thread per topic.

    kill switch -> SubSensorController -Motor_State-> Brain (smach)
                                                       | Module_Enable / Task_Completion
                                                       |    -> PathTask, QualifyTask, BuoysTask, GateTask
                         High_Level_Motion  <----------+---------'
                          |            |
                          v            v
                   HighLevelControl  SubHeading (IMU_Attitude)  SubDepthController (Sub_Depth)
                     |  ^ Target_Heading, Target_Depth ->          |
                     |  '-------- Turn/Manual, Depth/Manual <------'
                     v
               Motor_Control (QualifyTask publishes here too)
                     v
             SubMotorController: one MotorControllerHandler per board
                     v  7-byte frames, 115200 baud
               Drive board, Turn board, Depth board: two H bridges each

| Component | State it keeps | Operations | What is hard about it | What makes it correct |
|---|---|---|---|---|
| MotorControllerHandler (`motorController.cpp`) | pending message, `awaitingResponse`, believed and target speeds, query timers | set a target, transmit, receive, ramp, query, resend | lost, late and doubled answers; process death | the belief follows the truth; a lasting target is reached |
| Board sketch | duties, overload flags, `motorsKilled`, heartbeat start | take a packet, check health | cuts behind the host's back | never both inputs of a bridge; stops when killed or alone |
| SubMotorController (`main.cpp`) | current speed of six motors | `motorMessage` | masks, respawn | the masked speeds and no others change |
| HighLevelControl | mode, speed and command of each axis, last speeds sent | one callback, three `Manage*Thrusters` every 10 ms | saves messages by comparing with a cache; several publishers | the cache is true; a wish reaches the thrusters |
| SubHeading | target and current yaw, `isMoving` | three callbacks | hears the Brain's requests beside HighLevelControl and answers itself through it | a stopped sub does not turn; a heading asked for is held |
| SubDepthController | target depth, integrator | two callbacks | its output overrides a depth command | a depth asked for is set |
| Brain | smach states, `shouldStartMission`, one shared message | `Idle.cb`, missions, tasks | threads, preemption, kill switch reports | a run needs a pull of the switch; a kill ends it |
| PathTask, QualifyTask, BuoysTask, GateTask nodes | `enabled`, counters, threads | enable, disable, images, watcher | threads against callbacks, nested spinning | a disabled task drives nothing; each enable is answered |
| SubSensorController, SubSensorBoard | port state, last values, timers | read a line, publish changes, drop, launch | a port that comes and goes; callbacks handled only behind a publication | the switch is reported again and again; a request is passed on, once |
| SubStateMachine | current classes, triggers, timers | change state, trigger, timer | iterates over what its effects change, in a thread per topic | only the current state's triggers are armed; a task runs only in its state |
| roslite (Atlas, Node, Registrar; `src/python`) | channel and service tables, key/value store | look up, set, get, save at exit | threads in one process, timeouts, kill | calls are atomic; every effect survives but a forced end |
| NavigationControl, TorpedoTask, ObstacleCourseTask | - | - | deaf (subscribers are locals) or unheard (topic without subscriber) | - |
| Vision, IMU and attitude drivers, console, simulator, vendored libraries | - | - | device input, numerics, user interface | - |

`PROJECT.json` lists the same components with what is and is not modelled of
each, and the hazards of the code with the line where each bites.

## 2. The modules

### The motor link

* `MotorFrames` is the data of the link: speeds, duties, the frames, and the
  conversions between them. `Encode` is `createMessageFromSpeed`, `Decode` the
  reading of a drive echo in `processResponse`, `Filter` the clamp (and the sign
  change) of `setMotorSpeed`, `RampTo` the step of `CheckMotor`. The width of a
  byte is the constant `MaxByte`.
* `MotorLink` is one handler of the host, one board and the line between them.
  `pc` walks through `spinOnce()`: `receive` -> `drain` -> `motor` -> `query` ->
  `resend`, one action per function or branch: `DriveEchoed`, `CurrentReported`,
  `VoltageReported`, `ErrorReported`, `MismatchIgnored` are the cases of
  `processResponse`, `Transmit` is `transmit()` with its three outcomes (port
  open, opened now, still closed). `phase` divides the board's `loop()` in two:
  take a packet (`BoardDrives`, `BoardRefuses`, ...) and `CheckHealth`. Faults
  are actions too: `Lose`, `Tick` (a resend interval passes), `FlipKill`, `Crash`
  and `Restart`; the constant `Faults` says which an instance has.
* `Thruster` is what the pair promises: two thrusters whose applied speeds move
  by at most a ramp step towards what was asked, and may be cut at any time.
  `MotorLink` is shown to implement it (`RefinesThruster`, refinement mapping
  `applied <- Applied(pwm)`, `coasting <- cut`).

### Motion

* `Thrust`: speeds in units of `Full`, `MakeSpeed` (`makeSpeed`), `Sanitize`,
  `Trim` (the multipliers of the front and rear thrusters).
* `HighLevelControl`: `HandleMotion(p)` is `commandCallback` on the next message
  of publisher `p`, `ManageForwardThrusters`, `ManageTurnThrusters`,
  `ManageDepthThrusters` and `SpinEnds` are the loop of `main()`. A `spinOnce` is any number of `HandleMotion` steps
  between two passes of the loop, which is exactly why two messages can be
  handled before the loop looks.
* `SubHeading`, `SubDepthController`: the callbacks of the two nodes.
* `Motion` composes the three nodes with the requests of the Brain (`Forward`,
  `Turn`, `Strafe`, `Dive`, `Idle` of `Brain/src/utils.py` and `Brain.py`), the
  two publications of the QualifyTask node, `motorMessage` of `main.cpp`, and the
  death of the motor node.

### The Registrar

* `Calls`: the calls of `set_value` and `get_value`, what each does to the store
  (`Effect`) and how it is answered (`Result`). A SET or GET with a falsy key and a
  request of unknown kind are answered alike, with None, and are one kind of call.
* `Register` is what the Registrar promises: an atomic map that restarts keep.
* `Registrar` is `registrar.py` with its clients, run in one of the two ways of
  the repository: by itself (`standalone`) or in a daemon thread of `core.py`
  beside Atlas (`core`). `pc` walks through `run()` (`Receive`, `HandleSet`,
  `Publish`, `HandleGet`, `Reject`, `Reply`) and, when SIGTERM interrupts it, its
  `finally` (`FinalOpen`, `FinalWrite`); `main` through the atexit handler
  (`ExitOpen`, `ExitWrite`, `End`). The two halves of a save are separate steps
  because `open(..., 'wb')` empties the file. SIGTERM may strike at each point of
  the main thread (`Interrupt...`), SIGKILL anywhere; `Start` is the constructor.
  A client waits at most 100 ms (`TimeOut` at any moment); its request may be
  carried out later all the same, or be lost (`Lose`).
* `Registrar` is shown to implement `Register` (`RefinesRegister`): what the calls
  act on is the store while the process lives and what the file would be read as
  once it has saved; a call takes effect in the step that handles it.

### The task nodes and the state machine

* `PathTask` has the three threads of the node, with a step for every access to a
  field another thread may have changed: `ImageArrives` .. `AppendPath` are
  `image_recognition_cb` with `align_to_path` (`AlignAxis` once per axis, `Settle`)
  and `select_correct_path`, `EnableArrives`, `EnableWrites` and `EnableResets` are
  `module_enable_cb`, `WatchTests` and `WatchCompares` `motor_watcher`. `Complete(t)`
  and `StopMotors(t)` are `task_complete` and `stop_motors` in whichever thread calls
  them. `asked` holds the axes whose last command is not 0.
* `QualifyTask`: `worker` says where each thread of `diveAndDrive` stands; `Wake` and
  `Check` are the loop of `fancySleep` and the second look at `isEnabled` behind it.
* `BuoysTask`: one thread, but `performTask` runs in the callback of `Module_Enable`
  and spins. `performs` is the stack of its calls under way; the last element
  steps (`PerformStep`), while anything else may be handled inside it
  (`BuoysEnable`, `BuoysDisable`, `SampleArrives`). Each phase is one loop of
  `performTask`, `searchBuoys`, `centerOnBuoy` or `bumpBuoy`.
* `StateMachine` is the interpreter: `getAllClasses`, the lists of triggers and
  timers, a loop of each thread over its list (`LoopStarts`, `Passes`, `Fires`,
  `LoopEnds`) and `ChangeState`, one class a step (`RemoveClass`, `Removed`,
  `AddClass`, `Changed`). A loop over a list that is replaced under it goes on
  with the old one; over one that is appended to, it sees what is appended
  (`live`). `MCNodes` gives it the classes of `SubStateMachine/class`.
* `States` is what it promises the modules: a state is a set of classes; on the way
  to another all that are not part of it leave (`Leave`), then all that are missing
  enter (`Enter`), and each tells its modules as it does. `StateMachine` is shown to
  implement it (`RefinesStates`), up to the first overlap of two changes (`Lose`).
* `Nodes` composes them: QualifyTask hears what the state machine sends
  (`QualifyHears`), PathTask and BuoysTask are enabled and disabled at any time.

### The Brain and the sensors

* `Sensors`: the board that prints a line (`BoardLoops`), the node that publishes
  what changed or is a second old (`ReadLine`, `Due`, `TimerEnds`) and only then
  handles requests (`Spin`), lines lost, and a port that fails and opens.
* `Brain` hears `Motor_State` from it. The two `MonitorState`s go from `entered`
  through `listening` to `waiting`, since a notification before `wait` is lost;
  `Hear` is `Idle.cb` and `MissionMonitor.cb`, `StartRun` .. `EndRun` is the
  Concurrence `CompRun`, `MissionStarts`, `MissionTests`, `MissionDrives` and `MissionEnds`
  `NewPathTask.execute`, `PathSeen` its `objCallback`. smach is not in the
  repository: its `MonitorState` follows the copy in a comment of
  `Brain/src/utils.py:104`, its Concurrence the way `Brain.py` uses it.

The `MC*` modules hold the model values; the `.cfg` files the
constants. The proofs are in `MotorLinkProofs`, `MotorRampProofs`, `MotionProofs`,
`RegistrarProofs`, `PathTaskProofs`, `StateMachineProofs`, `TasksProofs` and
`BrainProofs`. The mutants (definitions whose comment
begins "Mutant of") are plausible mistakes in the code; each property of a
passing run is shown to notice one of them.

### What is abstracted

* A frame is a record; the bytes 'S' and 'E' and the resynchronisation of the
  receivers are not modelled: a damaged frame is a lost frame (`Lose`).
* Time on the link is counted in `RESEND_TIMEOUT` intervals. Shorter periods (70
  ms, 100 ms) are left to chance: an action that may be due may or may not happen.
* `setMotors` writes four outputs one after another; here it is one step.
* `CLEAR_CMD` ('X') is left out: nothing in the repository sends it.
* Opening a port resets the board (Arduino boards do, on DTR) and may fail, in
  the constructor as in `transmit()`.
* Percentages are integers in units of `Full`, angles whole degrees with
  `HalfTurn` for 180, the trims fractions of `TrimUnit`. Which values are equal,
  which are 0 and which saturate is kept; that is what the code branches on.
* The integrator of SubDepthController is abstracted: the controller's output
  is any value the branch taken allows.
* `Module_Control`, the topic that would switch SubHeading and SubDepthController
  off, has no publisher: `MODE` stays ON.
* Yaw, Pitch, Pivot and `Center_On_Point` are left out of HighLevelControl, and
  so is `Turn`/`Manual` from anyone but SubHeading (`MotionAssumption`): of the
  code that runs only the PathTask node does that.
* `High_Level_Motion` is a queue per publisher with room for `MotionBound`
  messages that does not drop (100 in the code, against a handful per second);
  `Target_Heading` and `Target_Depth` hold `TopicBound` and drop the oldest, as
  in the code; on `Motor_Control` the motor node is assumed to keep up.

* Atlas is what its forwarding does to a call: it passes it on, drops it when its
  backend cannot take it at once, and stops when its thread is interrupted. Looked
  up addresses are right, or lead nowhere (`Lose`): its TCP ports are random.
* Keys and values are scalars, for which msgpack and YAML are exact. A tuple as a
  key would be saved as a sequence that `safe_load` cannot read back as a key;
  no program of the repository sets one.
* The core is taken as it is once each thread has found its node (`core.py:40`
  looks the node up when the thread runs). Its default file is `/dev/null`: what
  is said of its file holds when it is given one. A dump takes the pairs of the
  store in one step (`list(mapping.items())`).
* In the task nodes retries are not counted (a loop that may give up may do so at
  any turn), and the sizes, distances and angles of what the camera sees are any:
  PathTask knows which axes a path is off on, BuoysTask how many samples of a
  buoy there are, up to the three that make it visible. Turns and depths asked
  for by BuoysTask are left out; of a sleep of QualifyTask only that it ends.
  Several paths in a frame are one value (`Several`), since what
  `select_correct_path` makes of them raises in each case.
* StateMachine has triggers on equality (`=`) and on any message, and transitions
  as their effects: the only ones the class files that matter here use.
  Triggers and timers are kept alike, in a list per thread. The machine is
  followed up to the first overlap of two `ChangeState`s (`overlapped`); messages
  and timers come at every step of one.
* Of the sensors' readings the kill switch has a value; of the others only that
  some change. `Quiet` is a set of them, each with a timer. Lines reach the node
  one at a time, and what they are spoilt by does not matter (`LineLost`).
* NewPathTask's count of seconds is `expired`; of the commands of the Brain the last
  `Forward` is kept. A `move` is one step.

## 3. The runs

| Run | Question | Bounds | Result |
|---|---|---|---|
| `link_ramp` | Do host and board agree, and does the board bar what it must, while frames are lost, the host dies, sides overload and the kill switch is pulled? | `MaxByte` 2, step 1, 1 loss in a row, heartbeat 2 intervals, 3 commands incl. reversal and out of range | `TypeOK`, `HBridgeSafe`, `BeliefTracks`, `LabelMatches`, `NoFalseHeartbeat`, `OverloadFreezes`, `RefinesThruster` hold |
| `link_delay` | When answers may be later than the resend timeout, so that requests are answered twice: does a killed sub rest, and is a stop obeyed? | `MaxByte` 1, 2 frames in flight, heartbeat 2, delays, kill switch, no loss or crash | `KillHolds`, `StopObeyed` hold |
| `link_live` | Does a target arrive in the end, and do the motors stop without a host? | `MaxByte` 1, 1 loss in a row, crashes, kill switch | `StopsWithoutHost`, `Converges` hold |
| `motion_steer` | Does a stopped sub stop turning, whatever steering is still under way? Can a death of the motor node leave a thruster at an old speed? | 3 messages per publisher, one yaw half a turn off, respawn and QualifyTask | `TypeOK`, `StoppedIsStraight`, `DeathOnlyStops` hold |
| `motion_lands` | Is the cache of last speeds true, and does every wish reach the thrusters? | strafe, dive and an unknown direction, one depth sample | `CacheIsLastSent`, `ThrustLands` hold |
| `motion_cache` | The same cache with the QualifyTask node running | | `CacheIsLastSent` violated: finding 1 |
| `motion_depth` | Does a depth command arrive? | fair scheduling | `DepthCommandArrives` violated: finding 2 |
| `motion_scan` | Is a heading held by a sub that stands still? | fair scheduling | `HeadingHeld` violated: finding 3 |
| `registrar` | Is every call atomic and done at most once, and kept by a restart? | 2 clients of 2 calls, 1 key, 2 values (None is one), 2 SIGTERMs in a life, SIGKILL, any number of lives | `TypeOK`, `ExitSaves`, `FollowersAgree`, `RefinesRegister` hold |
| `registrar_exit` | Does atexit always work? | 1 client of 1 call | `AtexitAlwaysWorks` violated: finding 4 |
| `nodes` | What do the races of a task's threads and callbacks leave behind? Does a task run only in its state? | 2 enabling messages of each task, goal of 2 still frames, patience of 1 tick, 2 kinds of sighting, 2 threads of QualifyTask, 6 classes, 3 messages | `NodesTypeOK`, `DisabledIsStill`, `ReportsEarned`, `EnabledIsServed`, `StillForFirst`, `SuccessSawSecond`, `ListsAreCurrent`, `QualifyHasItsState`, `RefinesStates`, `Watched`, `EnabledEnds`, `Answered` hold |
| `brain` | Does each run need a pull of the kill switch, and does a pull end it? | 2 pulls, 1 failure of the port, 1 request, 1 report under way, 1 other group of readings | `BrainTypeOK`, `RunsArePulled`, `IdleIsDisabled`, `IdleIsStill`, `RequestServed`, `KillEndsRun` hold |

Why the bounds are enough. On the link the interesting number is what can be
outstanding at once: without delays one frame (this is proved, `LinkAlternates`),
with them a request and its double, hence `MaxInFlight` 2. Two speeds beside rest
(`MaxByte` 2) give a ramp with a middle; one loss against a heartbeat of two is the
ratio the code has (up to 4 resends within `HEART_BEAT_MS`), at its edge.
`link_delay` has byte width 1 (rest and one speed: neither property looks at the
ramp) and one pair of commands, since delays make its state space the largest; that
is enough for the late second answer of one request to meet the next, and without
delays the mutant of `StopObeyed` goes unnoticed. A full line holds the sender up,
which is why `Converges` is asked without delays only. In Motion two messages in one
queue are enough for every overtaking, `motion_steer` has a third so that a stop can
be queued behind steering that is itself queued. In `registrar` four calls let one
that timed out be overtaken by another of the same client and of the other; a second
SIGTERM is the first that can cut a save short, and a third adds none. Keys do not
interact. In `nodes` the second enabling message is the first that can meet what the
first started: another thread, a nested `performTask`, a watcher halfway through a
report; a third finds nothing new. Three messages of the state machine start a
state, leave it and start it again. In `brain` two pulls give a run after a run, in
which all that is never reset is old; one report under way is the repeated one,
since the next is published only with a line that finds room. The two runs do not
check deadlock, because their tallies are bounded and everything may come to rest.
The theorems below hold without these bounds.

### Fairness

* Link: `WF(HostStep)` and `WF(BoardStep)`, since `main()` calls `spinOnce()`
  every 10 ms and `loop()` runs freely; `WF(Tick)`, time passes; `SF` on
  processing a response, since a frame on the line does arrive and `receive()` is
  entered again and again; `SF(CheckMotor)`, since `lastMotorTime` is set by a
  drive command only, so among the visits that find nothing pending some find the
  period elapsed, and queries cannot starve it; `OpensInTheEnd`, a port tried
  again and again opens, without which nothing can converge. None of it makes
  losses stop: `MaxLosses` bounds those in a row.
* Motion: weak fairness of the control loop, of the end of a `spinOnce` (it
  handles what had arrived, a finite batch), of the motor node and of the depth
  target's callback. `SteerSpec` adds SubHeading's callbacks and samples, and
  `SF` on handling a message of each publisher (the subscriber's queue is in
  order of arrival, so no publisher is put off for ever). The two violation runs
  on liveness use these, so their counterexamples are not a system that stopped.
* Nodes: weak fairness of `motor_watcher` (a loop with a sleep) and of time, of the
  steps of PathTask's callbacks once they are entered, of each
  thread of QualifyTask, of the innermost `performTask`; strong fairness of the
  steps that leave a loop of it (`GiveUp`), since its turns are counted. Nothing
  is assumed of images, samples or messages.
* Brain: the board prints, ports open and timers run out (weak), not every line is
  spoilt (`SF(ReadLine)`); the threads of the Brain run, `rospy` delivers what was
  published, and the mission's loop turns. Paths need not be seen, nor the
  switch ever be touched.
* Registrar: none; all that is claimed of it is safety. Nothing ensures that a
  client is ever answered (`TimeOut` and `Lose` are always possible).

## 4. What is proved

All theorems are proved with TLAPS for every value of the constants that meets the
named assumptions.

* `TypeCorrect`, `HBridgesSafe`, `KillSwitchHolds`, `OverloadBarsCommands`
  (`MotorLinkProofs`), under all faults. `HBridgeSafe` is not inductive: a
  two-sided frame might be on its way. The invariant adds `FramesOneSided`: every
  drive command pending or on the line drives at most one input of each bridge,
  which is what `Encode` returns (`EncodeDecode`). `KillHolds`
  needs `KilledIsCut` and that a cut side is off.
* `LinkAlternates`, `LabelsMatch`, `HeartbeatIsQuiet`, `BeliefIsTrue`,
  `LinkImplementsThruster` (`MotorRampProofs`), for `"delay" \notin Faults`.
  The argument is in three layers. First, the line carries the pending request or
  its answer and nothing else (`Alternates`); from it labels match. Second, each
  tick of silence is paid for by a lost frame (`SilenceIsLoss`), and
  `MaxLosses < HeartBeat` by `MotorLinkAssumption`, so the heartbeat stays quiet.
  Third, where the two ends stand in the ramp (`RampInStep`): equal, or a request
  for the next step is pending, sent or executed but not heard of. The belief
  and the refinement of `Thruster` follow from the third layer.
* `MotionTypeCorrect`, `StoppedStraight` (`MotionProofs`), under all faults. The
  invariant says of SubHeading's queue that while the sub is stopped its last
  `Turn`/`Manual` is the 0, or there is none and the speed is already 0.
* `CacheTrue`, for `Faults = {}`: the three caches are the last speeds queued to,
  or in force at, the motor node. That assumption is the point: `motion_cache`
  shows it cannot be dropped. `OnlyStops` is what remains under all faults: the
  pairs QualifyTask does not drive end up with the remembered speed or at rest.
  Both are inductive with `TypeOK` alone, and rest on two lemmas about last words:
  a message published is the last word for its pair and for no other
  (`AppendEnds`), and the motor node, which takes them in order, does not change
  which word is the last (`MotorMessageEnds`).
* `TypeCorrect`, `SigtermLosesNothing`, `ChannelTellsStore`,
  `RegistrarImplementsRegister` (`RegistrarProofs`), under all faults. The
  invariant has three parts beside them. `Shutdown`: the thread of `run()` is over
  before the atexit handler of a standalone Registrar runs, and a save under way
  means a SIGTERM was spent, so that the one that cuts it short is the second.
  `InHand`: what the request in hand and its response are at each line. `Fresh`: a
  call that may take effect waits in one place and its number is not above its
  client's count, so that no id is used twice. Each action then maps to one of
  `Register`: `Send` to `Invoke`, the three handlers to `Apply` (to `Forget` in a
  core that has saved already), `Start` to `Recover` or nothing, `Kill` and a
  second SIGTERM to `Spoil`, the rest to `Forget` or nothing.

* `PathTypes`, `DisabledTaskIsStill`, `PathReportsEarned` (`PathTaskProofs`). For the
  second, the invariant says of each axis still asked for by a disabled task who
  will stop it: a thread on its way through `stop_motors`, or `module_enable_cb`
  before its last test; otherwise `late` is set (`WillStop`). For the third, a thread
  between its test of `enabled` and its report has a report to spare (`HasReport`).
* `QualifyIsServed`, `BuoysTypes`, `FirstBuoyStill`, `SuccessIsSeen`, `PathAmongNodes`
  (`TasksProofs`), of the composition `Nodes`. `FirstBuoyStill` needs that all calls
  but the innermost are disturbed (`Outer`), so that what returns to an outer call
  falls under no promise; `SuccessIsSeen` that a call which has not seen the
  second buoy since backing off has none of its samples (`Honest`), which is what
  `clearPastSamples` is for.
* `NodesTypes`, `ListsStayCurrent`, `QualifyKeepsItsState` (`TasksProofs`, on the
  lemmas of `StateMachineProofs`), for any class files that meet `StateAssumption`
  and any number of topics and messages. Neither of the last two is inductive: in
  the middle of a `ChangeState` the lists agree with no state. The invariant (`Kept`)
  is that, until two changes overlap, there is a set of classes that *is set up*
  (`SetUp`): the current ones if no change is under way; in the first loop what the
  old and the new state share and what is still to be removed; in the second the
  new state without what is still to be added. The lists hold what these classes
  bring (`ListsHold`), and QualifyTask will be enabled, once it has heard the last
  message on its way to it or if there is none and it is now (`EndsOn`), only if one
  of them activates it (`OnFor`). `RemoveClass` and `AddClass` take one class from the
  set or put one in, whose messages then are the last word for its modules and none
  for others (`LastWord`); that a class added is not in the set yet keeps the lists
  free of doubles; a change starts with the current classes and ends with the new
  ones. QualifyTask takes the messages in order, which leaves the last word what it
  was, and its own threads can only disable it. TLC agrees that `MachineInv`, which
  contains all this, holds in each state of the run `nodes`.
* `MachineImplementsStates` (`TasksProofs`), from the same invariant. The set that `Kept`
  promises is computed from the state by `UpNow`, the lemmas say (`NowIs`, `ThenIs`), and
  is the `up` of `States`; its `target` is the state the thread that is changing is on
  its way to, or the current one (`TargetNow`). `Fires` maps to `Begin`, or to `Lose`
  when a change was under way; `RemoveClass` to `Leave`, `AddClass` to `Enter`,
  `QualifyHears` to `Hear` and the loops to nothing. So do `Removed` and `Changed`,
  because the first loop ends with what the states share and the second with the
  whole of the new one.
* The lemmas they rest on say what `Without`, `RemoveFirst`, `Told` and `New` return.
  The list that `filter` leaves is `Without`, defined by the ascending enumeration of the
  positions it keeps, rather than by the recursion of `SelectSeq`, which the prover
  cannot unfold: that such an enumeration exists, and leaves no position out, is
  `AscendingExists` and `AscendingIs`, by counting how many positions come no later.
* `StateAssumption` is what the files of `SubStateMachine/class` and `Trigger` meet: each
  activates finitely many modules, no file has the same trigger or timer
  twice, and the effect of a timer, which is executed with no message, names
  its state. Nothing is assumed of inheritance (it may be cyclic) or of names: a
  transition may lead to a class without a file, as those to `EmergencySurface` do.

* `BrainTypes`, `IdleHasNoTask`, `IdleStaysStill`, `EachRunIsPulled` (`BrainProofs`). The
  type invariant has `requests + commands <= asked`: nothing is sent to the board
  twice. For the two of Idle the invariant is that a mission's thread lives only
  during a run, CompRun waiting for all its children, and has a task only in its
  loop (`RunOrIdle`). For `RunsArePulled` every value on its way from the switch
  through the line and the reports to Idle is stamped with a pull it may belong
  to (`PullsLast`): from the runs started or about to be, by way of what Idle
  heard last, up to the pulls made, the stamps do not decrease, and a 0 behind a
  1 is a pull more.

Only model-checked: everything under fairness (`StopsWithoutHost`, `Converges`, `StopObeyed`,
`ThrustLands`, `Watched`, `EnabledEnds`, `Answered`, `RequestServed`, `KillEndsRun` and the
two violated leads-to), since liveness and ENABLED are out of the prover's reach.
Every safety property of a passing run, invariant or action property, is stated by
a theorem. No module has a recursive operator, and no property is about what a
definition by induction over data computes.

## 5. Findings

1. **The speeds HighLevelControl remembers need not be the last sent**
   (`motion_cache`). QualifyTask drives past it; a stop asked for afterwards
   equals the remembered 0 and is never sent.
2. **A depth command can get lost** (`motion_depth`). The depth controller's
   output arriving in the same `spinOnce` sets the mode to MANUAL before the loop
   has passed the command on.
3. **A standing sub does not turn** (`motion_scan`). A `Turn` command sets
   SubHeading's target, which it pursues only while moving forward; ScanNarrow
   in the Brain turns on the spot.
4. **atexit does not always work** (`registrar_exit`). roslite's README says SIGKILL
   is treated as KeyboardInterrupt is; it is SIGTERM that the code catches. A
   SIGKILL loses what was set since the start, and all that was ever stored if it
   comes between the opening and the writing of the file. With SIGTERM in its
   place the sentence is still too strong: a second SIGTERM during the atexit
   handler leaves the file empty, which is why `ExitSaves` allows one.

Observed while modelling, and not the subject of a run:

* The control path: the comment at lines 218-219 of the board sketch fears a
  rollover of `millis()` that unsigned subtraction survives; the header comment of
  SubHeading says it deactivates on strafing, which nothing does; `SubDepthController`
  and `SubHeading` wrap and bound by expressions worth a test (`fmod(..., 180)`, the
  inverted band); the Brain's comment "motors should be reset now" ignores strafing.
* PathTask: the direction `Straf` it publishes is unknown to HighLevelControl, so a
  path off to a side keeps the task busy to no effect. Enabling a running task resets
  `last_motor_change` without stopping the motors: the motion in force is no longer
  watched, and goes on until an image changes it. The end of `stop_motors` (line 155)
  does the same when it belongs to a report of an earlier run and the task has been
  enabled since. Both are what `Watched` excludes as `Overridden`. A watcher between
  its two tests (lines 107, 108) when the field is reset reports a failure at once. With several paths in view
  line 88 raises before `paths` is emptied, and so does every later first image. A
  failure is published as plain "Failure" (precedence, line 147).
* BuoysTask: a run that does not find the red buoy returns with Forward 125 in force;
  a disabled one goes on to its end; samples of an earlier run count in the next.
* QualifyTask: disabling it does not stop the thrusters. `while timeLeft` ends only
  because each time is a multiple of the slice.
* SubStateMachine: a class without `CompRun` among its ancestors (GateTask, BuoyTask)
  has no trigger on the kill switch, nor one on `ChangeState`. An unknown name leads to a state
  without triggers, which is never left, since line 115 compares a string with 0.
  Timers given in milliseconds are refused (line 253). A timer that ran out in the
  same pass fires although its state has just been left.
* Brain: a mission that times out ends nothing: the sub keeps its last Forward
  until the kill switch is pulled. `is_complete` and `timeout` are never reset and
  `objSub` is never unregistered, so that a second run ends at once after a
  success, and a path seen may move an idle sub. `outcome_map` names an outcome
  'failed' that the mission has not.
* SubSensorController: `getLock` unlocks the mutex that `checkLock` took (harmless with
  one thread); `lastChar` is read before it is set; in 32 bits the timers overflow and
  may be late by more than an hour.

## 6. Not modelled

The map covers a small share of the repository's lines, and must: most of them
are vendored libraries (qcustomplot, the MIP SDK, libserial, ring buffers), the
user interfaces, the numerics of the vision nodes and drivers of devices. Of the
code that has control of its own, what is left out is:

* *The start-up of `core.py`, Atlas' tables, NanoBridge and Thermometer.* The model of
  the Registrar begins when each thread has found its node.
* *Framing of the motor link at byte level*: bytes as values multiply the states of
  the link, which is at the limit of what can be checked in minutes.
* *The death of HighLevelControl*, which breaks its cache at once, and PathTask as a
  second publisher of `Turn`/`Manual` in Motion; the closed depth loop.
* *Two ChangeStates at once* in SubStateMachine, beyond their first step: nothing the
  program promises survives them.
* *The tasks and missions the Brain does not import*, and its outer Concurrence, which
  no code ends.
* *GateTask* (one flag and one thread), *TorpedoTask and ObstacleCourseTask* (unheard),
  *NavigationControl* (deaf): there is no interleaving in them to check.
* *Vision, sensor drivers and translators, console, simulator, test programs, earlier
  sketches*: device input, numerics and user interface, without a protocol.

## 7. Running it

    tlc -config link_ramp.cfg MCMotorLink        # the other link_* likewise
    tlc -config motion_steer.cfg MCMotion        # motion_lands, motion_cache, ...
    tlc -config registrar.cfg MCRegistrar        # registrar_exit likewise
    tlc -config nodes.cfg MCNodes
    tlc -config brain.cfg MCBrain
    tlapm MotorLinkProofs.tla                    # each *Proofs module
