------------------------------ MODULE Sensors -------------------------------
(***************************************************************************)
(* The sensor board, which prints a line of readings ten times a second or *)
(* more, and the node SubSensorController (roscpp, one thread), which      *)
(* publishes what has changed and, once a second, also what has not.  The  *)
(* node handles its own callbacks only after it has published something.   *)
(***************************************************************************)
EXTENDS Naturals, Sequences, FiniteSets

CONSTANTS
    Quiet,          \* the readings beside the kill switch: groups with a timer each
    MaxPulls,       \* bound: times the switch is pulled
    MaxRequests,    \* bound: torpedoes and droppers asked for
    MaxFailures,    \* bound: times the port fails
    MaxReports      \* bound: Motor_State messages on their way

ASSUME SensorsAssumption ==
    /\ "motor" \notin Quiet
    /\ {MaxPulls, MaxRequests, MaxFailures, MaxReports} \subseteq Nat
    /\ MaxPulls # 0      \* it may be found pulled

VARIABLES
    switch,         \* what the pin reads: 1 lets the motors run
    line,           \* the lines the port holds, one at most
    controllerState,
    motorKilled,    \* the value last published
    timedOut,       \* the groups whose timers have run out
    requests,       \* Torpedo_Launch and Dropper_Activate messages waiting
    commands,       \* and what has been written to the board for them
    reports,        \* Motor_State messages on their way to the Brain
    pulls, asked, failures     \* tallies

sensorsVars == <<switch, line, controllerState, motorKilled, timedOut, requests,
                 commands, reports, pulls, asked, failures>>

Group == Quiet \cup {"motor"}
Waiting == "WAITING_ON_FD"
Working == "WORKING"

SensorsTypeOK ==
    /\ switch \in {0, 1} /\ motorKilled \in {0, 1}
    /\ line \in Seq({0, 1}) /\ Len(line) <= 1
    /\ controllerState \in {Waiting, Working} /\ timedOut \subseteq Group
    /\ reports \in Seq({0, 1}) /\ Len(reports) <= MaxReports
    /\ pulls \in 0..MaxPulls /\ failures \in 0..MaxFailures
    /\ asked \in 0..MaxRequests /\ {requests, commands} \subseteq Nat
    /\ requests + commands <= asked

\* The switch may be in either position when the sub is started.
SensorsInit ==
    /\ switch \in {0, 1} /\ pulls = 1 - switch
    /\ line = <<>> /\ controllerState = Waiting /\ motorKilled = 0
    /\ timedOut = {} /\ requests = 0 /\ commands = 0 /\ reports = <<>>
    /\ asked = 0 /\ failures = 0

-----------------------------------------------------------------------------
\* The operator's hand.
Pull ==
    /\ switch = 1 /\ pulls < MaxPulls
    /\ switch' = 0 /\ pulls' = pulls + 1
    /\ UNCHANGED <<line, controllerState, motorKilled, timedOut, requests, commands,
                   reports, asked, failures>>

Push ==
    /\ switch = 0 /\ switch' = 1
    /\ UNCHANGED <<line, controllerState, motorKilled, timedOut, requests, commands,
                   reports, pulls, asked, failures>>

\* The board's loop: it obeys a command, if one is complete, and prints a line.
BoardLoops ==
    /\ line = <<>> /\ controllerState = Working
    /\ line' = <<switch>>
    /\ \E n \in 0..commands : n <= 1 /\ commands' = commands - n
    /\ UNCHANGED <<switch, controllerState, motorKilled, timedOut, requests, reports,
                   pulls, asked, failures>>

-----------------------------------------------------------------------------
\* Mutant of Due: only what has changed.
DueChanged(changed) == changed

\* What is published of a line: what has changed and what is a second old.
Due(changed) == changed \cup timedOut

\* Mutant of Spin: the messages handled are handled again.
SpinAgain(published) ==
    /\ commands' = IF published = {} THEN commands ELSE commands + requests
    /\ UNCHANGED requests

\* The requests are written to the board if anything at all is published.
Spin(published) ==
    /\ commands' = IF published = {} THEN commands ELSE commands + requests
    /\ requests' = IF published = {} THEN requests ELSE 0

\* A good line: each group is published if it is due, and each publication is
\* followed by a spinOnce, in which the requests are written to the board.
ReadLine ==
    /\ controllerState = Working /\ line # <<>> /\ line' = <<>>
    /\ \E quiet \in SUBSET Quiet :
        LET value == Head(line)
            published == Due(quiet \cup {g \in {"motor"} : value # motorKilled})
        IN  /\ timedOut' = timedOut \ published
            /\ IF "motor" \in published
               THEN /\ Len(reports) < MaxReports
                    /\ reports' = Append(reports, value) /\ motorKilled' = value
               ELSE UNCHANGED <<reports, motorKilled>>
            /\ Spin(published)
    /\ UNCHANGED <<switch, controllerState, pulls, asked, failures>>

\* getTTYLine times out, or goodLine or sscanf reject what it returns.
LineLost ==
    /\ line # <<>> /\ line' = <<>>
    /\ UNCHANGED <<switch, controllerState, motorKilled, timedOut, requests,
                   commands, reports, pulls, asked, failures>>

TimerEnds(g) ==
    /\ g \notin timedOut /\ timedOut' = timedOut \cup {g}
    /\ UNCHANGED <<switch, line, controllerState, motorKilled, requests, commands,
                   reports, pulls, asked, failures>>

\* A failed read closes the port, which the main loop opens again.
PortFails ==
    /\ controllerState = Working /\ failures < MaxFailures
    /\ controllerState' = Waiting /\ line' = <<>> /\ commands' = 0
    /\ failures' = failures + 1
    /\ UNCHANGED <<switch, motorKilled, timedOut, requests, reports, pulls, asked>>

PortOpens ==
    /\ controllerState = Waiting /\ controllerState' = Working
    /\ UNCHANGED <<switch, line, motorKilled, timedOut, requests, commands, reports,
                   pulls, asked, failures>>

Ask ==
    /\ asked < MaxRequests /\ asked' = asked + 1
    /\ requests' = requests + 1
    /\ UNCHANGED <<switch, line, controllerState, motorKilled, timedOut, commands,
                   reports, pulls, failures>>

SensorsNext ==
    \/ Pull \/ Push \/ BoardLoops \/ ReadLine \/ LineLost
    \/ \E g \in Group : TimerEnds(g)
    \/ PortFails \/ PortOpens \/ Ask

\* Time passes, the board prints, and not every line is spoilt.
SensorsFairness ==
    /\ WF_sensorsVars(BoardLoops) /\ SF_sensorsVars(ReadLine)
    /\ WF_sensorsVars(PortOpens) /\ \A g \in Group : WF_sensorsVars(TimerEnds(g))

-----------------------------------------------------------------------------
\* A torpedo or dropper asked for is passed on to the board, even if no reading
\* changes ever after, a line or two are spoilt and the port fails meanwhile:
\* the only spinOnce is behind a publication, which the timers force.
RequestServed == requests > 0 ~> requests = 0
=============================================================================
