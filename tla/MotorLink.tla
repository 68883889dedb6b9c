----------------------------- MODULE MotorLink -----------------------------
(***************************************************************************)
(* One MotorControllerHandler of the SubMotorController node (the host),   *)
(* the motor controller board it talks to, and the serial line between     *)
(* them.  The host polls: spinOnce() is receive(), CheckMotor(),           *)
(* CheckQuery() and the resend test, and pc says which of them comes next. *)
(* At most one request is outstanding as far as the host knows, but a      *)
(* request that is retransmitted may be answered twice.                    *)
(*                                                                         *)
(* Time is counted in RESEND_TIMEOUT intervals (1 s): Tick makes the       *)
(* pending request late and lets the board's heartbeat age by one.  The    *)
(* shorter periods (70 ms, 100 ms, 1 s) that decide when a command or a    *)
(* query is due are left to chance.                                        *)
(***************************************************************************)
EXTENDS MotorFrames, Sequences

CONSTANTS
    HeartBeat,      \* HEART_BEAT_MS in ticks: 5
    MaxLosses,      \* bound: frames lost in a row
    MaxInFlight,    \* bound: frames on the line
    Commands,       \* the (right, left) pairs /Motor_Control asks for
    Faults          \* what may go wrong in this instance

ASSUME MotorLinkAssumption ==
    /\ HeartBeat \in Nat /\ MaxLosses \in Nat /\ MaxLosses < HeartBeat
    /\ MaxInFlight \in Nat \ {0}
    /\ Commands \subseteq [Side -> Int]
    /\ Faults \subseteq {"loss", "delay", "kill", "overload", "crash"}

VARIABLES
    \* the host: fields of MotorControllerHandler
    pc, portOpen, awaitingResponse, currentMessage, speed, targetSpeed, late,
    published,      \* the last MotorCurrentMsg: its label and what was measured
    \* the board: globals of the sketch, the PWM outputs and the kill switch
    phase, pwm, motorOverload, motorsKilled, silence, killPin,
    cut,            \* history: sides switched off since the last DRIVE accepted
    \* the serial line
    toBoard, toHost,
    losses          \* history: frames lost since the host last got an answer

hostVars  == <<pc, portOpen, awaitingResponse, currentMessage, speed,
               targetSpeed, late, published>>
boardVars == <<phase, pwm, motorOverload, motorsKilled, silence, cut>>
lineVars  == <<toBoard, toHost, losses>>
vars      == <<hostVars, boardVars, killPin, lineVars>>

Nothing == [position |-> " ", measured |-> " "]

TypeOK ==
    /\ pc \in {"down", "receive", "drain", "motor", "query", "resend"}
    /\ portOpen \in BOOLEAN /\ awaitingResponse \in BOOLEAN /\ late \in BOOLEAN
    /\ currentMessage \in Request \cup {NoMessage}
    /\ speed \in [Side -> Speed] /\ targetSpeed \in [Side -> Speed]
    /\ published \in [position : Side, measured : Side] \cup {Nothing}
    /\ phase \in {"packet", "health"}
    /\ pwm \in [Side -> Duty]
    /\ motorOverload \subseteq Side /\ cut \subseteq Side
    /\ motorsKilled \in BOOLEAN /\ killPin \in BOOLEAN
    /\ silence \in 0..HeartBeat
    /\ toBoard \in Seq(Request) /\ toHost \in Seq(Response)
    /\ losses \in 0..MaxLosses

\* The handler is constructed; Open() succeeds (the board resets) or throws.
Init ==
    /\ pc = "receive" /\ portOpen \in BOOLEAN
    /\ awaitingResponse = FALSE /\ currentMessage = NoMessage /\ late = FALSE
    /\ speed = Stopped /\ targetSpeed = Stopped /\ published = Nothing
    /\ phase = "packet" /\ pwm = AllOff /\ motorOverload = {}
    /\ motorsKilled = FALSE /\ silence = 0 /\ cut = {}
    /\ killPin \in (IF "kill" \in Faults THEN BOOLEAN ELSE {FALSE})
    /\ toBoard = <<>> /\ toHost = <<>> /\ losses = 0

-----------------------------------------------------------------------------
(* The host                                                                *)

\* Opening the port resets the board and empties both directions of the line.
BoardReset ==
    /\ phase' = "packet" /\ pwm' = AllOff /\ motorOverload' = {}
    /\ motorsKilled' = FALSE /\ silence' = 0 /\ cut' = {}
    /\ toHost' = <<>> /\ losses' = 0

\* transmit(): opens the port first if need be; errors are only logged.
TransmitOpen(m) ==
    /\ portOpen
    /\ Len(toBoard) + Len(toHost) < MaxInFlight
    /\ toBoard' = Append(toBoard, m)
    /\ UNCHANGED <<portOpen, boardVars, toHost, losses>>

TransmitReopen(m) ==
    /\ ~portOpen
    /\ portOpen' = TRUE /\ BoardReset /\ toBoard' = <<m>>

TransmitFails ==
    /\ ~portOpen
    /\ UNCHANGED <<portOpen, boardVars, lineVars>>

Transmit(m) ==
    /\ currentMessage' = m /\ awaitingResponse' = TRUE /\ late' = FALSE
    /\ TransmitOpen(m) \/ TransmitReopen(m) \/ TransmitFails

\* motorMessage() -> setMotorSpeed(), run by ros::spinOnce between two spins.
SetMotorSpeed(c) ==
    /\ pc = "receive"
    /\ targetSpeed' = [s \in Side |-> Filter(c[s])]
    /\ UNCHANGED <<pc, portOpen, awaitingResponse, currentMessage, speed, late,
                   published, boardVars, killPin, lineVars>>

\* receive(): the test is made once, then whatever has arrived is read.
Receive ==
    /\ pc = "receive"
    /\ pc' = IF portOpen /\ awaitingResponse THEN "drain" ELSE "motor"
    /\ UNCHANGED <<portOpen, awaitingResponse, currentMessage, speed,
                   targetSpeed, late, published, boardVars, killPin, lineVars>>

\* What processing any frame does, whatever its type.
TakeResponse ==
    /\ pc = "drain" /\ toHost # <<>>
    /\ toHost' = Tail(toHost) /\ losses' = 0
    /\ UNCHANGED <<pc, portOpen, targetSpeed, late, boardVars, killPin, toBoard>>

Settle == currentMessage' = NoMessage /\ awaitingResponse' = FALSE

DriveEchoed ==
    /\ TakeResponse
    /\ Head(toHost).type = "d" /\ currentMessage.type = "D"
    /\ speed' = Applied(Head(toHost).duty)
    /\ Settle
    /\ UNCHANGED published

CurrentReported ==
    /\ TakeResponse
    /\ Head(toHost).type = "c" /\ currentMessage.type = "C"
    /\ published' = [position |-> currentMessage.side,
                     measured |-> Head(toHost).side]
    /\ Settle
    /\ UNCHANGED speed

VoltageReported ==
    /\ TakeResponse
    /\ Head(toHost).type = "v" /\ currentMessage.type = "V"
    /\ Settle
    /\ UNCHANGED <<speed, published>>

\* Mutant of ErrorReported: the refused command is taken for an executed one.
ErrorAsDone ==
    /\ TakeResponse
    /\ Head(toHost).type = "e"
    /\ awaitingResponse' = FALSE
    /\ speed' = IF currentMessage.type = "D" THEN Applied(currentMessage.duty)
                                            ELSE speed
    /\ UNCHANGED <<currentMessage, published>>

\* An error ends the wait whatever was asked, and leaves currentMessage alone.
ErrorReported ==
    /\ TakeResponse
    /\ Head(toHost).type = "e"
    /\ awaitingResponse' = FALSE
    /\ UNCHANGED <<currentMessage, speed, published>>

MismatchIgnored ==
    /\ TakeResponse
    /\ <<Head(toHost).type, currentMessage.type>>
         \notin {<<"d", "D">>, <<"c", "C">>, <<"v", "V">>}
    /\ Head(toHost).type # "e"
    /\ UNCHANGED <<awaitingResponse, currentMessage, speed, published>>

\* The read loop ends when nothing more has arrived; a frame on its way may.
DrainDone ==
    /\ pc = "drain"
    /\ pc' = "motor"
    /\ UNCHANGED <<portOpen, awaitingResponse, currentMessage, speed,
                   targetSpeed, late, published, boardVars, killPin, lineVars>>

\* Mutant of CheckMotor: needsSent is set by a difference only.
CheckMotorChanged ==
    /\ pc = "motor" /\ ~awaitingResponse /\ speed # targetSpeed
    /\ Transmit(DriveMsg([s \in Side |-> RampTo(speed[s], targetSpeed[s])]))
    /\ pc' = "query"
    /\ UNCHANGED <<speed, targetSpeed, published, killPin>>

\* CheckMotor(), when nothing is awaited and MOTOR_PERIOD has passed.
CheckMotor ==
    /\ pc = "motor" /\ ~awaitingResponse
    /\ Transmit(DriveMsg([s \in Side |-> RampTo(speed[s], targetSpeed[s])]))
    /\ pc' = "query"
    /\ UNCHANGED <<speed, targetSpeed, published, killPin>>

MotorNotDue ==
    /\ pc = "motor"
    /\ pc' = "query"
    /\ UNCHANGED <<portOpen, awaitingResponse, currentMessage, speed,
                   targetSpeed, late, published, boardVars, killPin, lineVars>>

\* Mutant of CheckQuery: a query is sent although an answer is awaited.
CheckQueryAnyway(q) ==
    /\ pc = "query"
    /\ Transmit(q)
    /\ pc' = "resend"
    /\ UNCHANGED <<speed, targetSpeed, published, killPin>>

\* CheckQuery(): the first query that is due, right current, left current or
\* voltage; which of them that is depends on the clocks only.
CheckQuery(q) ==
    /\ pc = "query" /\ ~awaitingResponse
    /\ Transmit(q)
    /\ pc' = "resend"
    /\ UNCHANGED <<speed, targetSpeed, published, killPin>>

QueryNotDue ==
    /\ pc = "query"
    /\ pc' = "resend"
    /\ UNCHANGED <<portOpen, awaitingResponse, currentMessage, speed,
                   targetSpeed, late, published, boardVars, killPin, lineVars>>

Queries == [type : {"C"}, side : Side] \cup [type : {"V"}]

\* Mutant of Resend: a request is only repeated on a port that is open.
ResendIfOpen ==
    /\ pc = "resend" /\ awaitingResponse /\ late /\ portOpen
    /\ currentMessage # NoMessage
    /\ Transmit(currentMessage)
    /\ pc' = "receive"
    /\ UNCHANGED <<speed, targetSpeed, published, killPin>>

\* spinOnce(): the request is sent again once it is RESEND_TIMEOUT old.
Resend ==
    /\ pc = "resend" /\ awaitingResponse /\ late
    /\ currentMessage # NoMessage
    /\ Transmit(currentMessage)
    /\ pc' = "receive"
    /\ UNCHANGED <<speed, targetSpeed, published, killPin>>

SpinEnds ==
    /\ pc = "resend"
    /\ ~(awaitingResponse /\ late /\ currentMessage # NoMessage)
    /\ pc' = "receive"
    /\ UNCHANGED <<portOpen, awaitingResponse, currentMessage, speed,
                   targetSpeed, late, published, boardVars, killPin, lineVars>>

\* The node dies: unread answers go with it, bytes already sent do not.
Crash ==
    /\ "crash" \in Faults /\ pc # "down"
    /\ pc' = "down" /\ portOpen' = FALSE /\ awaitingResponse' = FALSE
    /\ currentMessage' = NoMessage /\ late' = FALSE /\ published' = Nothing
    /\ speed' = Stopped /\ targetSpeed' = Stopped
    /\ toHost' = <<>>
    /\ UNCHANGED <<boardVars, killPin, toBoard, losses>>

\* respawn="true": a new handler is constructed.
Restart ==
    /\ pc = "down" /\ pc' = "receive"
    /\ \/ portOpen' = TRUE /\ BoardReset /\ toBoard' = <<>>
       \/ UNCHANGED <<portOpen, boardVars, lineVars>>
    /\ UNCHANGED <<awaitingResponse, currentMessage, speed, targetSpeed, late,
                   published, killPin>>

-----------------------------------------------------------------------------
(* The board: loop() takes at most one packet, then checks its health      *)

Reply(r) == toHost' = IF portOpen THEN Append(toHost, r) ELSE toHost

\* Mutant of TakePacket: a packet does not restart the heartbeat.
TakePacketSilently(type) ==
    /\ phase = "packet" /\ toBoard # <<>>
    /\ Head(toBoard).type = type
    /\ toBoard' = Tail(toBoard) /\ phase' = "health"
    /\ UNCHANGED <<hostVars, motorOverload, motorsKilled, silence, killPin,
                   losses>>

TakePacket(type) ==
    /\ phase = "packet" /\ toBoard # <<>>
    /\ Head(toBoard).type = type
    /\ toBoard' = Tail(toBoard) /\ phase' = "health" /\ silence' = 0
    /\ UNCHANGED <<hostVars, motorOverload, motorsKilled, killPin, losses>>

\* Mutant of BoardDrives: the kill switch is not looked at.
BoardDrivesKilled ==
    /\ TakePacket("D")
    /\ motorOverload = {}
    /\ pwm' = Head(toBoard).duty /\ cut' = {}
    /\ Reply([type |-> "d", duty |-> Head(toBoard).duty])

\* Mutant of BoardDrives: only the left overload bars a command.
BoardDrivesOverloaded ==
    /\ TakePacket("D")
    /\ ~motorsKilled /\ "L" \notin motorOverload
    /\ pwm' = Head(toBoard).duty /\ cut' = {}
    /\ Reply([type |-> "d", duty |-> Head(toBoard).duty])

\* Command 'D' of loop(); 'X' (clear the overload) is left out, as nothing in
\* the repository sends it.
BoardDrives ==
    /\ TakePacket("D")
    /\ ~motorsKilled /\ motorOverload = {}
    /\ pwm' = Head(toBoard).duty /\ cut' = {}
    /\ Reply([type |-> "d", duty |-> Head(toBoard).duty])

BoardRefuses ==
    /\ TakePacket("D")
    /\ motorsKilled \/ motorOverload # {}
    /\ Reply([type |-> "e"])
    /\ UNCHANGED <<pwm, cut>>

BoardReportsCurrent ==
    /\ TakePacket("C")
    /\ Reply([type |-> "c", side |-> Head(toBoard).side])
    /\ UNCHANGED <<pwm, cut>>

BoardReportsVoltage ==
    /\ TakePacket("V")
    /\ Reply([type |-> "v"])
    /\ UNCHANGED <<pwm, cut>>

NoPacket ==
    /\ phase = "packet" /\ toBoard = <<>>
    /\ phase' = "health"
    /\ UNCHANGED <<hostVars, pwm, motorOverload, motorsKilled, silence, cut,
                   killPin, lineVars>>

\* checkHealth(): over is the set of sides whose current reads too high.
\* Mutant of HeartbeatExpired: off by one.
HeartbeatOverrun == silence > HeartBeat

HeartbeatExpired == silence >= HeartBeat

CutBy(over) == IF HeartbeatExpired \/ killPin THEN Side ELSE over

CheckHealth(over) ==
    /\ phase = "health" /\ phase' = "packet"
    /\ over = {} \/ "overload" \in Faults
    /\ pwm' = [s \in Side |-> IF s \in CutBy(over) THEN Off ELSE pwm[s]]
    /\ cut' = cut \cup CutBy(over)
    /\ motorOverload' = motorOverload \cup over
    /\ silence' = IF HeartbeatExpired THEN 0 ELSE silence
    /\ motorsKilled' = killPin
    /\ UNCHANGED <<hostVars, killPin, lineVars>>

-----------------------------------------------------------------------------
(* The environment                                                         *)

FlipKill ==
    /\ "kill" \in Faults
    /\ killPin' = ~killPin
    /\ UNCHANGED <<hostVars, boardVars, lineVars>>

\* A frame is damaged on the line: the receiver never recognises it.
Lose ==
    /\ "loss" \in Faults /\ losses < MaxLosses
    /\ \/ toBoard # <<>> /\ toBoard' = Tail(toBoard) /\ UNCHANGED toHost
       \/ toHost # <<>> /\ toHost' = Tail(toHost) /\ UNCHANGED toBoard
    /\ losses' = losses + 1
    /\ UNCHANGED <<hostVars, boardVars, killPin>>

\* One RESEND_TIMEOUT passes.  Without the "delay" fault a round trip takes
\* less than that, so it only passes while nothing is on the line and the
\* host waits for an answer that will not come, or has no port.  The board's loop
\* is never held up: it has looked at its heartbeat before it ages further.
Quiet == toBoard = <<>> /\ toHost = <<>>

Tick ==
    /\ silence < HeartBeat
    /\ "delay" \in Faults
         \/ (Quiet /\ (~portOpen \/ (awaitingResponse /\ ~late)))
    /\ silence' = silence + 1
    /\ late' = (pc # "down")
    /\ UNCHANGED <<pc, portOpen, awaitingResponse, currentMessage, speed,
                   targetSpeed, published, phase, pwm, motorOverload,
                   motorsKilled, cut, killPin, lineVars>>

-----------------------------------------------------------------------------
ProcessResponse == \/ DriveEchoed \/ CurrentReported \/ VoltageReported
                   \/ ErrorReported \/ MismatchIgnored

HostStep == \/ Receive \/ ProcessResponse \/ DrainDone
            \/ CheckMotor \/ MotorNotDue
            \/ (\E q \in Queries : CheckQuery(q)) \/ QueryNotDue
            \/ Resend \/ SpinEnds

BoardTakes == BoardDrives \/ BoardRefuses \/ BoardReportsCurrent
                \/ BoardReportsVoltage \/ NoPacket

BoardStep == BoardTakes \/ (\E over \in SUBSET Side : CheckHealth(over))

Environment == FlipKill \/ Lose \/ Tick \/ Crash \/ Restart

Next == HostStep \/ BoardStep \/ Environment
          \/ (\E c \in Commands : SetMotorSpeed(c))

Spec == Init /\ [][Next]_vars

-----------------------------------------------------------------------------
(* Safety                                                                  *)

\* The two inputs of an H bridge are never driven together, however frames
\* are lost, repeated or cut short by a reset (createMessageFromSpeed on the
\* host, setMotors on the board).
HBridgeSafe == \A s \in Side : pwm[s].fwd = 0 \/ pwm[s].rev = 0

\* While the board holds motorsKilled no thruster runs, although the host
\* keeps sending commands it believes are due (checkHealth, 'D' in loop).
KillHolds == motorsKilled => pwm = AllOff

\* What the host believes is what the board does: on a side not switched off
\* behind its back, the speed of the last echo is within one ramp step of the
\* speed applied, also after lost echoes, errors, restarts and late opens.
BeliefTracks ==
    portOpen => \A s \in Side \ cut :
                    Within(Applied(pwm)[s], speed[s], MaxStep)

\* A current is published under the label of the side it was measured on,
\* although the answer carries no side (processResponse labels it with the
\* side of the pending query).
LabelMatches == published.position = published.measured

\* The board's heartbeat never cuts the motors of a host that is alive and
\* connected and loses fewer than HeartBeat frames in a row: retransmission
\* is quicker than the heartbeat (RESEND_TIMEOUT against HEART_BEAT_MS).
NoFalseHeartbeat == portOpen => silence < HeartBeat

\* Once one side is overloaded, no duty of either side changes any more, except
\* to off, until the board is reset: the other motor can no longer be
\* commanded, not even to stop (loop refuses 'D', nobody sends CLEAR).
OverloadFreezes ==
    [][motorOverload # {} =>
         \A s \in Side : pwm'[s] \in {pwm[s], Off}]_vars

\* The pair host and board implements the ramped thruster.
Abstract == INSTANCE Thruster WITH applied <- Applied(pwm), coasting <- cut

RefinesThruster == Abstract!Spec

-----------------------------------------------------------------------------
(* What makes the safety properties inductive                              *)

\* Every command on its way drives one input of each bridge at most.
OneSided(duty) == \A s \in Side : duty[s].fwd = 0 \/ duty[s].rev = 0

SafeRequest == {m \in Request : m.type = "D" => OneSided(m.duty)}

FramesOneSided ==
    /\ currentMessage \in SafeRequest \cup {NoMessage}
    /\ toBoard \in Seq(SafeRequest)

\* The board knows a killed sub by having cut both sides.
KilledIsCut == motorsKilled => cut = Side

\* Without delays the link is a strict alternation: one frame at most, which is
\* the pending request or the answer to it.
Answers(r, m) ==
    \/ r.type = "e" /\ m.type = "D"
    \/ r.type = "d" /\ m.type = "D" /\ r.duty = m.duty
    \/ r.type = "c" /\ m.type = "C" /\ r.side = m.side
    \/ r.type = "v" /\ m.type = "V"

Alternates ==
    /\ pc = "down" => ~portOpen /\ ~awaitingResponse
    /\ toBoard # <<>> => Tail(toBoard) = <<>> /\ toHost = <<>>
    /\ toHost # <<>> => Tail(toHost) = <<>>
    /\ ~portOpen => toHost = <<>>
    /\ portOpen /\ (~awaitingResponse \/ late) => Quiet
    /\ portOpen /\ toBoard # <<>> => Head(toBoard) = currentMessage
    /\ toHost # <<>> => Answers(Head(toHost), currentMessage)

\* Each tick without a word from the host was paid for by a lost frame.
SilenceIsLoss ==
    portOpen =>
        /\ silence <= losses
        /\ ~awaitingResponse \/ toHost # <<>> => silence = 0
        /\ awaitingResponse /\ Quiet /\ ~late => silence < losses

\* Where the two ends stand in the ramp: the same speed, or the host has asked
\* for the next step and not heard of it, or an overload bars all commands.
Pending == awaitingResponse /\ currentMessage.type = "D"

RampInStep ==
    /\ toBoard # <<>> /\ Head(toBoard).type = "D" /\ motorOverload = {} =>
         \A s \in Side \ cut :
             Within(Decode(Head(toBoard).duty[s]), Applied(pwm)[s], MaxStep)
    /\ Pending =>
         \A s \in Side :
             Within(Decode(currentMessage.duty[s]), speed[s], MaxStep)
    /\ portOpen /\ Pending /\ motorOverload = {} =>
         \A s \in Side \ cut :
             Within(Decode(currentMessage.duty[s]), Applied(pwm)[s], MaxStep)
    /\ portOpen /\ ~Pending /\ motorOverload = {} =>
         \A s \in Side \ cut : Applied(pwm)[s] = speed[s]
    /\ toHost # <<>> /\ Head(toHost).type = "d" =>
         \A s \in Side \ cut : pwm[s] = Head(toHost).duty[s]
    /\ toHost # <<>> /\ Head(toHost).type = "e" =>
         motorOverload # {} \/ cut = Side

\* A host without a port has no speeds in mind: it starts from rest.
NoPortNoSpeed == ~portOpen => speed = Stopped

-----------------------------------------------------------------------------
(* Liveness.  main() calls spinOnce() every 10 ms and loop() runs freely;  *)
(* time passes; a frame on the line arrives, so a read loop that is entered *)
(* again and again gets it; lastMotorTime is only reset by a command, so    *)
(* CheckMotor() is due at some of the visits that find the host idle.       *)

Fairness ==
    /\ WF_vars(HostStep)
    /\ WF_vars(BoardStep)
    /\ WF_vars(Tick)
    /\ SF_vars(ProcessResponse)
    /\ SF_vars(CheckMotor)

\* A port that is tried again and again does open in the end.
OpensInTheEnd == SF_vars(Resend /\ portOpen')

FairSpec == Spec /\ Fairness

\* If the host dies, or loses its port, the motors stop (checkHealth).
StopsWithoutHost == ~portOpen ~> (portOpen \/ pwm = AllOff)

\* A target that stays is reached, and held, once the board is not killed or
\* overloaded and the host stays up, whatever was lost before: no answer
\* that went missing stalls the ramp.
Settled(t) == pc # "down" /\ ~killPin /\ motorOverload = {} /\ targetSpeed = t

Converges ==
    \A t \in {[s \in Side |-> Filter(c[s])] : c \in Commands} :
        <>[]Settled(t) => <>[](Applied(pwm) = t)

\* A stop that is asked for and not taken back is obeyed, however many answers
\* are late or doubled and taken for those of later requests: the host may
\* believe a side at rest that a command still on its way sets going, and so
\* must not keep silent (CheckMotor sends whether or not the speed differs).
StopObeyed == <>[]Settled(Stopped) => <>[](pwm = AllOff)

LiveSpec == FairSpec /\ OpensInTheEnd
=============================================================================
