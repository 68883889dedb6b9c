------------------------------ MODULE BuoysTask -----------------------------
(***************************************************************************)
(* The BuoysTask node (roscpp, one thread).  performTask runs inside the   *)
(* callback of Module_Enable and calls ros::spinOnce itself, so that the   *)
(* other callbacks, and that one again, are handled inside it: the calls   *)
(* under way form a stack.  Each phase below is a loop of performTask, or  *)
(* of a function it calls, around a spinOnce.                              *)
(*                                                                         *)
(* Retries are not counted: a loop that gives up after a number of turns   *)
(* may give up after any number.  Of the samples it counts how many there  *)
(* are, up to the three that make a buoy visible.                          *)
(***************************************************************************)
EXTENDS Naturals, Sequences, SequencesExt

CONSTANTS
    BumpFirst, BumpSecond,  \* m_firstToBump and m_secondToBump
    MaxPerforms             \* bound: messages that enable the task

ASSUME BuoysAssumption ==
    /\ {BumpFirst, BumpSecond} \subseteq {"RED", "GREEN", "YELLOW"}
    /\ MaxPerforms \in Nat

\* The buoys whose samples are ever looked at.
Buoy == {"RED", BumpFirst, BumpSecond}

VARIABLES
    m_isEnabled,
    samples,    \* how many samples of each buoy, 3 standing for more
    performs,   \* the calls of performTask under way, the innermost last
    ahead,      \* the Forward message in force: "stop", "go" or "back"
    begun,      \* tally: calls of performTask
    answers     \* tally: Task_Completion messages

buoysVars == <<m_isEnabled, samples, performs, ahead, begun, answers>>

Seeking == {"seek", "seekLeft", "seekRight"}
Standing == {"pause", "first", "firstLeft", "firstRight", "centred"}
Second == {"back", "second", "secondLeft", "secondRight", "centred2"}
Phase == Seeking \cup {"approach", "near"} \cup Standing
         \cup {"bump", "bumpOn", "bump2", "bump2On"} \cup Second
         \cup {"clear", "past", "rise", "over", "dive"}

\* A call: its phase, what it will return, and two notes: blind, the second
\* buoy was not sampled since the first was bumped; disturbed, another call of
\* performTask ran inside it.
Call == [phase : Phase, success : BOOLEAN, blind : BOOLEAN, disturbed : BOOLEAN]

BuoysTypeOK ==
    /\ m_isEnabled \in BOOLEAN /\ samples \in [Buoy -> 0..3]
    /\ performs \in Seq(Call) /\ Len(performs) <= MaxPerforms
    /\ ahead \in {"stop", "go", "back"}
    /\ begun \in 0..MaxPerforms /\ answers \in 0..MaxPerforms

BuoysInit ==
    /\ m_isEnabled = FALSE /\ samples = [b \in Buoy |-> 0] /\ performs = <<>>
    /\ ahead = "stop" /\ begun = 0 /\ answers = 0

Top == Last(performs)
In(phases) == performs # <<>> /\ Top.phase \in phases
Visible(b) == samples[b] >= 3
Cleared == [b \in Buoy |-> 0]
Approaching == [b \in Buoy |-> IF b = "RED" THEN samples[b] ELSE 0]

\* The innermost call goes on to phase; dir is the Forward message it publishes
\* there, kept the samples it leaves.
GoOn(phase, dir, kept) ==
    /\ performs' = [performs EXCEPT ![Len(performs)].phase = phase]
    /\ ahead' = dir /\ samples' = kept
    /\ UNCHANGED <<m_isEnabled, begun, answers>>

\* Mutant of PerformEnds: no answer once the task was disabled.
PerformEndsMute ==
    /\ performs' = Front(performs)
    /\ answers' = IF m_isEnabled THEN answers + 1 ELSE answers
    /\ m_isEnabled' = FALSE
    /\ UNCHANGED <<begun, ahead>>

\* performTask returns, its callback publishes the result and disables.
PerformEnds ==
    /\ performs' = Front(performs) /\ answers' = answers + 1
    /\ m_isEnabled' = FALSE
    /\ UNCHANGED <<begun, ahead>>

-----------------------------------------------------------------------------
\* What a spinOnce may handle: messages that enable and disable the task, and
\* samples.  Enabled again, performTask starts inside performTask.
BuoysEnable ==
    /\ begun < MaxPerforms
    /\ m_isEnabled' = TRUE /\ begun' = begun + 1
    /\ samples' = IF Visible("RED") THEN Approaching ELSE samples
    /\ \E first \in IF Visible("RED") THEN {"approach", "pause"} ELSE {"seek"} :
        /\ ahead' = IF first = "pause" THEN "stop" ELSE "go"
        /\ performs' = Append(
               [i \in DOMAIN performs |-> [performs[i] EXCEPT !.disturbed = TRUE]],
               [phase |-> first, success |-> FALSE, blind |-> FALSE, disturbed |-> FALSE])
    /\ UNCHANGED answers

BuoysDisable ==
    /\ m_isEnabled /\ m_isEnabled' = FALSE
    /\ UNCHANGED <<samples, performs, ahead, begun, answers>>

SampleArrives(b) ==
    /\ m_isEnabled
    /\ samples' = [samples EXCEPT ![b] = IF @ < 3 THEN @ + 1 ELSE @]
    /\ performs' = [i \in DOMAIN performs |->
           [performs[i] EXCEPT !.blind = @ /\ b # BumpSecond]]
    /\ UNCHANGED <<m_isEnabled, ahead, begun, answers>>

-----------------------------------------------------------------------------
\* Step 1 of performTask, with searchBuoys in it.  A search that ends with the
\* buoy in view ends the seeking; one that does not is followed by another, or
\* by giving up with the last Forward message still in force.
\* (A buoy that is near at once is not approached.)
SeekFinds ==
    /\ In(Seeking) /\ Visible("RED")
    /\ GoOn("approach", "go", Approaching) \/ GoOn("pause", "stop", Approaching)

SeekScans ==
    /\ In(Seeking) /\ ~Visible("RED")
    /\ \/ In({"seek"}) /\ GoOn("seekLeft", ahead, samples)
       \/ In({"seekLeft"}) /\ GoOn("seekRight", ahead, samples)
       \/ In({"seekRight"}) /\ GoOn("seek", "go", samples)

SeekFails ==
    /\ In({"seekRight"}) /\ ~Visible("RED")
    /\ PerformEnds /\ UNCHANGED samples

\* centerOnBuoy(RED), which clears the samples, until near enough: stop.
Approach ==
    \/ In({"approach"}) /\ GoOn("near", ahead, Cleared)
    \/ In({"near"}) /\ GoOn("approach", ahead, samples)

\* Mutant of Arrive: the sub goes on while it looks for the buoy.
ArriveMoving == In({"near"}) /\ GoOn("pause", ahead, samples)

Arrive == In({"near"}) /\ GoOn("pause", "stop", samples)

\* Step 2: searchBuoys if the first buoy is not in view, then center on it.
FindFirst ==
    /\ In({"pause", "firstLeft", "firstRight"})
    /\ \/ Visible(BumpFirst) /\ GoOn("first", ahead, samples)
       \/ /\ ~Visible(BumpFirst)
          /\ \/ In({"pause"}) /\ GoOn("firstLeft", ahead, samples)
             \/ In({"firstLeft"}) /\ GoOn("firstRight", ahead, samples)
             \/ In({"firstRight"}) /\ PerformEnds /\ UNCHANGED samples

\* centerOnBuoy needs two samples to be centred, and spins once more before it
\* clears them; after a failure none is left and the loop around it ends.
CentreFirst ==
    \/ In({"first"}) /\ samples[BumpFirst] >= 2 /\ GoOn("centred", ahead, samples)
    \/ In({"first"}) /\ PerformEnds /\ samples' = Cleared

\* bumpBuoy: forward, with a centerOnBuoy every ten turns.
Bump(centred, bump, bumpOn) ==
    \/ In({centred}) /\ GoOn(bump, "go", Cleared)
    \/ In({bump}) /\ GoOn(bumpOn, "go", Cleared)
    \/ In({bumpOn}) /\ GoOn(bump, "go", samples)

BumpFirstBuoy == Bump("centred", "bump", "bumpOn")

\* Mutant of BackOff: the samples taken during the bump are kept.
BackOffKeeps ==
    /\ In({"bumpOn"}) /\ ahead' = "back"
    /\ performs' = [performs EXCEPT ![Len(performs)].phase = "back",
                                    ![Len(performs)].blind = TRUE]
    /\ UNCHANGED <<samples, m_isEnabled, begun, answers>>

\* Step 4: bumped, and back to where the next buoy may be in view.
BackOff ==
    /\ In({"bumpOn"}) /\ ahead' = "back" /\ samples' = Cleared
    /\ performs' = [performs EXCEPT ![Len(performs)].phase = "back",
                                    ![Len(performs)].blind = TRUE]
    /\ UNCHANGED <<m_isEnabled, begun, answers>>

\* Step 5, as step 2 but for what a failure leads to: past the buoys.
FindSecond ==
    /\ In({"back", "secondLeft", "secondRight"})
    /\ \/ Visible(BumpSecond) /\ GoOn("second", ahead, samples)
       \/ /\ ~Visible(BumpSecond)
          /\ \/ In({"back"}) /\ GoOn("secondLeft", ahead, samples)
             \/ In({"secondLeft"}) /\ GoOn("secondRight", ahead, samples)
             \/ In({"secondRight"}) /\ GoOn("past", "go", samples)

CentreSecond ==
    \/ In({"second"}) /\ samples[BumpSecond] >= 2 /\ GoOn("centred2", ahead, samples)
    \/ In({"second"}) /\ GoOn("past", "go", Cleared)

\* Steps 6 and 7: bumped, and clear of the buoys.
BumpSecondBuoy == Bump("centred2", "bump2", "bump2On")

ClearOff ==
    /\ In({"bump2On"}) /\ ahead' = "back" /\ samples' = Cleared
    /\ performs' = [performs EXCEPT ![Len(performs)].phase = "clear",
                                    ![Len(performs)].success = TRUE]
    /\ UNCHANGED <<m_isEnabled, begun, answers>>

\* The loops that publish their Forward message in each turn.
Repeat ==
    \/ In({"seek", "bumpOn", "bump2On"}) /\ GoOn(Top.phase, "go", samples)
    \/ In({"back"}) /\ GoOn("back", "back", samples)

\* Steps 8 to 10: rise, move past the buoys, dive, return.
PassOver ==
    \/ In({"clear", "past"}) /\ GoOn("rise", ahead, samples)
    \/ In({"rise"}) /\ GoOn("over", "go", samples)
    \/ In({"over"}) /\ GoOn("dive", ahead, samples)
    \/ In({"dive"}) /\ PerformEnds /\ UNCHANGED samples

\* A loop is left that might have gone on.
GiveUp == SeekFails \/ Arrive \/ BackOff \/ ClearOff

PerformStep ==
    \/ SeekFinds \/ SeekScans \/ Approach \/ FindFirst \/ CentreFirst
    \/ BumpFirstBuoy \/ FindSecond \/ CentreSecond \/ BumpSecondBuoy
    \/ PassOver \/ GiveUp

BuoysNext ==
    \/ BuoysEnable \/ BuoysDisable \/ PerformStep \/ Repeat
    \/ \E b \in Buoy : SampleArrives(b)

\* The task goes on, and each loop ends in the end: its turns are counted.
BuoysFairness == WF_buoysVars(PerformStep) /\ SF_buoysVars(GiveUp)

BuoysSpec == BuoysInit /\ [][BuoysNext]_buoysVars /\ BuoysFairness

-----------------------------------------------------------------------------
\* The sub looks for the first buoy and centers on it without moving forward,
\* unless an enabling message started a second performTask inside this one.
StillForFirst ==
    In(Standing) /\ ~Top.disturbed => ahead = "stop"

\* Success is reported only of a task that has seen the second buoy since it
\* bumped the first: never on samples from before, and never by a task that
\* was disabled before it backed off, and so sees none.
SuccessSawSecond ==
    \A i \in DOMAIN performs : performs[i].success => ~performs[i].blind

\* The task answers every message that enabled it, also those handled inside
\* another run and also when it was disabled meanwhile.
Answered == begun > answers ~> begun = answers
=============================================================================
