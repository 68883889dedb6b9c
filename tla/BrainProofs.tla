---------------------------- MODULE BrainProofs -----------------------------
(***************************************************************************)
(* Theorems about the Brain and the sensor node, for any number of pulls,  *)
(* requests, failures and reports: types, that Idle leaves the sub alone,  *)
(* and that no mission starts without a pull of the switch of its own.     *)
(***************************************************************************)
EXTENDS Brain, TLAPS

\* Of no more than what was no more than k.
LEMMA NoMore ==
    \A a, b, c, d, k \in Nat : a + b <= k /\ c + d <= a + b => c + d <= k
  OBVIOUS

\* The node publishes and handles requests within their number.
LEMMA SensorsTypeStep == SensorsTypeOK /\ [SensorsNext]_sensorsVars => SensorsTypeOK'
<1> SUFFICES ASSUME SensorsTypeOK, [SensorsNext]_sensorsVars PROVE SensorsTypeOK'
  OBVIOUS
<1>a. {MaxPulls, MaxRequests, MaxFailures, MaxReports} \subseteq Nat
  BY SensorsAssumption
<1> USE <1>a DEF SensorsTypeOK
<1>1. CASE Pull
  BY <1>1 DEF Pull
<1>2. CASE Push
  BY <1>2 DEF Push
<1>3. CASE BoardLoops
  <2>1. line' \in Seq({0, 1}) /\ Len(line') = 1
    BY <1>3 DEF BoardLoops
  <2>2. commands' \in Nat /\ commands' <= commands
    BY <1>3 DEF BoardLoops
  <2>3. UNCHANGED <<switch, controllerState, motorKilled, timedOut, requests, reports,
                    pulls, asked, failures>>
    BY <1>3 DEF BoardLoops
  <2>4. requests' + commands' <= asked'
    BY <2>2, <2>3
  <2> QED
    BY <2>1, <2>2, <2>3, <2>4
<1>4. CASE ReadLine
  <2>1. PICK published \in SUBSET Group :
          /\ timedOut' = timedOut \ published
          /\ IF "motor" \in published
             THEN /\ Len(reports) < MaxReports
                  /\ reports' = Append(reports, Head(line)) /\ motorKilled' = Head(line)
             ELSE UNCHANGED <<reports, motorKilled>>
          /\ Spin(published)
    BY <1>4 DEF ReadLine, Due, Group
  <2>2. Head(line) \in {0, 1} /\ line' \in Seq({0, 1}) /\ Len(line') <= 1
    BY <1>4 DEF ReadLine
  <2>3. /\ reports' \in Seq({0, 1}) /\ Len(reports') <= MaxReports
        /\ motorKilled' \in {0, 1}
    <3>1. CASE "motor" \in published
      <4>1. reports \in Seq({0, 1}) /\ Len(reports) < MaxReports /\ MaxReports \in Nat
        BY <2>1, <3>1
      <4>2. reports' = Append(reports, Head(line)) /\ motorKilled' = Head(line)
        BY <2>1, <3>1
      <4> QED
        BY <2>2, <4>1, <4>2
    <3>2. CASE "motor" \notin published
      BY <2>1, <3>2
    <3> QED
      BY <3>1, <3>2
  <2>4. /\ requests' \in Nat /\ commands' \in Nat
        /\ requests' + commands' <= requests + commands
    BY <2>1 DEF Spin
  <2>5. timedOut' \subseteq Group
    BY <2>1
  <2>6. UNCHANGED <<switch, controllerState, pulls, asked, failures>>
    BY <1>4 DEF ReadLine
  <2>7. asked \in Nat /\ requests \in Nat /\ commands \in Nat /\ requests + commands <= asked
    OBVIOUS
  <2>8. requests' + commands' <= asked'
    BY <2>4, <2>6, <2>7, NoMore
  <2> QED
    BY <2>2, <2>3, <2>4, <2>5, <2>6, <2>8
<1>5. CASE LineLost
  BY <1>5 DEF LineLost
<1>6. CASE \E g \in Group : TimerEnds(g)
  BY <1>6 DEF TimerEnds
<1>7. CASE PortFails
  BY <1>7 DEF PortFails
<1>8. CASE PortOpens
  BY <1>8 DEF PortOpens
<1>9. CASE Ask
  BY <1>9 DEF Ask
<1>10. CASE UNCHANGED sensorsVars
  BY <1>10 DEF sensorsVars
<1> QED
  BY <1>1, <1>2, <1>3, <1>4, <1>5, <1>6, <1>7, <1>8, <1>9, <1>10 DEF SensorsNext

-----------------------------------------------------------------------------
\* What a callback's notification may do to a monitor.
LEMMA NotifyTypes ==
    ASSUME BrainTypeOK, NEW M \in SUBSET Monitor
    PROVE  /\ Notify(M) \in [Monitor -> Listening \cup {"off", "entered"}]
           /\ \A m \in Monitor : \/ Notify(M)[m] = monitor[m]
                                 \/ m \in M /\ monitor[m] = "waiting" /\ Notify(M)[m] = "woken"
  BY DEF BrainTypeOK, Notify, Listening

\* The Brain's own part of BrainTypeOK.
BrainFields ==
    /\ shouldStartMission \in BOOLEAN
    /\ monitor \in [Monitor -> Listening \cup {"off", "entered"}]
    /\ mission \in {"off", "entered", "loop", "drive"}
    /\ outcome \in [Child -> {None, "invalid", "preempted", "succeeded", "timeout"}]
    /\ preempt_requested \in [Child -> BOOLEAN]
    /\ {cancelled, is_complete, expired, watching, Module_Enable, strayed} \subseteq BOOLEAN
    /\ ahead \in {"stop", "go"} /\ runs \in Nat

\* A message taken leaves the others.
LEMMA HearTypes == SensorsTypeOK /\ Hear => SensorsTypeOK'
<1> SUFFICES ASSUME SensorsTypeOK, Hear PROVE SensorsTypeOK'
  OBVIOUS
<1>1. reports \in Seq({0, 1}) /\ Len(reports) <= MaxReports /\ MaxReports \in Nat
  BY SensorsAssumption DEF SensorsTypeOK
<1>2. reports' \in Seq({0, 1}) /\ Len(reports') <= MaxReports
  BY <1>1 DEF Hear
<1> QED
  BY <1>2 DEF Hear, SensorsTypeOK, restOfSensors

\* Every step of the Brain keeps the types.
LEMMA BrainTypeStep == BrainTypeOK /\ [BrainNext]_brainVars => BrainTypeOK'
<1> SUFFICES ASSUME BrainTypeOK, [BrainNext]_brainVars PROVE BrainTypeOK'
  OBVIOUS
<1>a. SensorsTypeOK /\ BrainFields
  BY DEF BrainTypeOK, BrainFields
<1>b. BrainFields' /\ SensorsTypeOK' => BrainTypeOK'
  BY DEF BrainTypeOK, BrainFields
<1>c. UNCHANGED sensorsVars => SensorsTypeOK'
  BY <1>a, SensorsTypeStep
<1>d. UNCHANGED brainOwn => BrainFields'
  BY <1>a DEF brainOwn, BrainFields
<1> USE DEF BrainFields
<1>1. CASE SensorsNext /\ UNCHANGED brainOwn
  BY <1>1, <1>a, <1>b, <1>d, SensorsTypeStep
<1>2. CASE Hear
  <2>1. monitor' \in [Monitor -> Listening \cup {"off", "entered"}]
    BY <1>2, NotifyTypes DEF Hear, Refuses
  <2>2. shouldStartMission' \in BOOLEAN
    BY <1>2, <1>a DEF Hear, Armed
  <2> QED
    BY <1>2, <1>a, <1>b, <2>1, <2>2, HearTypes DEF Hear
<1>3. CASE \E m \in Monitor : Listen(m) \/ Wait(m)
  BY <1>3, <1>a, <1>b, <1>c DEF Listen, Wait, Listening
<1>4. CASE StartRun
  <2>1. monitor' \in [Monitor -> Listening \cup {"off", "entered"}]
    BY <1>4 DEF StartRun, Monitor
  <2>2. outcome' \in [Child -> {None, "invalid", "preempted", "succeeded", "timeout"}]
    BY <1>4 DEF StartRun
  <2>3. runs' \in Nat
    BY <1>4, <1>a DEF StartRun
  <2>4. /\ mission' = "entered" /\ cancelled' = FALSE
        /\ UNCHANGED <<sensorsVars, shouldStartMission, preempt_requested, is_complete,
                       expired, watching, Module_Enable, ahead, strayed>>
    BY <1>4 DEF StartRun
  <2> QED
    BY <1>a, <1>b, <1>c, <2>1, <2>2, <2>3, <2>4
<1>5. CASE MonitorEnds
  BY <1>5, <1>a, <1>b, <1>c DEF MonitorEnds, Child
<1>6. CASE SurfaceEnds
  BY <1>6, <1>a, <1>b, <1>c DEF SurfaceEnds
<1>7. CASE Cancel
  <2>1. monitor' \in [Monitor -> Listening \cup {"off", "entered"}]
    BY <1>7, NotifyTypes DEF Cancel, Monitor
  <2>2. preempt_requested' \in [Child -> BOOLEAN]
    BY <1>7, Zenon DEF Cancel
  <2> QED
    BY <1>7, <1>a, <1>b, <1>c, <2>1, <2>2 DEF Cancel
<1>8. CASE EndRun
  BY <1>8, <1>a, <1>b, <1>c DEF EndRun
<1>9. CASE MissionStarts
  BY <1>9, <1>a, <1>b, <1>c DEF MissionStarts
<1>10. CASE MissionEnds
  <2>1. outcome' \in [Child -> {None, "invalid", "preempted", "succeeded", "timeout"}]
    BY <1>10, <1>a DEF MissionEnds
  <2>2. preempt_requested' \in [Child -> BOOLEAN]
    BY <1>10, <1>a DEF MissionEnds
  <2>3. /\ mission' = "off" /\ Module_Enable' = FALSE
        /\ UNCHANGED <<sensorsVars, shouldStartMission, monitor, cancelled, is_complete,
                       expired, watching, ahead, strayed, runs>>
    BY <1>10 DEF MissionEnds, disable_task
  <2> QED
    BY <1>a, <1>b, <1>c, <2>1, <2>2, <2>3
<1>11. CASE MissionTests \/ MissionDrives
  <2>1. mission' \in {"loop", "drive"} /\ expired' \in BOOLEAN /\ ahead' \in {ahead, "go"}
    BY <1>11, <1>a DEF MissionTests, MissionDrives
  <2>2. UNCHANGED <<sensorsVars, shouldStartMission, monitor, outcome, preempt_requested,
                    cancelled, is_complete, watching, Module_Enable, strayed, runs>>
    BY <1>11 DEF MissionTests, MissionDrives
  <2> QED
    BY <1>a, <1>b, <1>c, <2>1, <2>2
<1>12. CASE PathSeen
  <2>1. strayed' \in BOOLEAN
    BY <1>12, Zenon DEF PathSeen
  <2> QED
    BY <1>12, <1>a, <1>b, <1>c, <2>1 DEF PathSeen
<1>13. CASE UNCHANGED brainVars
  BY <1>13, <1>b, <1>c, <1>d DEF brainVars
<1> QED
  BY <1>1, <1>2, <1>3, <1>4, <1>5, <1>6, <1>7, <1>8, <1>9, <1>10, <1>11, <1>12, <1>13
     DEF BrainNext, BrainStep

-----------------------------------------------------------------------------
\* In Idle no child of CompRun is left; in CompRun a child has an outcome when
\* it has ended, and not before; and only a mission in its loop has a task.
RunOrIdle ==
    /\ InIdle => mission = "off" /\ monitor["MissionMonitor"] = "off"
    /\ ~InIdle => /\ mission = "off" <=> outcome["Mission"] # None
                  /\ monitor["MissionMonitor"] = "off" <=> outcome["MissionMonitor"] # None
    /\ mission \notin {"loop", "drive"} => ~Module_Enable

BrainInv == BrainTypeOK /\ RunOrIdle /\ IdleIsStill

\* A step of the sensors leaves the Brain alone, whose state this is.
LEMMA OwnStill ==
    ASSUME RunOrIdle, IdleIsStill, UNCHANGED brainOwn
    PROVE  RunOrIdle' /\ IdleIsStill'
  BY DEF RunOrIdle, IdleIsStill, InIdle, brainOwn

\* Neither what a monitor hears nor the end of its peers makes it leave.
LEMMA NotifyKeeps ==
    ASSUME BrainTypeOK, NEW M \in SUBSET Monitor, monitor' = Notify(M)
    PROVE  \A m \in Monitor : /\ monitor'[m] = "off" <=> monitor[m] = "off"
                              /\ monitor'[m] \in Listening <=> monitor[m] \in Listening
  BY NotifyTypes DEF Listening

\* Idle and CompRun take turns, and neither leaves anything to the other.
LEMMA RunStep == BrainInv /\ [BrainNext]_brainVars => RunOrIdle' /\ IdleIsStill'
<1> SUFFICES ASSUME BrainInv, [BrainNext]_brainVars PROVE RunOrIdle' /\ IdleIsStill'
  OBVIOUS
<1>a. BrainTypeOK /\ RunOrIdle /\ IdleIsStill
  BY DEF BrainInv
<1>b. /\ monitor \in [Monitor -> Listening \cup {"off", "entered"}]
      /\ outcome \in [Child -> {None, "invalid", "preempted", "succeeded", "timeout"}]
      /\ "Idle" \in Monitor /\ "MissionMonitor" \in Monitor
      /\ "Mission" \in Child /\ "MissionMonitor" \in Child /\ "SurfaceMonitor" \in Child
  BY <1>a DEF BrainTypeOK, Monitor, Child
<1>c. ASSUME UNCHANGED <<mission, outcome, Module_Enable>>,
             \A m \in Monitor : /\ monitor'[m] = "off" <=> monitor[m] = "off"
                                /\ monitor'[m] \in Listening <=> monitor[m] \in Listening
      PROVE  RunOrIdle' /\ (InIdle' <=> InIdle)
                        /\ (monitor'["Idle"] \in Listening <=> monitor["Idle"] \in Listening)
  BY <1>a, <1>b, <1>c DEF RunOrIdle, InIdle
<1>1. CASE UNCHANGED brainOwn
  BY <1>1, <1>a, OwnStill
<1>2. CASE Hear
  <2>1. \A m \in Monitor : /\ monitor'[m] = "off" <=> monitor[m] = "off"
                           /\ monitor'[m] \in Listening <=> monitor[m] \in Listening
    BY <1>2, <1>a, NotifyKeeps DEF Hear, Refuses
  <2> QED
    BY <1>2, <1>a, <1>c, <2>1 DEF Hear, IdleIsStill
<1>3. ASSUME NEW m \in Monitor, Listen(m) PROVE RunOrIdle' /\ IdleIsStill'
  <2>1. /\ monitor' = [monitor EXCEPT ![m] = "listening"] /\ monitor[m] = "entered"
        /\ UNCHANGED <<mission, outcome, Module_Enable>>
    BY <1>3 DEF Listen
  <2>2. RunOrIdle'
    BY <1>a, <1>b, <2>1 DEF RunOrIdle, InIdle
  <2>3. IdleIsStill'
    BY <1>3, <1>a, <1>b, <2>1 DEF Listen, IdleIsStill
  <2> QED
    BY <2>2, <2>3
<1>4. ASSUME NEW m \in Monitor, Wait(m) PROVE RunOrIdle' /\ IdleIsStill'
  <2>1. /\ monitor' = [monitor EXCEPT ![m] = "waiting"] /\ monitor[m] = "listening"
        /\ UNCHANGED <<mission, outcome, Module_Enable, ahead, strayed>>
    BY <1>4 DEF Wait
  <2>2. \A k \in Monitor : /\ monitor'[k] = "off" <=> monitor[k] = "off"
                           /\ monitor'[k] \in Listening <=> monitor[k] \in Listening
    BY <1>b, <2>1 DEF Listening
  <2> QED
    BY <1>a, <1>c, <2>1, <2>2 DEF IdleIsStill
<1>5. CASE StartRun
  <2>1. /\ monitor' = [Idle |-> "off", MissionMonitor |-> "entered"]
        /\ mission' = "entered" /\ outcome' = [c \in Child |-> None]
        /\ Module_Enable' = Module_Enable /\ monitor["Idle"] = "woken"
    BY <1>5 DEF StartRun
  <2>2. mission = "off" /\ ~Module_Enable
    BY <1>a, <2>1 DEF RunOrIdle, InIdle
  <2> QED
    BY <1>b, <2>1, <2>2 DEF RunOrIdle, InIdle, IdleIsStill, Listening
<1>6. CASE MonitorEnds
  <2>1. /\ monitor' = [monitor EXCEPT !["MissionMonitor"] = "off"]
        /\ monitor["MissionMonitor"] = "woken"
        /\ \E o \in {"preempted", "invalid"} :
               outcome' = [outcome EXCEPT !["MissionMonitor"] = o]
        /\ UNCHANGED <<mission, Module_Enable, ahead, strayed>>
    BY <1>6 DEF MonitorEnds
  <2> QED
    BY <1>a, <1>b, <2>1 DEF RunOrIdle, InIdle, IdleIsStill, None
<1>7. CASE SurfaceEnds
  BY <1>7, <1>a, <1>b DEF SurfaceEnds, RunOrIdle, InIdle, IdleIsStill
<1>8. CASE Cancel
  <2>1. \A m \in Monitor : /\ monitor'[m] = "off" <=> monitor[m] = "off"
                           /\ monitor'[m] \in Listening <=> monitor[m] \in Listening
    BY <1>8, <1>a, <1>b, NotifyKeeps DEF Cancel
  <2> QED
    BY <1>8, <1>a, <1>c, <2>1 DEF Cancel, IdleIsStill
<1>9. CASE EndRun
  <2>1. /\ monitor' = [monitor EXCEPT !["Idle"] = "entered"] /\ ~InIdle
        /\ outcome["Mission"] # None /\ outcome["MissionMonitor"] # None
        /\ UNCHANGED <<mission, outcome, Module_Enable>>
    BY <1>9, <1>b DEF EndRun, AllEnded
  <2> QED
    BY <1>a, <1>b, <2>1 DEF RunOrIdle, InIdle, IdleIsStill, Listening
<1>10. CASE MissionStarts
  BY <1>10, <1>a, <1>b DEF MissionStarts, RunOrIdle, InIdle, IdleIsStill
<1>11. CASE MissionEnds
  <2>1. /\ mission = "loop" /\ mission' = "off" /\ ~Module_Enable'
        /\ \E o \in {"timeout", "succeeded", "preempted"} :
               outcome' = [outcome EXCEPT !["Mission"] = o]
        /\ UNCHANGED <<monitor, ahead, strayed>>
    BY <1>11 DEF MissionEnds, disable_task
  <2> QED
    BY <1>a, <1>b, <2>1 DEF RunOrIdle, InIdle, IdleIsStill, None
<1>12. CASE MissionTests \/ MissionDrives
  <2>1. /\ mission \in {"loop", "drive"} /\ mission' \in {"loop", "drive"}
        /\ UNCHANGED <<monitor, outcome, Module_Enable>>
    BY <1>12 DEF MissionTests, MissionDrives
  <2> QED
    BY <1>a, <2>1 DEF RunOrIdle, InIdle, IdleIsStill, Listening
<1>13. CASE PathSeen
  <2>1. /\ UNCHANGED <<monitor, mission, outcome, Module_Enable>>
        /\ ahead' = "stop" \/ ahead' = "go"
        /\ strayed' = (strayed \/ (InIdle /\ ahead' = "go"))
    BY <1>13 DEF PathSeen
  <2>2. RunOrIdle'
    BY <1>a, <2>1 DEF RunOrIdle, InIdle
  <2>3. monitor["Idle"] \in Listening => InIdle
    BY DEF InIdle, Listening
  <2> QED
    BY <2>1, <2>2, <2>3 DEF IdleIsStill
<1> QED
  BY <1>1, <1>2, <1>3, <1>4, <1>5, <1>6, <1>7, <1>8, <1>9, <1>10, <1>11, <1>12, <1>13
     DEF BrainNext, BrainStep, brainVars

-----------------------------------------------------------------------------
\* The pulls a run may be due to.  Each value on its way from the switch to Idle
\* has a stamp: how often the switch had been pulled when the value was read, at
\* the least.  A 0 after a 1 is a pull more.
After(u, i, v, j) == i <= j /\ (u = 1 /\ v = 0 => i < j)

\* The value Idle heard last, and the pulls that are used up or in its hands.
Heard == IF shouldStartMission THEN 0 ELSE 1
Used == runs + (IF monitor["Idle"] = "woken" THEN 1 ELSE 0)
             + (IF shouldStartMission THEN 1 ELSE 0)

\* In order: what was heard, the reports (stamped g), the line (l), the switch.
Stamped(g, l) ==
    /\ g \in [1..Len(reports) -> Nat] /\ l \in Nat
    /\ After(Heard, Used, switch, pulls)
    /\ line # <<>> => /\ After(Heard, Used, line[1], l)
                      /\ After(line[1], l, switch, pulls)
    /\ \A i \in 1..Len(reports) :
        /\ After(Heard, Used, reports[i], g[i])
        /\ After(reports[i], g[i], switch, pulls)
        /\ line # <<>> => After(reports[i], g[i], line[1], l)
        /\ \A j \in (i + 1)..Len(reports) : After(reports[i], g[i], reports[j], g[j])

PullsLast == \E g, l : Stamped(g, l)

\* The types of all that is stamped.
LEMMA StampTypes ==
    ASSUME BrainTypeOK
    PROVE  /\ reports \in Seq({0, 1}) /\ line \in Seq({0, 1}) /\ Len(line) <= 1
           /\ Len(reports) \in Nat
           /\ switch \in {0, 1} /\ pulls \in Nat /\ runs \in Nat /\ Used \in Nat
           /\ Heard \in {0, 1}
           /\ line # <<>> => line[1] \in {0, 1} /\ Head(line) = line[1] /\ Tail(line) = <<>>
           /\ \A i \in 1..Len(reports) : reports[i] \in {0, 1}
<1>1. /\ reports \in Seq({0, 1}) /\ line \in Seq({0, 1}) /\ Len(line) <= 1
      /\ switch \in {0, 1} /\ pulls \in Nat /\ runs \in Nat
  BY SensorsAssumption DEF BrainTypeOK, SensorsTypeOK
<1>2. Used \in Nat /\ Heard \in {0, 1}
  BY <1>1 DEF Used, Heard
<1>3. line # <<>> => line[1] \in {0, 1} /\ Head(line) = line[1] /\ Tail(line) = <<>>
  BY <1>1
<1> QED
  BY <1>1, <1>2, <1>3

\* The order of stamps skips what is between.
LEMMA AfterSkips ==
    ASSUME NEW u \in {0, 1}, NEW v \in {0, 1}, NEW x \in {0, 1},
           NEW i \in Nat, NEW j \in Nat, NEW k \in Nat,
           After(u, i, v, j), After(v, j, x, k)
    PROVE  After(u, i, x, k)
  BY DEF After

\* The stamps still hold when the switch moves and nothing else does.
LEMMA SwitchStep ==
    ASSUME BrainTypeOK, PullsLast, Pull \/ Push,
           UNCHANGED <<line, reports, Heard, Used>>
    PROVE  PullsLast'
<1>1. PICK g, l : Stamped(g, l)
  BY DEF PullsLast
<1>2. ASSUME NEW u \in {0, 1}, NEW i \in Nat, After(u, i, switch, pulls)
      PROVE  After(u, i, switch', pulls')
  BY <1>2, StampTypes DEF After, Pull, Push
<1>3. Stamped(g, l)'
  BY <1>1, <1>2, StampTypes DEF Stamped
<1> QED
  BY <1>3 DEF PullsLast

\* They hold when a line is printed, which is what the switch is, or is lost.
LEMMA LineStep ==
    ASSUME BrainTypeOK, PullsLast, line' \in {<<switch>>, <<>>},
           UNCHANGED <<switch, pulls, reports, Heard, Used>>
    PROVE  PullsLast'
<1>1. PICK g, l : Stamped(g, l)
  BY DEF PullsLast
<1>2. line' # <<>> => line'[1] = switch
  OBVIOUS
<1>3. After(switch, pulls, switch, pulls)
  BY StampTypes DEF After
<1>4. Stamped(g, pulls)'
  BY <1>1, <1>2, <1>3, StampTypes DEF Stamped
<1> QED
  BY <1>4 DEF PullsLast

\* They hold when a line is read, and perhaps reported.
LEMMA ReadStep ==
    ASSUME BrainTypeOK, PullsLast, line # <<>>, line' = <<>>,
           reports' \in {reports, Append(reports, line[1])},
           UNCHANGED <<switch, pulls, Heard, Used>>
    PROVE  PullsLast'
<1>1. PICK g, l : Stamped(g, l)
  BY DEF PullsLast
<1>2. CASE reports' = reports
  <2>1. Stamped(g, l)'
    BY <1>1, <1>2 DEF Stamped
  <2> QED
    BY <2>1 DEF PullsLast
<1>3. CASE reports' = Append(reports, line[1])
  <2> DEFINE n == Len(reports)
  <2>1. /\ n \in Nat /\ Len(reports') = n + 1 /\ reports'[n + 1] = line[1]
        /\ \A i \in 1..n : reports'[i] = reports[i]
    BY <1>3, StampTypes
  <2>2. PICK h \in [1..(n + 1) -> Nat] : h[n + 1] = l /\ \A i \in 1..n : h[i] = g[i]
    <3> DEFINE f == [i \in 1..(n + 1) |-> IF i = n + 1 THEN l ELSE g[i]]
    <3>1. f \in [1..(n + 1) -> Nat] /\ f[n + 1] = l /\ \A i \in 1..n : f[i] = g[i]
      BY <1>1, <2>1 DEF Stamped
    <3> QED
      BY <3>1
  <2> HIDE DEF n
  <2>3. Stamped(h, l)'
    <3>1. ASSUME NEW i \in 1..(n + 1)
          PROVE  /\ After(Heard, Used, reports'[i], h[i])
                 /\ After(reports'[i], h[i], switch, pulls)
                 /\ \A j \in (i + 1)..(n + 1) : After(reports'[i], h[i], reports'[j], h[j])
      <4>1. CASE i = n + 1
        BY <1>1, <2>1, <2>2, <4>1 DEF Stamped
      <4>2. CASE i \in 1..n
        BY <1>1, <2>1, <2>2, <4>2 DEF Stamped, n
      <4> QED
        BY <2>1, <4>1, <4>2
    <3> QED
      BY <1>1, <2>1, <2>2, <3>1 DEF Stamped
  <2> QED
    BY <2>3 DEF PullsLast
<1> QED
  BY <1>2, <1>3

\* They hold when a report leaves without Idle having heard it.
LEMMA DropStep ==
    ASSUME BrainTypeOK, NEW g, NEW l, Stamped(g, l), reports # <<>>, reports' = Tail(reports)
    PROVE  \E h \in [1..Len(reports') -> Nat] : \A i \in 1..Len(reports') :
               i + 1 \in 1..Len(reports) /\ h[i] = g[i + 1] /\ reports'[i] = reports[i + 1]
<1> DEFINE n == Len(reports)
           f == [i \in 1..(n - 1) |-> g[i + 1]]
<1>1. n \in Nat /\ n # 0 /\ Len(reports') = n - 1 /\ g \in [1..n -> Nat]
  BY StampTypes DEF Stamped
<1>2. \A i \in 1..(n - 1) : i + 1 \in 1..n /\ reports'[i] = reports[i + 1]
  BY <1>1, StampTypes
<1>3. f \in [1..(n - 1) -> Nat] /\ \A i \in 1..(n - 1) : f[i] = g[i + 1]
  BY <1>1, <1>2
<1> QED
  BY <1>1, <1>2, <1>3

\* They hold when a report is taken, whether Idle hears it or not.
LEMMA HearStep ==
    ASSUME BrainTypeOK, PullsLast, Hear
    PROVE  PullsLast'
<1>1. PICK g, l : Stamped(g, l)
  BY DEF PullsLast
<1>2. reports # <<>> /\ reports' = Tail(reports) /\ UNCHANGED <<switch, pulls, line, runs>>
  BY DEF Hear, restOfSensors
<1>3. PICK h \in [1..Len(reports') -> Nat] : \A i \in 1..Len(reports') :
          i + 1 \in 1..Len(reports) /\ h[i] = g[i + 1] /\ reports'[i] = reports[i + 1]
  BY <1>1, <1>2, DropStep
<1>4. /\ 1 \in 1..Len(reports) /\ Head(reports) = reports[1] /\ reports[1] \in {0, 1}
      /\ g[1] \in Nat
  <2>1. reports \in Seq({0, 1}) /\ Len(reports) \in Nat /\ reports # <<>>
    BY <1>2, StampTypes
  <2>2. 1 \in 1..Len(reports)
    BY <2>1
  <2>3. g \in [1..Len(reports) -> Nat]
    BY <1>1 DEF Stamped
  <2> QED
    BY <2>1, <2>2, <2>3
<1>5. /\ monitor["Idle"] \in Listening \cup {"off", "entered"}
      /\ shouldStartMission \in BOOLEAN /\ runs \in Nat
      /\ \/ monitor'["Idle"] = monitor["Idle"]
         \/ /\ "Idle" \in Refuses(reports[1]) /\ monitor["Idle"] = "waiting"
            /\ monitor'["Idle"] = "woken"
  <2>1. monitor' = Notify(Refuses(reports[1])) /\ "Idle" \in Monitor
    BY <1>4 DEF Hear, Monitor
  <2>2. Refuses(reports[1]) \in SUBSET Monitor
    BY DEF Refuses
  <2>3. \/ monitor'["Idle"] = monitor["Idle"]
        \/ /\ "Idle" \in Refuses(reports[1]) /\ monitor["Idle"] = "waiting"
           /\ monitor'["Idle"] = "woken"
    BY <2>1, <2>2, NotifyTypes
  <2> QED
    BY <2>1, <2>3 DEF BrainTypeOK
<1>6. \/ Heard' = Heard /\ Used' = Used
      \/ Heard' = reports[1] /\ Used' \in Nat /\ Used' <= g[1]
  <2>1. After(Heard, Used, reports[1], g[1])
    BY <1>1, <1>4 DEF Stamped
  <2>2. CASE monitor["Idle"] \notin Listening
    <3>1. UNCHANGED <<shouldStartMission, runs>> /\ monitor'["Idle"] = monitor["Idle"]
      BY <1>2, <1>5, <2>2 DEF Hear, Listening
    <3> QED
      BY <3>1 DEF Heard, Used
  <2>3. CASE monitor["Idle"] \in Listening
    <3>1. shouldStartMission' = (reports[1] = 0)
      BY <1>4, <2>3 DEF Hear, Armed
    <3>2. Heard' = reports[1]
      BY <1>4, <3>1 DEF Heard
    <3>3. CASE reports[1] = 0
      <4>1. monitor'["Idle"] = monitor["Idle"]
        BY <1>5, <3>3 DEF Refuses
      <4>2. Used' \in Nat /\ Used' <= g[1]
        BY <1>2, <1>4, <1>5, <2>1, <3>1, <3>3, <4>1 DEF Used, Heard, After
      <4> QED
        BY <3>2, <4>2
    <3>4. CASE reports[1] = 1 /\ shouldStartMission
      <4>1. ~shouldStartMission'
        <5>1. reports[1] # 0
          BY <3>4
        <5> QED
          BY <3>1, <5>1, Zenon
      <4>2. Used' \in Nat /\ Used' <= Used
        BY <1>2, <1>5, <3>4, <4>1 DEF Used
      <4>3. Used <= g[1] /\ Used \in Nat
        BY <2>1, StampTypes DEF After
      <4> QED
        BY <1>4, <3>2, <4>2, <4>3
    <3>5. CASE reports[1] = 1 /\ ~shouldStartMission
      <4>1. ~shouldStartMission' /\ monitor'["Idle"] = monitor["Idle"]
        BY <1>5, <3>1, <3>5 DEF Refuses
      <4>2. Heard' = Heard /\ Used' = Used
        BY <1>2, <3>5, <4>1 DEF Used, Heard
      <4> QED
        BY <4>2
    <3> QED
      BY <1>4, <3>3, <3>4, <3>5
  <2> QED
    BY <2>2, <2>3
<1>7. ASSUME NEW v \in {0, 1}, NEW k \in Nat, After(Heard, Used, v, k),
             After(reports[1], g[1], v, k)
      PROVE  After(Heard', Used', v, k)
  BY <1>4, <1>6, <1>7 DEF After
<1>8. Stamped(h, l)'
  <2>1. After(Heard', Used', switch', pulls')
    BY <1>1, <1>2, <1>4, <1>7, StampTypes DEF Stamped
  <2>2. line' # <<>> => /\ After(Heard', Used', line'[1], l)
                        /\ After(line'[1], l, switch', pulls')
    BY <1>1, <1>2, <1>4, <1>7, StampTypes DEF Stamped
  <2>3. ASSUME NEW i \in 1..Len(reports')
        PROVE  /\ After(Heard', Used', reports'[i], h[i])
               /\ After(reports'[i], h[i], switch', pulls')
               /\ line' # <<>> => After(reports'[i], h[i], line'[1], l)
               /\ \A j \in (i + 1)..Len(reports') : After(reports'[i], h[i], reports'[j], h[j])
    <3>1. i + 1 \in 1..Len(reports) /\ h[i] = g[i + 1] /\ reports'[i] = reports[i + 1]
      BY <1>3
    <3>2. i + 1 \in (1 + 1)..Len(reports)
      BY <3>1, <2>3
    <3>3. After(Heard', Used', reports'[i], h[i])
      BY <1>1, <1>4, <1>7, <3>1, <3>2, StampTypes DEF Stamped
    <3>4. /\ After(reports'[i], h[i], switch', pulls')
          /\ line' # <<>> => After(reports'[i], h[i], line'[1], l)
      BY <1>1, <1>2, <3>1 DEF Stamped
    <3>5. ASSUME NEW j \in (i + 1)..Len(reports')
          PROVE  After(reports'[i], h[i], reports'[j], h[j])
      <4>1. j \in 1..Len(reports')
        BY <2>3, <3>5
      <4>2. h[j] = g[j + 1] /\ reports'[j] = reports[j + 1] /\ j + 1 \in 1..Len(reports)
        BY <1>3, <4>1
      <4>3. j + 1 \in ((i + 1) + 1)..Len(reports)
        BY <3>5, <4>2, <3>1
      <4> QED
        BY <1>1, <3>1, <4>2, <4>3 DEF Stamped
    <3> QED
      BY <3>3, <3>4, <3>5
  <2> QED
    BY <1>1, <2>1, <2>2, <2>3 DEF Stamped
<1> QED
  BY <1>8 DEF PullsLast

\* Neither the threads of the Brain nor the timers of the node touch the stamps.
LEMMA StampsStill ==
    ASSUME PullsLast, UNCHANGED <<switch, pulls, line, reports, Heard, Used>>
    PROVE  PullsLast'
<1>1. PICK g, l : Stamped(g, l)
  BY DEF PullsLast
<1>2. Stamped(g, l)'
  BY <1>1 DEF Stamped
<1> QED
  BY <1>2 DEF PullsLast

\* No step needs a pull that there has not been.
LEMMA PullsStep == BrainTypeOK /\ PullsLast /\ [BrainNext]_brainVars => PullsLast'
<1> SUFFICES ASSUME BrainTypeOK, PullsLast, [BrainNext]_brainVars PROVE PullsLast'
  OBVIOUS
<1>a. UNCHANGED brainOwn => UNCHANGED <<Heard, Used>>
  BY DEF brainOwn, Heard, Used
<1>b. /\ monitor \in [Monitor -> Listening \cup {"off", "entered"}] /\ runs \in Nat
      /\ "Idle" \in Monitor
  BY DEF BrainTypeOK, Monitor
<1>c. ASSUME UNCHANGED <<sensorsVars, shouldStartMission, runs>>,
             monitor'["Idle"] = "woken" <=> monitor["Idle"] = "woken"
      PROVE  PullsLast'
  <2>1. UNCHANGED <<Heard, Used, switch, pulls, line, reports>>
    BY <1>c DEF Heard, Used, sensorsVars
  <2> QED
    BY <2>1, StampsStill
<1>1. CASE SensorsNext /\ UNCHANGED brainOwn
  <2>1. CASE Pull \/ Push
    BY <2>1, <1>1, <1>a, SwitchStep DEF Pull, Push
  <2>2. CASE BoardLoops \/ LineLost \/ PortFails
    BY <2>2, <1>1, <1>a, LineStep DEF BoardLoops, LineLost, PortFails
  <2>3. CASE ReadLine
    <3>1. /\ line # <<>> /\ line' = <<>> /\ UNCHANGED <<switch, pulls>>
          /\ reports' \in {reports, Append(reports, Head(line))}
      BY <2>3 DEF ReadLine
    <3>2. Head(line) = line[1]
      BY <3>1, StampTypes
    <3> QED
      BY <1>1, <1>a, <3>1, <3>2, ReadStep
  <2>4. CASE (\E g \in Group : TimerEnds(g)) \/ PortOpens \/ Ask
    BY <2>4, <1>1, <1>a, StampsStill DEF TimerEnds, PortOpens, Ask
  <2> QED
    BY <1>1, <2>1, <2>2, <2>3, <2>4 DEF SensorsNext
<1>2. CASE Hear
  BY <1>2, HearStep
<1>3. CASE \E m \in Monitor : Listen(m) \/ Wait(m)
  BY <1>3, <1>b, <1>c DEF Listen, Wait
<1>4. CASE StartRun
  <2>1. /\ monitor["Idle"] = "woken" /\ monitor'["Idle"] # "woken" /\ runs' = runs + 1
        /\ UNCHANGED <<shouldStartMission, switch, pulls, line, reports>>
    BY <1>4 DEF StartRun, sensorsVars
  <2>2. Heard' = Heard /\ Used' = Used
    BY <1>b, <2>1 DEF Heard, Used
  <2> QED
    BY <2>1, <2>2, StampsStill
<1>5. CASE MonitorEnds
  BY <1>5, <1>b, <1>c DEF MonitorEnds
<1>6. CASE Cancel
  <2>1. monitor'["Idle"] = monitor["Idle"]
    BY <1>6, <1>b DEF Cancel, Notify
  <2> QED
    BY <1>6, <1>c, <2>1 DEF Cancel
<1>7. CASE EndRun
  BY <1>7, <1>b, <1>c DEF EndRun, InIdle
<1>8. CASE SurfaceEnds \/ MissionStarts \/ MissionEnds \/ MissionTests \/ MissionDrives
               \/ PathSeen
  BY <1>8, <1>c DEF SurfaceEnds, MissionStarts, MissionEnds, MissionTests,
                      MissionDrives, PathSeen
<1>9. CASE UNCHANGED brainVars
  BY <1>9, <1>c DEF brainVars, brainOwn
<1> QED
  BY <1>1, <1>2, <1>3, <1>4, <1>5, <1>6, <1>7, <1>8, <1>9 DEF BrainNext, BrainStep

\* A switch found pulled counts as one pull.
LEMMA BrainInitInv == BrainInit => BrainInv /\ PullsLast
<1> SUFFICES ASSUME BrainInit PROVE BrainInv /\ PullsLast
  OBVIOUS
<1>1. SensorsTypeOK
  <2>1. \A k \in Nat : 0 \in 0..k
    OBVIOUS
  <2>2. pulls \in 0..MaxPulls
    BY SensorsAssumption DEF BrainInit, SensorsInit
  <2> QED
    BY <2>1, <2>2, SensorsAssumption DEF BrainInit, SensorsInit, SensorsTypeOK
<1>2. BrainTypeOK
  BY <1>1, Zenon DEF BrainInit, BrainTypeOK, Listening, Monitor, Child
<1>3. RunOrIdle /\ IdleIsStill
  BY DEF BrainInit, RunOrIdle, InIdle, IdleIsStill, Monitor, Listening
<1>4. Stamped(<<>>, 0)
  BY DEF BrainInit, SensorsInit, Stamped, Heard, Used, After, Monitor
<1> QED
  BY <1>2, <1>3, <1>4 DEF BrainInv, PullsLast

\* The invariant of the Brain survives every step.
LEMMA BrainInvStep == BrainInv /\ PullsLast /\ [BrainNext]_brainVars => (BrainInv /\ PullsLast)'
  BY BrainTypeStep, RunStep, PullsStep DEF BrainInv

-----------------------------------------------------------------------------
\* The types of the Brain and of the sensor node.
THEOREM BrainTypes == BrainSpec => []BrainTypeOK
<1>1. BrainInv => BrainTypeOK
  BY DEF BrainInv
<1> QED
  BY <1>1, BrainInitInv, BrainInvStep, PTL DEF BrainSpec

\* However a mission ended, and however the threads of CompRun interleaved, its
\* task is disabled by the time the Brain is in Idle.
THEOREM IdleHasNoTask == BrainSpec => []IdleIsDisabled
<1>1. BrainInv => IdleIsDisabled
  BY DEF BrainInv, RunOrIdle, IdleIsDisabled
<1> QED
  BY <1>1, BrainInitInv, BrainInvStep, PTL DEF BrainSpec

\* No command of the mission follows the stop of Idle.
THEOREM IdleStaysStill == BrainSpec => []IdleIsStill
<1>1. BrainInv => IdleIsStill
  BY DEF BrainInv
<1> QED
  BY <1>1, BrainInitInv, BrainInvStep, PTL DEF BrainSpec

\* Each run of CompRun has a pull of the switch of its own, through any number
\* of lines lost, reports repeated or missed, and ports that fail.
THEOREM EachRunIsPulled == BrainSpec => []RunsArePulled
<1>1. BrainInv /\ PullsLast => RunsArePulled
  <2> SUFFICES ASSUME BrainTypeOK, PullsLast PROVE RunsArePulled
    BY DEF BrainInv
  <2>1. Used <= pulls
    BY DEF PullsLast, Stamped, After
  <2>2. runs <= Used
    BY StampTypes DEF Used
  <2> QED
    BY <2>1, <2>2, StampTypes DEF RunsArePulled
<1> QED
  BY <1>1, BrainInitInv, BrainInvStep, PTL DEF BrainSpec
=============================================================================
