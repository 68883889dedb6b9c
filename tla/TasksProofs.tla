---------------------------- MODULE TasksProofs -----------------------------
(***************************************************************************)
(* Theorems about QualifyTask and BuoysTask, for any number of threads and *)
(* messages and any choice of buoys, and about all the tasks and the state *)
(* machine under Nodes.                                                    *)
(***************************************************************************)
EXTENDS Nodes, PathTaskProofs, StateMachineProofs

QualifyInv == QualifyTypeOK /\ EnabledIsServed

\* A thread that takes a step leaves its kind of place and the others alone.
LEMMA BecomeType ==
    ASSUME QualifyTypeOK, NEW w \in Worker, NEW p \in Live \cup {"none", "done"}, Become(w, p)
    PROVE  /\ worker' \in [Worker -> Live \cup {"none", "done"}]
           /\ worker'[w] = p
           /\ \A u \in Worker \ {w} : worker'[u] = worker[u]
  BY Zenon DEF QualifyTypeOK, Become

\* A thread that goes on is at work still, until it resets the flag.
LEMMA QualifyStepInv ==
    ASSUME QualifyInv, NEW w \in Worker, QualifyStep(w)
    PROVE  QualifyInv'
<1>a. QualifyTypeOK /\ EnabledIsServed
  BY DEF QualifyInv
<1>1. ASSUME NEW p \in Live, Become(w, p), isEnabled' = isEnabled,
             depthSet' \in BOOLEAN, driving' \in BOOLEAN
      PROVE  QualifyInv'
  <2>1. /\ worker' \in [Worker -> Live \cup {"none", "done"}]
        /\ worker'[w] \in Live
    BY <1>a, <1>1, BecomeType
  <2>2. QualifyTypeOK'
    BY <1>a, <1>1, <2>1 DEF QualifyTypeOK
  <2>3. EnabledIsServed'
    BY <2>1 DEF EnabledIsServed
  <2> QED
    BY <2>2, <2>3 DEF QualifyInv
<1>2. CASE Wake(w)
  <2>1. worker[w] \in Sleeping
    BY <1>2 DEF Wake
  <2>2. [sleep1 |-> "wake1", sleep2 |-> "wake2", sleep3 |-> "wake3"][worker[w]] \in Live
    BY <2>1 DEF Sleeping, Waking, Live
  <2> QED
    BY <1>a, <1>1, <1>2, <2>2 DEF Wake, QualifyTypeOK
<1>3. CASE Check(w)
  <2>1. worker[w] \in Waking
    BY <1>3 DEF Check
  <2>2. (IF isEnabled THEN Work[worker[w]] ELSE "reset") \in Live
    BY <2>1 DEF Waking, Acting, Live, Work
  <2> QED
    BY <1>a, <1>1, <1>3, <2>2 DEF Check, QualifyTypeOK
<1>4. CASE Act(w)
  <2>1. (IF worker[w] = "dive" THEN "sleep2" ELSE "sleep3") \in Live
    BY DEF Sleeping, Live
  <2>2. depthSet' \in BOOLEAN /\ driving' \in BOOLEAN
    BY <1>4, Zenon DEF Act
  <2> QED
    BY <1>1, <1>4, <2>1, <2>2 DEF Act
<1>5. CASE Reset(w)
  <2>1. worker' \in [Worker -> Live \cup {"none", "done"}]
    BY <1>a, <1>5, BecomeType DEF Reset
  <2> QED
    BY <1>a, <1>5, <2>1 DEF Reset, QualifyInv, QualifyTypeOK, EnabledIsServed
<1> QED
  BY <1>2, <1>3, <1>4, <1>5 DEF QualifyStep

\* The invariant of QualifyTask survives every step.
LEMMA QualifyInvStep == QualifyInv /\ [QualifyNext]_qualifyVars => QualifyInv'
<1> SUFFICES ASSUME QualifyInv, [QualifyNext]_qualifyVars PROVE QualifyInv'
  OBVIOUS
<1>a. QualifyTypeOK /\ EnabledIsServed
  BY DEF QualifyInv
<1>1. ASSUME NEW w \in Worker, QualifyEnable(w) PROVE QualifyInv'
  <2>1. "sleep1" \in Live
    BY DEF Sleeping, Live
  <2>2. worker' \in [Worker -> Live \cup {"none", "done"}] /\ worker'[w] = "sleep1"
    BY <1>a, <1>1, <2>1, BecomeType DEF QualifyEnable
  <2> QED
    BY <1>a, <1>1, <2>1, <2>2 DEF QualifyEnable, QualifyInv, QualifyTypeOK, EnabledIsServed
<1>2. CASE QualifyDisable
  BY <1>a, <1>2 DEF QualifyDisable, QualifyInv, QualifyTypeOK, EnabledIsServed
<1>3. CASE UNCHANGED qualifyVars
  BY <1>a, <1>3 DEF qualifyVars, QualifyInv, QualifyTypeOK, EnabledIsServed
<1> QED
  BY <1>1, <1>2, <1>3, QualifyStepInv DEF QualifyNext

\* No thread is at work and none is wanted.
LEMMA QualifyInitInv == QualifyInit => QualifyInv
  BY DEF QualifyInit, QualifyInv, QualifyTypeOK, EnabledIsServed

-----------------------------------------------------------------------------
\* Phases in which the second buoy has been in view, and those past both.
SeenSecond == {"second", "centred2", "bump2", "bump2On"}
Done == {"clear", "rise", "over", "dive"}

\* Only the innermost call has not been disturbed; a call that has seen the
\* second buoy, or ended well, is not blind; while one is, no sample of it is
\* held.
Outer == \A i \in 1..(Len(performs) - 1) : performs[i].disturbed
Honest == \A i \in DOMAIN performs :
    /\ performs[i].success => performs[i].phase \in Done
    /\ performs[i].phase \in SeenSecond \/ performs[i].success => ~performs[i].blind
    /\ performs[i].blind => samples[BumpSecond] = 0

BuoysInv ==
    /\ BuoysTypeOK /\ answers + Len(performs) = begun
    /\ Outer /\ Honest /\ StillForFirst

\* What BuoysTypeOK says of the calls, and what Top and In stand for.
LEMMA CallTypes ==
    ASSUME BuoysTypeOK
    PROVE  /\ performs \in Seq(Call) /\ Len(performs) \in Nat
           /\ DOMAIN performs = 1..Len(performs)
           /\ \A i \in DOMAIN performs : performs[i] \in Call
           /\ performs # <<>> => Len(performs) \in DOMAIN performs
           /\ Top = performs[Len(performs)]
           /\ BumpSecond \in Buoy /\ BumpFirst \in Buoy /\ "RED" \in Buoy
  BY DEF BuoysTypeOK, Top, Last, Buoy

\* The same call one phase on.
Moved(phase) == [performs EXCEPT ![Len(performs)].phase = phase]

\* A step of the innermost call within performTask that the invariant bears.
Fair(phase, dir, kept) ==
    /\ performs # <<>> /\ GoOn(phase, dir, kept)
    /\ phase \in Phase /\ dir \in {"stop", "go", "back"}
    /\ kept \in {samples, Cleared, Approaching}
    /\ phase \in Standing => dir = "stop" \/ (dir = ahead /\ Top.phase \in Standing)
    /\ phase \in SeenSecond => Top.phase \in SeenSecond \/ Visible(BumpSecond)
    /\ Top.phase \in Done => phase \in Done

\* The samples a step leaves are samples, and none is made up.
LEMMA KeptTypes ==
    ASSUME BuoysTypeOK, NEW kept \in {samples, Cleared, Approaching}
    PROVE  /\ kept \in [Buoy -> 0..3]
           /\ samples[BumpSecond] = 0 => kept[BumpSecond] = 0
  BY CallTypes DEF BuoysTypeOK, Cleared, Approaching, Buoy

\* Such a step keeps the invariant.
LEMMA FairStep ==
    ASSUME BuoysInv, NEW phase, NEW dir, NEW kept, Fair(phase, dir, kept)
    PROVE  BuoysInv'
<1> DEFINE n == Len(performs)
<1>a. BuoysTypeOK /\ Outer /\ Honest /\ StillForFirst /\ answers + Len(performs) = begun
  BY DEF BuoysInv
<1>b. /\ performs' = Moved(phase) /\ ahead' = dir /\ samples' = kept
      /\ UNCHANGED <<m_isEnabled, begun, answers>>
      /\ phase \in Phase /\ dir \in {"stop", "go", "back"} /\ performs # <<>>
  BY DEF Fair, GoOn, Moved
<1>c. /\ n \in DOMAIN performs /\ performs \in Seq(Call) /\ DOMAIN performs = 1..n /\ n \in Nat
      /\ performs[n] \in Call
  BY <1>a, <1>b, CallTypes
<1>d. /\ performs' \in Seq(Call) /\ Len(performs') = n /\ DOMAIN performs' = 1..n
      /\ performs'[n] = [performs[n] EXCEPT !.phase = phase]
      /\ \A i \in 1..n \ {n} : performs'[i] = performs[i]
  BY <1>b, <1>c DEF Moved, Call
<1>e. /\ performs'[n].phase = phase
      /\ \A i \in 1..n : /\ performs'[i].success = performs[i].success
                         /\ performs'[i].blind = performs[i].blind
                         /\ performs'[i].disturbed = performs[i].disturbed
  BY <1>c, <1>d DEF Call
<1>f. samples' \in [Buoy -> 0..3] /\ (samples[BumpSecond] = 0 => samples'[BumpSecond] = 0)
  BY <1>a, <1>b, KeptTypes DEF Fair
<1>1. BuoysTypeOK'
  BY <1>a, <1>b, <1>d, <1>f DEF BuoysTypeOK
<1>2. Outer'
  BY <1>a, <1>c, <1>d, <1>e DEF Outer
<1>3. Honest'
  <2> SUFFICES ASSUME NEW i \in 1..n
               PROVE  /\ performs'[i].success => performs'[i].phase \in Done
                      /\ performs'[i].phase \in SeenSecond \/ performs'[i].success
                             => ~performs'[i].blind
                      /\ performs'[i].blind => samples'[BumpSecond] = 0
    BY <1>d DEF Honest
  <2>1. /\ performs[i].success => performs[i].phase \in Done
        /\ performs[i].phase \in SeenSecond \/ performs[i].success => ~performs[i].blind
        /\ performs[i].blind => samples[BumpSecond] = 0
    BY <1>a, <1>c DEF Honest
  <2>2. CASE i # n
    BY <1>d, <1>f, <2>1, <2>2
  <2>3. CASE i = n
    <3>1. /\ phase \in SeenSecond => performs[n].phase \in SeenSecond \/ samples[BumpSecond] >= 3
          /\ performs[n].phase \in Done => phase \in Done
      BY <1>a, CallTypes DEF Fair, Visible
    <3>2. samples[BumpSecond] = 0 => ~(samples[BumpSecond] >= 3)
      OBVIOUS
    <3> QED
      BY <1>e, <1>f, <2>1, <2>3, <3>1, <3>2
  <2> QED
    BY <2>2, <2>3
<1>4. StillForFirst'
  <2>1. Top' = performs'[n] /\ Top = performs[n]
    BY <1>d DEF Top, Last
  <2>2. In(Standing)' => phase \in Standing
    BY <1>e, <2>1 DEF In
  <2>3. phase \in Standing => ahead' = "stop" \/ (ahead' = ahead /\ In(Standing))
    BY <1>b, <2>1 DEF Fair, In
  <2>4. Top'.disturbed = Top.disturbed
    BY <1>c, <1>e, <2>1
  <2> QED
    BY <1>a, <2>2, <2>3, <2>4 DEF StillForFirst
<1> QED
  BY <1>a, <1>b, <1>d, <1>1, <1>2, <1>3, <1>4 DEF BuoysInv

\* What is below the last index is another one.
LEMMA Below == \A m \in Nat : \A i \in 1..(m - 1) : i \in 1..m \ {m}
  OBVIOUS

\* The innermost call returns, and those around it are all disturbed.
LEMMA EndsStep ==
    ASSUME BuoysInv, performs # <<>>, PerformEnds, samples' \in {samples, Cleared}
    PROVE  BuoysInv'
<1> DEFINE n == Len(performs)
<1>a. BuoysTypeOK /\ Outer /\ Honest /\ answers + n = begun
  BY DEF BuoysInv
<1>b. /\ n \in Nat /\ n # 0 /\ performs \in Seq(Call) /\ DOMAIN performs = 1..n
  BY <1>a, CallTypes
<1>c. performs' = SubSeq(performs, 1, n - 1)
  BY DEF PerformEnds, Front
<1>d. /\ performs' \in Seq(Call) /\ Len(performs') = n - 1 /\ DOMAIN performs' = 1..(n - 1)
      /\ \A i \in 1..(n - 1) : performs'[i] = performs[i]
  BY <1>b, <1>c
<1>e. samples' \in [Buoy -> 0..3] /\ (samples[BumpSecond] = 0 => samples'[BumpSecond] = 0)
  BY <1>a, KeptTypes
<1>f. /\ answers' = answers + 1 /\ m_isEnabled' = FALSE
      /\ begun' = begun /\ ahead' = ahead
  BY DEF PerformEnds
<1>1. BuoysTypeOK'
  <2>1. MaxPerforms \in Nat /\ answers \in Nat /\ begun \in 0..MaxPerforms
    BY <1>a, BuoysAssumption DEF BuoysTypeOK
  <2>2. answers' \in 0..MaxPerforms /\ Len(performs') <= MaxPerforms
    BY <1>a, <1>b, <1>d, <1>f, <2>1 DEF BuoysTypeOK
  <2> QED
    BY <1>a, <1>d, <1>e, <1>f, <2>1, <2>2 DEF BuoysTypeOK
<1>2. Outer'
  BY <1>a, <1>b, <1>d DEF Outer
<1>3. Honest'
  BY <1>a, <1>b, <1>d, <1>e DEF Honest
<1>4. StillForFirst'
  BY <1>a, <1>b, <1>d DEF StillForFirst, In, Top, Last, Outer
<1> QED
  <2>1. answers' + Len(performs') = begun'
    BY <1>a, <1>b, <1>d, <1>f DEF BuoysTypeOK
  <2> QED
    BY <1>1, <1>2, <1>3, <1>4, <2>1 DEF BuoysInv

\* Bumped: the samples are gone, and with them what a blind call might hold.
LEMMA BumpedStep ==
    ASSUME BuoysInv, BackOff \/ ClearOff
    PROVE  BuoysInv'
<1> DEFINE n == Len(performs)
<1>a. BuoysTypeOK /\ Outer /\ Honest /\ answers + n = begun
  BY DEF BuoysInv
<1>b. /\ performs # <<>> /\ ahead' = "back" /\ samples' = Cleared
      /\ UNCHANGED <<m_isEnabled, begun, answers>>
  BY DEF BackOff, ClearOff, In
<1>c. /\ n \in DOMAIN performs /\ performs \in Seq(Call) /\ DOMAIN performs = 1..n /\ n \in Nat
      /\ performs[n] \in Call /\ Top = performs[n]
  BY <1>a, <1>b, CallTypes
<1>d. \/ /\ performs' = [performs EXCEPT ![n].phase = "back", ![n].blind = TRUE]
         /\ performs[n].phase = "bumpOn"
      \/ /\ performs' = [performs EXCEPT ![n].phase = "clear", ![n].success = TRUE]
         /\ performs[n].phase = "bump2On"
  BY <1>c DEF BackOff, ClearOff, In
<1>e. "back" \in Phase /\ "clear" \in Phase
  BY DEF Phase, Second
<1>m. n \in 1..n /\ n \in Nat /\ performs \in [1..n -> Call]
  BY <1>c
<1>g. PICK c \in Call :
        /\ performs' = [performs EXCEPT ![n] = c]
        /\ \/ /\ c = [performs[n] EXCEPT !.phase = "back", !.blind = TRUE]
              /\ performs[n].phase = "bumpOn"
           \/ /\ c = [performs[n] EXCEPT !.phase = "clear", !.success = TRUE]
              /\ performs[n].phase = "bump2On"
  <2>1. CASE /\ performs' = [performs EXCEPT ![n].phase = "back", ![n].blind = TRUE]
             /\ performs[n].phase = "bumpOn"
    <3>1. [performs[n] EXCEPT !.phase = "back", !.blind = TRUE] \in Call
      BY <1>c, <1>e DEF Call
    <3>2. performs' = [performs EXCEPT ![n] = [performs[n] EXCEPT !.phase = "back", !.blind = TRUE]]
      BY <1>m, <2>1
    <3> QED
      BY <2>1, <3>1, <3>2
  <2>2. CASE /\ performs' = [performs EXCEPT ![n].phase = "clear", ![n].success = TRUE]
             /\ performs[n].phase = "bump2On"
    <3>1. [performs[n] EXCEPT !.phase = "clear", !.success = TRUE] \in Call
      BY <1>c, <1>e DEF Call
    <3>2. performs' = [performs EXCEPT ![n] = [performs[n] EXCEPT !.phase = "clear", !.success = TRUE]]
      BY <1>m, <2>2
    <3> QED
      BY <2>2, <3>1, <3>2
  <2> QED
    BY <1>d, <2>1, <2>2
<1>f. /\ performs' \in Seq(Call) /\ Len(performs') = n /\ DOMAIN performs' = 1..n
      /\ performs'[n] = c /\ \A i \in 1..n \ {n} : performs'[i] = performs[i]
  <2>1. performs' \in [1..n -> Call]
    BY <1>m, <1>g
  <2> QED
    BY <1>m, <1>g, <2>1
<1>h. samples' \in [Buoy -> 0..3] /\ samples'[BumpSecond] = 0
  BY <1>a, <1>b, CallTypes DEF Cleared
<1>1. BuoysTypeOK'
  BY <1>a, <1>b, <1>f, <1>h DEF BuoysTypeOK
<1>2. Outer'
  <2>1. \A i \in 1..(n - 1) : i \in 1..n \ {n}
    BY <1>m, Below
  <2> QED
    BY <1>a, <1>f, <2>1 DEF Outer
<1>3. Honest'
  <2> SUFFICES ASSUME NEW i \in 1..n
               PROVE  /\ performs'[i].success => performs'[i].phase \in Done
                      /\ performs'[i].phase \in SeenSecond \/ performs'[i].success
                             => ~performs'[i].blind
    BY <1>f, <1>h DEF Honest
  <2>1. /\ performs[i].success => performs[i].phase \in Done
        /\ performs[i].phase \in SeenSecond \/ performs[i].success => ~performs[i].blind
    BY <1>a, <1>c DEF Honest
  <2>2. CASE i # n
    BY <1>f, <2>1, <2>2
  <2>3. CASE i = n
    BY <1>c, <1>f, <1>g, <2>1, <2>3 DEF Call, Done, SeenSecond
  <2> QED
    BY <2>2, <2>3
<1>4. performs'[n].phase \notin Standing
  BY <1>c, <1>f, <1>g DEF Call, Standing
<1>5. StillForFirst'
  BY <1>4, <1>f DEF StillForFirst, In, Top, Last
<1> QED
  BY <1>a, <1>b, <1>f, <1>1, <1>2, <1>3, <1>5 DEF BuoysInv

\* A message that enables the task starts a call inside the others.
LEMMA EnableStep ==
    ASSUME BuoysInv, BuoysEnable
    PROVE  BuoysInv'
<1> DEFINE n == Len(performs)
           Disturbed == [i \in DOMAIN performs |-> [performs[i] EXCEPT !.disturbed = TRUE]]
<1>a. BuoysTypeOK /\ Honest /\ answers + n = begun
  BY DEF BuoysInv
<1>b. n \in Nat /\ performs \in Seq(Call) /\ DOMAIN performs = 1..n
  BY <1>a, CallTypes
<1>1. PICK first \in {"approach", "pause", "seek"} :
        /\ ahead' = IF first = "pause" THEN "stop" ELSE "go"
        /\ performs' = Append(Disturbed, [phase |-> first, success |-> FALSE, blind |-> FALSE,
                                          disturbed |-> FALSE])
  BY DEF BuoysEnable
<1>2. first \in Phase /\ first \notin SeenSecond
  BY DEF Phase, Seeking, Standing, SeenSecond
<1>3. /\ Disturbed \in Seq(Call) /\ Len(Disturbed) = n
      /\ \A i \in 1..n : /\ Disturbed[i].disturbed /\ Disturbed[i].phase = performs[i].phase
                         /\ Disturbed[i].success = performs[i].success
                         /\ Disturbed[i].blind = performs[i].blind
  <2>1. \A i \in 1..n : performs[i] \in Call
    BY <1>b
  <2>2. \A i \in 1..n : Disturbed[i] \in Call
    BY <1>b, <2>1 DEF Call
  <2>3. Disturbed \in [1..n -> Call]
    BY <1>b, <2>2
  <2>4. Disturbed \in Seq(Call) /\ Len(Disturbed) = n
    BY <1>b, <2>3
  <2> QED
    BY <1>b, <2>1, <2>4 DEF Call
<1>4. /\ performs' \in Seq(Call) /\ Len(performs') = n + 1 /\ DOMAIN performs' = 1..(n + 1)
      /\ \A i \in 1..n : performs'[i] = Disturbed[i]
      /\ performs'[n + 1] = [phase |-> first, success |-> FALSE, blind |-> FALSE,
                             disturbed |-> FALSE]
  <2>1. [phase |-> first, success |-> FALSE, blind |-> FALSE, disturbed |-> FALSE] \in Call
    BY <1>2 DEF Call
  <2> HIDE DEF Disturbed
  <2> QED
    BY <1>b, <1>1, <1>3, <2>1
<1>5. samples' \in [Buoy -> 0..3] /\ (samples[BumpSecond] = 0 => samples'[BumpSecond] = 0)
  <2>1. samples' \in {samples, Cleared, Approaching}
    BY DEF BuoysEnable
  <2> QED
    BY <1>a, <2>1, KeptTypes
<1>6. /\ m_isEnabled' = TRUE /\ begun' = begun + 1 /\ begun < MaxPerforms
      /\ answers' = answers
  BY DEF BuoysEnable
<1>7. BuoysTypeOK'
  <2>1. MaxPerforms \in Nat
    BY BuoysAssumption
  <2> QED
    BY <1>a, <1>b, <1>1, <1>4, <1>5, <1>6, <2>1 DEF BuoysTypeOK
<1> HIDE DEF Disturbed
<1>8. Outer'
  BY <1>b, <1>3, <1>4 DEF Outer
<1>9. Honest'
  <2> SUFFICES ASSUME NEW i \in 1..(n + 1)
               PROVE  /\ performs'[i].success => performs'[i].phase \in Done
                      /\ performs'[i].phase \in SeenSecond \/ performs'[i].success
                             => ~performs'[i].blind
                      /\ performs'[i].blind => samples'[BumpSecond] = 0
    BY <1>4 DEF Honest
  <2>1. CASE i = n + 1
    <3>1. performs'[i] = [phase |-> first, success |-> FALSE, blind |-> FALSE,
                          disturbed |-> FALSE]
      BY <1>4, <2>1
    <3> QED
      BY <1>2, <3>1
  <2>2. CASE i # n + 1
    <3>1. i \in 1..n
      BY <1>b, <2>2
    <3>2. /\ performs'[i].phase = performs[i].phase
          /\ performs'[i].success = performs[i].success
          /\ performs'[i].blind = performs[i].blind
      BY <1>3, <1>4, <3>1
    <3>3. /\ performs[i].success => performs[i].phase \in Done
          /\ performs[i].phase \in SeenSecond \/ performs[i].success => ~performs[i].blind
          /\ performs[i].blind => samples[BumpSecond] = 0
      BY <1>a, <1>b, <3>1 DEF Honest
    <3> QED
      BY <1>5, <3>2, <3>3
  <2> QED
    BY <2>1, <2>2
<1>10. StillForFirst'
  <2>1. Top' = performs'[n + 1]
    BY <1>4 DEF Top, Last
  <2> QED
    BY <1>1, <1>4, <2>1 DEF StillForFirst, In, Standing
<1>11. answers' + Len(performs') = begun'
  BY <1>a, <1>b, <1>4, <1>6, BuoysAssumption DEF BuoysTypeOK
<1> QED
  BY <1>7, <1>8, <1>9, <1>10, <1>11 DEF BuoysInv

\* A sample leaves no call blind that it is of the second buoy.
LEMMA SampleStep ==
    ASSUME BuoysInv, NEW b \in Buoy, SampleArrives(b)
    PROVE  BuoysInv'
<1> DEFINE n == Len(performs)
<1>a. BuoysTypeOK /\ Outer /\ Honest /\ StillForFirst /\ answers + n = begun
  BY DEF BuoysInv
<1>b. n \in Nat /\ performs \in Seq(Call) /\ DOMAIN performs = 1..n /\ BumpSecond \in Buoy
  BY <1>a, CallTypes
<1>c. /\ samples' = [samples EXCEPT ![b] = IF @ < 3 THEN @ + 1 ELSE @]
      /\ performs' = [i \in DOMAIN performs |->
             [performs[i] EXCEPT !.blind = @ /\ b # BumpSecond]]
      /\ UNCHANGED <<m_isEnabled, ahead, begun, answers>>
  BY DEF SampleArrives
<1>d. \A i \in 1..n : performs[i] \in Call
  BY <1>b
<1>e. \A i \in 1..n : /\ performs'[i] \in Call /\ performs'[i].phase = performs[i].phase
                      /\ performs'[i].success = performs[i].success
                      /\ performs'[i].disturbed = performs[i].disturbed
                      /\ performs'[i].blind = (performs[i].blind /\ b # BumpSecond)
  BY <1>b, <1>c, <1>d, Zenon DEF Call
<1>f. performs' \in Seq(Call) /\ Len(performs') = n /\ DOMAIN performs' = 1..n
  <2>1. performs' \in [1..n -> Call]
    BY <1>b, <1>c, <1>e
  <2> QED
    BY <1>b, <2>1
<1>g. samples' \in [Buoy -> 0..3] /\ (b # BumpSecond => samples'[BumpSecond] = samples[BumpSecond])
  BY <1>a, <1>b, <1>c DEF BuoysTypeOK
<1>1. BuoysTypeOK'
  BY <1>a, <1>c, <1>f, <1>g DEF BuoysTypeOK
<1>2. Outer'
  BY <1>a, <1>b, <1>e, <1>f DEF Outer
<1>3. Honest'
  BY <1>a, <1>b, <1>e, <1>f, <1>g DEF Honest
<1>4. StillForFirst'
  BY <1>a, <1>b, <1>c, <1>e, <1>f DEF StillForFirst, In, Top, Last
<1> QED
  BY <1>a, <1>c, <1>f, <1>1, <1>2, <1>3, <1>4 DEF BuoysInv

-----------------------------------------------------------------------------
\* Whatever performTask does next is a step of one of these kinds.
Ends == performs # <<>> /\ PerformEnds /\ samples' \in {samples, Cleared}
Goes == \E phase, dir, kept : Fair(phase, dir, kept)

\* Where the innermost call stands, and what is in force, is of its type.
LEMMA PerformKinds ==
    ASSUME BuoysTypeOK, PerformStep \/ Repeat
    PROVE  Goes \/ Ends \/ BackOff \/ ClearOff
<1>a. ahead \in {"stop", "go", "back"}
  BY DEF BuoysTypeOK
<1>b. ASSUME NEW phases, In(phases) PROVE performs # <<>> /\ Top.phase \in phases
  BY <1>b DEF In
<1>c. ASSUME NEW phase \in Phase, NEW dir \in {"stop", "go", "back"},
             NEW kept \in {samples, Cleared, Approaching}, performs # <<>>,
             GoOn(phase, dir, kept),
             phase \in Standing => dir = "stop" \/ (dir = ahead /\ Top.phase \in Standing),
             phase \in SeenSecond => Top.phase \in SeenSecond \/ Visible(BumpSecond),
             Top.phase \in Done => phase \in Done
      PROVE  Goes
  BY <1>c DEF Goes, Fair
<1> USE DEF Phase, Seeking, Standing, Second, SeenSecond, Done
<1>1. CASE SeekFinds
  BY <1>1, <1>b, <1>c DEF SeekFinds
<1>2. CASE SeekScans
  BY <1>2, <1>a, <1>b, <1>c DEF SeekScans
<1>3. CASE Approach
  BY <1>3, <1>a, <1>b, <1>c DEF Approach
<1>4. CASE FindFirst
  <2>1. performs # <<>> /\ Top.phase \in {"pause", "firstLeft", "firstRight"}
    BY <1>4, <1>b DEF FindFirst
  <2>2. CASE PerformEnds /\ UNCHANGED samples
    BY <2>1, <2>2 DEF Ends
  <2>3. CASE \E phase \in {"first", "firstLeft", "firstRight"} : GoOn(phase, ahead, samples)
    BY <1>a, <1>c, <2>1, <2>3
  <2> QED
    BY <1>4, <2>2, <2>3 DEF FindFirst
<1>5. CASE CentreFirst
  BY <1>5, <1>a, <1>b, <1>c DEF CentreFirst, Ends
<1>6. CASE BumpFirstBuoy
  BY <1>6, <1>b, <1>c DEF BumpFirstBuoy, Bump
<1>7. CASE FindSecond
  <2>1. performs # <<>> /\ Top.phase \in {"back", "secondLeft", "secondRight"}
    BY <1>7, <1>b DEF FindSecond
  <2>2. CASE Visible(BumpSecond) /\ GoOn("second", ahead, samples)
    BY <1>a, <1>c, <2>1, <2>2
  <2>3. CASE \E phase \in {"secondLeft", "secondRight"} : GoOn(phase, ahead, samples)
    BY <1>a, <1>c, <2>1, <2>3
  <2>4. CASE GoOn("past", "go", samples)
    BY <1>c, <2>1, <2>4
  <2> QED
    BY <1>7, <2>2, <2>3, <2>4 DEF FindSecond
<1>8. CASE CentreSecond
  BY <1>8, <1>a, <1>b, <1>c DEF CentreSecond
<1>9. CASE BumpSecondBuoy
  BY <1>9, <1>b, <1>c DEF BumpSecondBuoy, Bump
<1>10. CASE PassOver
  BY <1>10, <1>a, <1>b, <1>c DEF PassOver, Ends
<1>11. CASE SeekFails
  BY <1>11, <1>b DEF SeekFails, Ends
<1>12. CASE Arrive
  BY <1>12, <1>b, <1>c DEF Arrive
<1>13. CASE Repeat
  BY <1>13, <1>b, <1>c DEF Repeat
<1> QED
  BY <1>1, <1>2, <1>3, <1>4, <1>5, <1>6, <1>7, <1>8, <1>9, <1>10, <1>11, <1>12, <1>13
     DEF PerformStep, GiveUp

\* The invariant of BuoysTask survives every step.
LEMMA BuoysInvStep == BuoysInv /\ [BuoysNext]_buoysVars => BuoysInv'
<1> SUFFICES ASSUME BuoysInv, [BuoysNext]_buoysVars PROVE BuoysInv'
  OBVIOUS
<1>1. CASE PerformStep \/ Repeat
  <2>1. Goes \/ Ends \/ BackOff \/ ClearOff
    BY <1>1, PerformKinds DEF BuoysInv
  <2> QED
    BY <2>1, FairStep, EndsStep, BumpedStep DEF Goes, Ends
<1>2. CASE BuoysEnable
  BY <1>2, EnableStep
<1>3. CASE \E b \in Buoy : SampleArrives(b)
  BY <1>3, SampleStep
<1>4. CASE BuoysDisable \/ UNCHANGED buoysVars
  <2>1. UNCHANGED <<samples, performs, ahead, begun, answers>> /\ m_isEnabled' \in BOOLEAN
    BY <1>4 DEF BuoysDisable, buoysVars, BuoysInv, BuoysTypeOK
  <2> QED
    BY <2>1 DEF BuoysInv, BuoysTypeOK, Outer, Honest, StillForFirst, In, Top, Last, Visible
<1> QED
  BY <1>1, <1>2, <1>3, <1>4 DEF BuoysNext

\* No call is under way and no sample held.
LEMMA BuoysInitInv == BuoysInit => BuoysInv
<1> SUFFICES ASSUME BuoysInit PROVE BuoysInv
  OBVIOUS
<1>1. performs = <<>> /\ begun = 0 /\ answers = 0
  BY DEF BuoysInit
<1>2. performs \in Seq(Call) /\ Len(performs) = 0 /\ DOMAIN performs = {}
  BY <1>1
<1>3. BuoysTypeOK
  <2>1. 0 \in 0..MaxPerforms /\ Len(performs) <= MaxPerforms
    BY <1>2, BuoysAssumption
  <2>2. samples \in [Buoy -> 0..3]
    BY DEF BuoysInit
  <2> QED
    BY <1>1, <1>2, <2>1, <2>2 DEF BuoysInit, BuoysTypeOK
<1>4. Outer /\ Honest /\ StillForFirst
  BY <1>1, <1>2 DEF Outer, Honest, StillForFirst, In
<1> QED
  BY <1>1, <1>2, <1>3, <1>4 DEF BuoysInv

-----------------------------------------------------------------------------
\* A step of the nodes is a step, or none, of each of the tasks.
LEMMA NodesSteps ==
    [NodesNext]_nodesVars =>
        [PathNext]_pathVars /\ [QualifyNext]_qualifyVars /\ [BuoysNext]_buoysVars
<1> SUFFICES ASSUME NodesNext
             PROVE  [PathNext]_pathVars /\ [QualifyNext]_qualifyVars /\ [BuoysNext]_buoysVars
  BY DEF nodesVars
<1>1. CASE PathNext /\ UNCHANGED <<qualifyVars, buoysVars>>
  BY <1>1
<1>2. CASE BuoysNext /\ UNCHANGED <<pathVars, qualifyVars>>
  BY <1>2
<1>3. CASE Qualifying /\ UNCHANGED <<pathVars, buoysVars>>
  <2>1. [QualifyNext]_qualifyVars
    BY <1>3 DEF Qualifying, QualifyHears, QualifyNext
  <2> QED
    BY <1>3, <2>1
<1> QED
  BY <1>1, <1>2, <1>3 DEF NodesNext

\* While QualifyTask refuses to be enabled a thread that will reset it is at
\* work, whatever the state machine sends it and however its threads overlap.
THEOREM QualifyIsServed == NodesSpec => []EnabledIsServed
<1>1. NodesInit => QualifyInv
  BY QualifyInitInv DEF NodesInit
<1>2. QualifyInv /\ [NodesNext]_nodesVars => QualifyInv'
  BY QualifyInvStep, NodesSteps
<1>3. QualifyInv => EnabledIsServed
  BY DEF QualifyInv
<1> QED
  BY <1>1, <1>2, <1>3, PTL DEF NodesSpec

\* The fields of BuoysTask, and that its calls end as often as they answer.
THEOREM BuoysTypes == BuoysSpec => [](BuoysTypeOK /\ answers + Len(performs) = begun)
<1>1. BuoysInv => BuoysTypeOK /\ answers + Len(performs) = begun
  BY DEF BuoysInv
<1> QED
  BY <1>1, BuoysInitInv, BuoysInvStep, PTL DEF BuoysSpec

\* The sub does not move forward while it looks for the first buoy, however many
\* enabling messages are handled inside one another.
THEOREM FirstBuoyStill == NodesSpec => []StillForFirst
<1>1. NodesInit => BuoysInv
  BY BuoysInitInv DEF NodesInit
<1>2. BuoysInv /\ [NodesNext]_nodesVars => BuoysInv'
  BY BuoysInvStep, NodesSteps
<1>3. BuoysInv => StillForFirst
  BY DEF BuoysInv
<1> QED
  BY <1>1, <1>2, <1>3, PTL DEF NodesSpec

\* No run of BuoysTask succeeds on samples of the second buoy that are older than
\* its bump of the first.
THEOREM SuccessIsSeen == NodesSpec => []SuccessSawSecond
<1>1. NodesInit => BuoysInv
  BY BuoysInitInv DEF NodesInit
<1>2. BuoysInv /\ [NodesNext]_nodesVars => BuoysInv'
  BY BuoysInvStep, NodesSteps
<1>3. BuoysInv => SuccessSawSecond
  BY DEF BuoysInv, Honest, SuccessSawSecond
<1> QED
  BY <1>1, <1>2, <1>3, PTL DEF NodesSpec

\* What PathTaskProofs shows of PathTask holds of it among the others.
THEOREM PathAmongNodes == NodesSpec => [](DisabledIsStill /\ ReportsEarned)
<1>1. NodesInit => PathInv
  BY PathInitInv DEF NodesInit
<1>2. PathInv /\ [NodesNext]_nodesVars => PathInv'
  BY PathInvStep, NodesSteps
<1>3. PathInv => DisabledIsStill /\ ReportsEarned
  BY PathInvStill DEF PathInv
<1> QED
  BY <1>1, <1>2, <1>3, PTL DEF NodesSpec

-----------------------------------------------------------------------------
\* The machine with QualifyTask: its types, and that until two changes overlap the
\* classes set up are those its lists and its word to QualifyTask speak of.
MachineInv == StateTypes /\ isEnabled \in BOOLEAN /\ Kept("QualifyTask", isEnabled)

\* Only a message to it enables QualifyTask; its threads can but disable it.
LEMMA QualifyHearsKeeps ==
    ASSUME MachineInv, QualifyTypeOK, QualifyHears
    PROVE  MachineInv'
<1> PICK a \in BOOLEAN : a = isEnabled
  BY DEF MachineInv
<1> PICK b \in BOOLEAN : b = isEnabled'
  BY DEF QualifyHears, QualifyEnable, QualifyDisable, MachineInv, qualifyVars
<1> DEFINE m == Head(moduleEnable)
<1>1. Delivered /\ UNCHANGED <<currentClasses, list, loops, doing, changes, handled, overlapped>>
  BY DEF QualifyHears
<1>2. b => IF m.module = "QualifyTask" THEN m.state ELSE a
  <2> HIDE DEF m
  <2>1. CASE m.module = "QualifyTask" /\ m.state
    BY <2>1
  <2>2. CASE m.module = "QualifyTask" /\ ~m.state /\ QualifyDisable
    BY <2>2 DEF QualifyDisable
  <2>3. CASE (m.module = "QualifyTask" => m.state = isEnabled) /\ UNCHANGED qualifyVars
    BY <2>3, Zenon DEF qualifyVars
  <2> QED BY <2>1, <2>2, <2>3 DEF QualifyHears, m
<1>3. Kept("QualifyTask", a)
  BY DEF MachineInv, Kept, Agree, OnFor, EndsOn
<1>4. Kept("QualifyTask", b)'
  BY <1>1, <1>2, <1>3, DeliveredKeeps DEF MachineInv
<1>5. StateTypes'
  BY <1>1, StateTypesDelivered DEF MachineInv
<1> QED BY <1>4, <1>5 DEF MachineInv, Kept, Agree, OnFor, EndsOn

\* What others do disturbs the machine only by stopping QualifyTask.
LEMMA MachineStays ==
    ASSUME MachineInv, UNCHANGED stateVars, isEnabled' \in BOOLEAN, isEnabled' => isEnabled
    PROVE  MachineInv'
<1> PICK a \in BOOLEAN : a = isEnabled
  BY DEF MachineInv
<1> PICK b \in BOOLEAN : b = isEnabled'
  OBVIOUS
<1>1. Kept("QualifyTask", a)
  BY DEF MachineInv, Kept, Agree, OnFor, EndsOn
<1>2. Kept("QualifyTask", b)'
  BY <1>1, RestingKeeps
<1>3. StateTypes'
  BY StateTypesStay DEF MachineInv
<1> QED BY <1>2, <1>3 DEF MachineInv, Kept, Agree, OnFor, EndsOn

\* A step of the machine leaves QualifyTask as it is.
LEMMA MachineSteps ==
    ASSUME MachineInv, StateNext, UNCHANGED isEnabled
    PROVE  MachineInv'
<1> PICK a \in BOOLEAN : a = isEnabled
  BY DEF MachineInv
<1>1. Kept("QualifyTask", a)
  BY DEF MachineInv, Kept, Agree, OnFor, EndsOn
<1>2. Kept("QualifyTask", a)'
  BY <1>1, StateNextKeeps DEF MachineInv
<1>3. StateTypes'
  BY StateTypesStep DEF MachineInv
<1> QED BY <1>2, <1>3 DEF MachineInv, Kept, Agree, OnFor, EndsOn

\* Whatever the nodes do, it survives.
LEMMA MachineInvStep ==
    ASSUME MachineInv, QualifyTypeOK, [NodesNext]_nodesVars
    PROVE  MachineInv'
<1>1. CASE UNCHANGED <<qualifyVars, stateVars>>
  BY <1>1, MachineStays DEF qualifyVars, MachineInv
<1>2. CASE StateNext /\ UNCHANGED qualifyVars
  BY <1>2, MachineSteps DEF qualifyVars
<1>3. CASE QualifyHears
  BY <1>3, QualifyHearsKeeps
<1>4. ASSUME NEW w \in Worker, QualifyStep(w), UNCHANGED stateVars
      PROVE  MachineInv'
  <2>1. isEnabled' \in BOOLEAN /\ (isEnabled' => isEnabled)
    <3>1. isEnabled' \in {isEnabled, FALSE}
      BY <1>4, Zenon DEF QualifyStep, Wake, Check, Act, Reset
    <3>2. isEnabled \in BOOLEAN
      BY DEF MachineInv
    <3>3. isEnabled' \in BOOLEAN
      BY <3>1, <3>2
    <3>4. isEnabled' => isEnabled
      BY <3>1, <3>2
    <3> QED BY <3>3, <3>4
  <2> QED BY <1>4, <2>1, MachineStays
<1> QED BY <1>1, <1>2, <1>3, <1>4 DEF NodesNext, Qualifying, nodesVars

\* QualifyTask is not enabled, and no class is set up.
LEMMA MachineInitInv == NodesInit => MachineInv
<1> SUFFICES ASSUME NodesInit PROVE MachineInv
  OBVIOUS
<1>1. StateInit /\ isEnabled = FALSE
  BY DEF NodesInit, QualifyInit
<1>2. StateTypes /\ Kept("QualifyTask", FALSE)
  BY <1>1, StateTypesInit, KeptInit
<1> QED BY <1>1, <1>2 DEF MachineInv, Kept, Agree, OnFor, EndsOn

\* Every field of every task and of the state machine stays of its kind: what is
\* current is always something that the files or the messages name.
THEOREM NodesTypes == NodesSpec => []NodesTypeOK
<1> DEFINE Inv == PathInv /\ QualifyInv /\ BuoysInv /\ MachineInv
<1>1. NodesInit => Inv
  BY PathInitInv, QualifyInitInv, BuoysInitInv, MachineInitInv DEF NodesInit
<1>2. Inv /\ [NodesNext]_nodesVars => Inv'
  BY PathInvStep, QualifyInvStep, BuoysInvStep, NodesSteps, MachineInvStep DEF QualifyInv
<1>3. Inv => NodesTypeOK
  BY StateTypesOK DEF NodesTypeOK, PathInv, QualifyInv, BuoysInv, MachineInv
<1> QED
  BY <1>1, <1>2, <1>3, PTL DEF NodesSpec

\* Whatever triggers fire and messages arrive, the lists of triggers and timers hold
\* what the current classes bring whenever no change is under way.
THEOREM ListsStayCurrent == NodesSpec => []ListsAreCurrent
<1> DEFINE Inv == QualifyInv /\ MachineInv
<1>1. NodesInit => Inv
  BY QualifyInitInv, MachineInitInv DEF NodesInit
<1>2. Inv /\ [NodesNext]_nodesVars => Inv'
  BY QualifyInvStep, NodesSteps, MachineInvStep DEF QualifyInv
<1>3. Inv => ListsAreCurrent
  BY KeptCurrent DEF MachineInv
<1> QED
  BY <1>1, <1>2, <1>3, PTL DEF NodesSpec

\* QualifyTask runs, when the messages to it have arrived, only in a state with a
\* class that activates it, whatever its threads and the machine's have done.
THEOREM QualifyKeepsItsState == NodesSpec => []QualifyHasItsState
<1> DEFINE Inv == QualifyInv /\ MachineInv
<1>1. NodesInit => Inv
  BY QualifyInitInv, MachineInitInv DEF NodesInit
<1>2. Inv /\ [NodesNext]_nodesVars => Inv'
  BY QualifyInvStep, NodesSteps, MachineInvStep DEF QualifyInv
<1>3. Inv => QualifyHasItsState
  BY KeptCurrent DEF MachineInv, QualifyHasItsState
<1> QED
  BY <1>1, <1>2, <1>3, PTL DEF NodesSpec

\* The machine starts as States does.
LEMMA MachineStatesInit == NodesInit => Abstract!StatesInit
BY StatesInitially DEF NodesInit

\* Each step of the nodes is a step of States, or none.
LEMMA MachineStatesStep ==
    ASSUME MachineInv, [NodesNext]_nodesVars
    PROVE  [Abstract!StatesNext]_(Abstract!statesVars)
<1> PICK a \in BOOLEAN : a = isEnabled
  BY DEF MachineInv
<1>1. StateTypes /\ Kept("QualifyTask", a)
  BY DEF MachineInv, Kept, Agree, OnFor, EndsOn
<1>2. CASE UNCHANGED stateVars
  BY <1>2, StatesRest
<1>3. CASE StateNext
  BY <1>1, <1>3, StatesStep
<1>4. CASE QualifyHears
  BY <1>1, <1>4, StatesHear DEF QualifyHears
<1> QED BY <1>2, <1>3, <1>4 DEF NodesNext, Qualifying, nodesVars

\* The state machine implements States: every change tears down what the new state
\* leaves out, then sets up what it lacks, each class once, and tells the modules in
\* that order, until a second change overlaps the first.
THEOREM MachineImplementsStates == NodesSpec => RefinesStates
<1> DEFINE Inv == QualifyInv /\ MachineInv
<1>1. NodesInit => Inv
  BY QualifyInitInv, MachineInitInv DEF NodesInit
<1>2. Inv /\ [NodesNext]_nodesVars => Inv'
  BY QualifyInvStep, NodesSteps, MachineInvStep DEF QualifyInv
<1>3. Inv /\ [NodesNext]_nodesVars => [Abstract!StatesNext]_(Abstract!statesVars)
  BY MachineStatesStep
<1> QED
  BY <1>1, <1>2, <1>3, MachineStatesInit, PTL DEF NodesSpec, RefinesStates, Abstract!StatesSpec
=============================================================================
