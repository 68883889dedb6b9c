--------------------------- MODULE PathTaskProofs ---------------------------
(***************************************************************************)
(* Theorems about PathTask, for any goal, patience, paths and number of    *)
(* messages: its types, that a disabled task comes to rest, and that its   *)
(* threads do not report more often than it was enabled.                   *)
(***************************************************************************)
EXTENDS PathTask, TLAPS

\* Where a thread stands that has yet to stop an axis.
StopsAhead == [Forward |-> {"stopForward"},
               Straf   |-> {"stopForward", "stopStraf"},
               Turn    |-> {"stopForward", "stopStraf", "stopTurn"}]

\* A motion asked for in time is stopped yet: by a thread on its way through
\* stop_motors, or by the one that is about to find the task disabled.
WillStop ==
    ~enabled /\ ~late => \A a \in asked :
        \/ at["enable"] = "reset"
        \/ \E t \in Thread : at[t] \in StopsAhead[a]

\* Where a thread stands that has seen the task enabled and not yet reported.
Holds == [image |-> {"look", "select", "settle", "complete"} \cup Axis,
          watch |-> {"compare", "complete"}]

\* A thread that saw the task enabled has a report left.
HasReport ==
    \A t \in Reporter : enabled \/ at[t] \in Holds[t] => reports[t] < enables

\* A message that will enable the task is within their number.
Bounded == state => enables < MaxEnables

PathInv == PathTypeOK /\ Bounded /\ WillStop /\ HasReport /\ ReportsEarned
-----------------------------------------------------------------------------
\* A thread that goes on to a place of its own leaves the places typed.
LEMMA GoType ==
    ASSUME PathTypeOK, NEW t \in Thread, NEW p \in Place[t], Go(t, p)
    PROVE  /\ at' \in [Thread -> UNION {Place[u] : u \in Thread}]
           /\ \A u \in Thread : at'[u] \in Place[u]
           /\ at'[t] = p
           /\ \A u \in Thread \ {t} : at'[u] = at[u]
<1>1. at \in [Thread -> UNION {Place[u] : u \in Thread}] /\ \A u \in Thread : at[u] \in Place[u]
  BY DEF PathTypeOK
<1>2. p \in UNION {Place[u] : u \in Thread}
  OBVIOUS
<1> QED
  BY <1>1, <1>2, Zenon DEF Go

\* All of PathTypeOK but where the threads stand.
FieldsOK ==
    /\ enabled \in BOOLEAN /\ can_turn \in BOOLEAN
    /\ success_counter \in 0..Goal /\ last_motor_change \in 0..Never
    /\ paths \in Seq(SUBSET Axis) /\ Len(paths) <= 2
    /\ state \in BOOLEAN /\ did_something \in BOOLEAN /\ late \in BOOLEAN
    /\ seen \subseteq Axis /\ aligning \subseteq Axis /\ asked \subseteq Axis
    /\ enables \in 0..MaxEnables /\ reports \in [Reporter -> Nat]

PlacesOK ==
    /\ at \in [Thread -> UNION {Place[t] : t \in Thread}]
    /\ \A t \in Thread : at[t] \in Place[t]

LEMMA TypeParts == PathTypeOK <=> FieldsOK /\ PlacesOK
  BY DEF PathTypeOK, FieldsOK, PlacesOK

\* The invariant holds of the first state.
LEMMA PathInitInv == PathInit => PathInv
<1> SUFFICES ASSUME PathInit PROVE PathInv
  OBVIOUS
<1>1. FieldsOK
  <2>1. success_counter \in 0..Goal /\ last_motor_change \in 0..Never /\ enables \in 0..MaxEnables
    BY PathAssumption DEF PathInit, Never
  <2>2. paths \in Seq(SUBSET Axis) /\ Len(paths) <= 2
    BY DEF PathInit
  <2>3. reports \in [Reporter -> Nat]
    BY DEF PathInit
  <2> QED
    BY <2>1, <2>2, <2>3 DEF PathInit, FieldsOK
<1>2. PlacesOK
  <2>1. \A t \in Thread : "idle" \in Place[t]
    BY DEF Thread, Place
  <2> QED
    BY <2>1 DEF PathInit, PlacesOK
<1>3. WillStop /\ HasReport /\ ReportsEarned /\ Bounded
  <2>1. WillStop
    BY DEF PathInit, WillStop
  <2>2. \A t \in Reporter : at[t] \notin Holds[t] /\ reports[t] = 0
    BY DEF PathInit, Holds, Axis, Thread, Reporter
  <2>3. enabled = FALSE /\ enables = 0
    BY DEF PathInit
  <2> QED
    BY <2>1, <2>2, <2>3 DEF PathInit, HasReport, ReportsEarned, Bounded
<1> QED
  BY <1>1, <1>2, <1>3, TypeParts DEF PathInv

\* No step leaves a field with a value it may not have.
LEMMA FieldsStep == PathTypeOK /\ Bounded /\ [PathNext]_pathVars => FieldsOK' /\ Bounded'
<1> SUFFICES ASSUME PathTypeOK, Bounded, [PathNext]_pathVars PROVE FieldsOK' /\ Bounded'
  OBVIOUS
<1>0. FieldsOK
  BY TypeParts
<1> USE <1>0, PathAssumption DEF FieldsOK, Never, Bounded
<1>1. CASE ImageArrives
  BY <1>1 DEF ImageArrives, shared, Go
<1>2. CASE ImageLooks
  BY <1>2 DEF ImageLooks, shared, inHand
<1>3. CASE SelectPath
  <2>1. CASE Len(paths) = 1
    <3>1. paths[1] \in SUBSET Axis /\ Head(paths) = paths[1]
      BY <2>1
    <3>2. aligning' = paths[1]
      BY <1>3, <2>1, <3>1 DEF SelectPath
    <3>3. did_something' = FALSE /\ seen' = seen
      BY <1>3, <2>1 DEF SelectPath
    <3> QED
      BY <1>3, <3>1, <3>2, <3>3 DEF SelectPath, shared
  <2>2. CASE Len(paths) # 1
    BY <1>3, <2>2 DEF SelectPath, shared, Return
  <2> QED
    BY <2>1, <2>2
<1>4. CASE AlignAxis
  BY <1>4 DEF AlignAxis, shared
<1>5. CASE Settle
  <2>1. /\ success_counter' \in 0..Goal /\ can_turn' \in BOOLEAN
        /\ last_motor_change' \in {0, last_motor_change}
    <3>1. CASE did_something
      BY <1>5, <3>1 DEF Settle
    <3>2. CASE ~did_something /\ success_counter + 1 < Goal
      BY <1>5, <3>2 DEF Settle
    <3>3. CASE ~did_something /\ success_counter + 1 >= Goal
      <4>1. success_counter' = (IF can_turn THEN Goal ELSE 0) /\ can_turn' = TRUE
            /\ last_motor_change' = last_motor_change
        BY <1>5, <3>3 DEF Settle
      <4>2. Goal \in 0..Goal /\ 0 \in 0..Goal
        OBVIOUS
      <4> QED
        BY <4>1, <4>2
    <3> QED
      BY <3>1, <3>2, <3>3
  <2> QED
    BY <1>5, <2>1 DEF Settle, inHand
<1>6. CASE AppendPath
  <2>1. paths' = <<seen>> \/ paths' = Several
    BY <1>6 DEF AppendPath
  <2>2. <<seen>> \in Seq(SUBSET Axis) /\ Len(<<seen>>) = 1
    OBVIOUS
  <2>3. Several \in Seq(SUBSET Axis) /\ Len(Several) = 2
    BY DEF Several
  <2>4. paths' \in Seq(SUBSET Axis) /\ Len(paths') <= 2
    <3>1. CASE paths' = <<seen>>
      BY <3>1, <2>2
    <3>2. CASE paths' = Several
      BY <3>2, <2>3
    <3> QED
      BY <2>1, <3>1, <3>2
  <2>5. seen' = {} /\ aligning' = {} /\ did_something' = FALSE
    BY <1>6 DEF AppendPath, Return
  <2> QED
    BY <1>6, <2>4, <2>5 DEF AppendPath
<1>7. CASE \E t \in Reporter : Complete(t)
  <2>1. reports' \in [Reporter -> Nat]
    BY <1>7 DEF Complete
  <2>2. enabled' = FALSE /\ late' = FALSE /\ asked' = asked
    BY <1>7 DEF Complete
  <2>3. UNCHANGED <<can_turn, success_counter, paths, last_motor_change, state, seen,
                    aligning, did_something, enables>>
    BY <1>7 DEF Complete, inHand
  <2> QED
    BY <2>1, <2>2, <2>3
<1>8. CASE \E t \in Thread : StopMotors(t)
  BY <1>8 DEF StopMotors, inHand
<1>9. CASE \E s \in BOOLEAN : EnableArrives(s)
  <2>1. PICK s \in BOOLEAN : EnableArrives(s)
    BY <1>9
  <2>2. state' \in BOOLEAN /\ can_turn' \in BOOLEAN
    BY <2>1, Zenon DEF EnableArrives
  <2>3. state' => enables < MaxEnables
    BY <2>1, Zenon DEF EnableArrives
  <2>4. UNCHANGED <<enabled, success_counter, paths, last_motor_change, seen,
                    aligning, did_something, asked, late, enables, reports>>
    BY <2>1 DEF EnableArrives, inHand
  <2> QED
    BY <2>2, <2>3, <2>4
<1>10. CASE EnableWrites
  <2>1. enables' \in 0..MaxEnables
    BY <1>10 DEF EnableWrites, Bounded
  <2> QED
    BY <1>10, <2>1 DEF EnableWrites, inHand
<1>11. CASE EnableResets
  BY <1>11 DEF EnableResets, inHand
<1>12. CASE WatchTests \/ WatchCompares
  BY <1>12 DEF WatchTests, WatchCompares, shared, inHand
<1>13. CASE PathTick
  BY <1>13 DEF PathTick, inHand
<1>14. CASE UNCHANGED pathVars
  BY <1>14 DEF pathVars, shared, inHand
<1> QED
  BY <1>1, <1>2, <1>3, <1>4, <1>5, <1>6, <1>7, <1>8, <1>9, <1>10, <1>11, <1>12,
     <1>13, <1>14 DEF PathNext

\* Every step leaves each thread at a place of its own.
LEMMA PlacesStep == PathTypeOK /\ [PathNext]_pathVars => PlacesOK'
<1> SUFFICES ASSUME PathTypeOK, [PathNext]_pathVars PROVE PlacesOK'
  OBVIOUS
<1>0. PlacesOK
  BY TypeParts
<1>1. ASSUME NEW t \in Thread, NEW p \in Place[t], Go(t, p) PROVE PlacesOK'
  BY <1>1, GoType DEF PlacesOK
<1>2. CASE at' = at
  BY <1>0, <1>2 DEF PlacesOK
<1>3. /\ \A p \in {"idle", "look", "select", "Straf", "Forward", "Turn", "settle", "complete",
                    "restart", "append"} \cup Stopping : p \in Place["image"]
      /\ \A p \in {"idle", "write", "reset"} \cup Stopping : p \in Place["enable"]
      /\ \A p \in {"idle", "compare", "complete"} \cup Stopping : p \in Place["watch"]
      /\ Thread = {"image", "enable", "watch"}
  BY DEF Place, Thread
<1>4. \/ at' = at
      \/ \E t \in Thread : \E p \in Place[t] : Go(t, p)
  <2>1. CASE ImageArrives
    BY <2>1, <1>3 DEF ImageArrives
  <2>2. CASE ImageLooks
    BY <2>2, <1>3 DEF ImageLooks
  <2>3. CASE SelectPath
    BY <2>3, <1>3 DEF SelectPath
  <2>4. CASE AlignAxis
    <3>1. Go("image", AfterAxis[at["image"]]) /\ at["image"] \in Axis
      BY <2>4 DEF AlignAxis
    <3>2. AfterAxis[at["image"]] \in Place["image"]
      BY <3>1, <1>3 DEF AfterAxis, Axis
    <3> QED
      BY <3>1, <3>2, <1>3
  <2>5. CASE Settle
    BY <2>5, <1>3 DEF Settle
  <2>6. CASE AppendPath
    BY <2>6, <1>3 DEF AppendPath
  <2>7. CASE \E t \in Reporter : Complete(t)
    BY <2>7, <1>3 DEF Complete, Reporter, Stopping
  <2>8. ASSUME NEW t \in Thread, StopMotors(t)
        PROVE  \E p \in Place[t] : Go(t, p)
    <3>1. Go(t, AfterStop(t)[at[t]]) /\ at[t] \in Stopping
      BY <2>8 DEF StopMotors
    <3>2. AfterStop(t)[at[t]] \in Place[t]
      BY <3>1, <1>3 DEF AfterStop, Stopping
    <3> QED
      BY <3>1, <3>2
  <2>9. CASE \E s \in BOOLEAN : EnableArrives(s)
    BY <2>9, <1>3 DEF EnableArrives
  <2>10. CASE EnableWrites
    BY <2>10, <1>3 DEF EnableWrites
  <2>11. CASE EnableResets
    BY <2>11, <1>3 DEF EnableResets, Stopping
  <2>12. CASE WatchTests \/ WatchCompares
    BY <2>12, <1>3 DEF WatchTests, WatchCompares
  <2>13. CASE PathTick \/ UNCHANGED pathVars
    BY <2>13 DEF PathTick, pathVars
  <2> QED
    BY <2>1, <2>2, <2>3, <2>4, <2>5, <2>6, <2>7, <2>8, <2>9, <2>10, <2>11, <2>12,
       <2>13 DEF PathNext
<1> QED
  BY <1>1, <1>2, <1>4

-----------------------------------------------------------------------------
\* What is asked for after a step are axes.
LEMMA NextAxes == PathTypeOK /\ Bounded /\ [PathNext]_pathVars => asked' \subseteq Axis
  BY FieldsStep DEF FieldsOK

\* A thread that goes on leaves the others where they are.
LEMMA GoPlaces ==
    ASSUME PathTypeOK, NEW t \in Thread, NEW p, Go(t, p)
    PROVE  at'[t] = p /\ \A u \in Thread \ {t} : at'[u] = at[u]
  BY Zenon DEF PathTypeOK, Go

\* Whatever was asked for in time is still going to be stopped after a step.
LEMMA StopStep == PathTypeOK /\ Bounded /\ WillStop /\ [PathNext]_pathVars => WillStop'
<1> SUFFICES ASSUME PathTypeOK, Bounded, WillStop, [PathNext]_pathVars, ~enabled', ~late',
                    NEW a \in asked'
             PROVE  at'["enable"] = "reset" \/ \E t \in Thread : at'[t] \in StopsAhead[a]
  BY DEF WillStop
<1> DEFINE Ahead == at["enable"] = "reset" \/ \E t \in Thread : at[t] \in StopsAhead[a]
<1>a. a \in Axis
  BY NextAxes
<1>b. /\ "stopForward" \in StopsAhead[a] /\ StopsAhead[a] \subseteq Stopping
      /\ "reset" \notin Stopping
  BY <1>a DEF Axis, StopsAhead, Stopping
<1>c. Thread = {"image", "enable", "watch"}
  BY DEF Thread
<1>d. ~enabled /\ ~late /\ a \in asked => Ahead
  BY DEF WillStop
<1>e. ASSUME NEW t \in Thread, NEW p, Go(t, p), at[t] \notin Stopping, at[t] # "reset", Ahead
      PROVE  Ahead'
  <2>1. at'[t] = p /\ \A u \in Thread \ {t} : at'[u] = at[u]
    BY <1>e, GoPlaces
  <2>2. CASE at["enable"] = "reset"
    BY <1>c, <1>e, <2>1, <2>2
  <2>3. CASE \E u \in Thread : at[u] \in StopsAhead[a]
    BY <1>b, <1>e, <2>1, <2>3
  <2> QED
    BY <1>e, <2>2, <2>3
<1>f. ASSUME NEW t \in Thread, Go(t, "stopForward") PROVE Ahead'
  BY <1>b, <1>f, GoPlaces
<1>1. CASE ImageArrives \/ ImageLooks
  <2>1. \E p : Go("image", p)
    BY <1>1 DEF ImageArrives, ImageLooks
  <2>2. at["image"] \notin Stopping /\ at["image"] # "reset"
    BY <1>1 DEF ImageArrives, ImageLooks, Stopping
  <2> QED
    BY <1>1, <1>c, <1>d, <1>e, <2>1, <2>2 DEF ImageArrives, ImageLooks, shared
<1>2. CASE SelectPath \/ Settle \/ AppendPath
  <2>1. \E p : Go("image", p)
    BY <1>2 DEF SelectPath, Settle, AppendPath
  <2>2. at["image"] \notin Stopping /\ at["image"] # "reset"
    BY <1>2 DEF SelectPath, Settle, AppendPath, Stopping
  <2> QED
    BY <1>2, <1>c, <1>d, <1>e, <2>1, <2>2 DEF SelectPath, Settle, AppendPath, shared
<1>3. CASE AlignAxis
  <2>1. at["image"] \in Axis /\ Go("image", AfterAxis[at["image"]]) /\ enabled' = enabled
    BY <1>3 DEF AlignAxis, shared
  <2>2. at["image"] \notin Stopping /\ at["image"] # "reset"
    BY <2>1 DEF Axis, Stopping
  <2>3. ~enabled /\ ~late /\ a \in asked
    BY <1>3 DEF AlignAxis, shared
  <2> QED
    BY <1>c, <1>d, <1>e, <2>1, <2>2, <2>3
<1>4. CASE \E t \in Reporter : Complete(t)
  BY <1>4, <1>c, <1>f DEF Complete, Reporter
<1>5. CASE \E t \in Thread : StopMotors(t)
  <2>1. PICK t \in Thread : StopMotors(t)
    BY <1>5
  <2>2. /\ at[t] \in Stopping /\ Go(t, AfterStop(t)[at[t]])
        /\ a \in asked /\ (at[t] = "stopClear" \/ a # Stops[at[t]])
        /\ ~enabled /\ ~late
    BY <2>1 DEF StopMotors
  <2>3. at'[t] = AfterStop(t)[at[t]] /\ \A u \in Thread \ {t} : at'[u] = at[u]
    BY <2>2, GoPlaces
  <2>4. CASE at["enable"] = "reset"
    BY <2>2, <2>3, <2>4, <1>b, <1>c
  <2>5. CASE at[t] \in StopsAhead[a]
    <3>1. AfterStop(t)[at[t]] \in StopsAhead[a]
      BY <2>2, <2>5, <1>a DEF AfterStop, StopsAhead, Stops, Axis
    <3> QED
      BY <2>3, <3>1
  <2>6. CASE \E u \in Thread \ {t} : at[u] \in StopsAhead[a]
    BY <2>3, <2>6
  <2> QED
    BY <1>d, <2>2, <2>4, <2>5, <2>6
<1>6. CASE \E s \in BOOLEAN : EnableArrives(s)
  <2>1. /\ at["enable"] \notin Stopping /\ at["enable"] # "reset" /\ Go("enable", "write")
        /\ ~enabled /\ ~late /\ a \in asked
    BY <1>6 DEF EnableArrives, Stopping
  <2> QED
    BY <1>c, <1>d, <1>e, <2>1
<1>7. CASE EnableWrites
  BY <1>7, <1>c, GoPlaces DEF EnableWrites
<1>8. CASE EnableResets
  BY <1>8, <1>c, <1>f DEF EnableResets
<1>9. CASE WatchTests \/ WatchCompares
  <2>1. \E p : Go("watch", p)
    BY <1>9 DEF WatchTests, WatchCompares
  <2>2. at["watch"] \notin Stopping /\ at["watch"] # "reset"
    BY <1>9 DEF WatchTests, WatchCompares, Stopping
  <2> QED
    BY <1>9, <1>c, <1>d, <1>e, <2>1, <2>2 DEF WatchTests, WatchCompares, shared
<1>10. CASE PathTick \/ UNCHANGED pathVars
  BY <1>10, <1>d DEF PathTick, pathVars, shared
<1> QED
  BY <1>1, <1>2, <1>3, <1>4, <1>5, <1>6, <1>7, <1>8, <1>9, <1>10 DEF PathNext

-----------------------------------------------------------------------------
\* A thread that may report has a message to report on, before and after a step.
LEMMA ReportStep ==
    PathInv /\ [PathNext]_pathVars => HasReport' /\ ReportsEarned'
<1> SUFFICES ASSUME PathInv, [PathNext]_pathVars, NEW t \in Reporter
             PROVE  /\ enabled' \/ at'[t] \in Holds[t] => reports'[t] < enables'
                    /\ reports'[t] <= enables'
  BY DEF HasReport, ReportsEarned
<1>a. PathTypeOK /\ reports \in [Reporter -> Nat] /\ enables \in Nat
  BY PathAssumption DEF PathInv, PathTypeOK
<1>b. t \in Thread /\ Thread = {"image", "enable", "watch"} /\ Reporter = {"image", "watch"}
  BY DEF Thread, Reporter
<1>c. /\ enabled \/ at[t] \in Holds[t] => reports[t] < enables
      /\ reports[t] <= enables
  BY DEF PathInv, HasReport, ReportsEarned
<1>d. ASSUME UNCHANGED <<enabled, reports, enables>>,
             at'[t] \in Holds[t] => at[t] \in Holds[t] \/ enabled
      PROVE  /\ enabled' \/ at'[t] \in Holds[t] => reports'[t] < enables'
             /\ reports'[t] <= enables'
  BY <1>c, <1>d
<1>1. CASE ImageArrives \/ ImageLooks \/ SelectPath
  <2>1. /\ \E p : Go("image", p) /\ UNCHANGED <<enabled, reports, enables>>
        /\ enabled \/ at["image"] \in {"look", "select"}
    BY <1>1 DEF ImageArrives, ImageLooks, SelectPath, shared
  <2>2. \A u \in Thread \ {"image"} : at'[u] = at[u]
    BY <2>1, <1>a, <1>b, GoPlaces
  <2>3. at["image"] \in {"look", "select"} => at["image"] \in Holds["image"]
    BY DEF Holds
  <2> QED
    BY <1>b, <1>d, <2>1, <2>2, <2>3
<1>2. CASE AlignAxis \/ Settle
  <2>1. /\ \E p : Go("image", p) /\ UNCHANGED <<enabled, reports, enables>>
        /\ at["image"] \in Axis \cup {"settle"}
    BY <1>2 DEF AlignAxis, Settle, shared
  <2>2. \A u \in Thread \ {"image"} : at'[u] = at[u]
    BY <2>1, <1>a, <1>b, GoPlaces
  <2>3. at["image"] \in Holds["image"]
    BY <2>1 DEF Holds
  <2> QED
    BY <1>b, <1>d, <2>1, <2>2, <2>3
<1>3. CASE AppendPath
  <2>1. Go("image", "idle") /\ UNCHANGED <<enabled, reports, enables>>
    BY <1>3 DEF AppendPath
  <2>2. at'["image"] = "idle" /\ \A u \in Thread \ {"image"} : at'[u] = at[u]
    BY <2>1, <1>a, <1>b, GoPlaces
  <2>3. "idle" \notin Holds["image"]
    BY DEF Holds, Axis
  <2> QED
    BY <1>b, <1>d, <2>1, <2>2, <2>3
<1>4. CASE \E u \in Reporter : Complete(u)
  <2>1. PICK u \in Reporter : Complete(u)
    BY <1>4
  <2>2. /\ at[u] = "complete" /\ ~enabled' /\ enables' = enables /\ Go(u, "stopForward")
        /\ reports' = [reports EXCEPT ![u] = @ + 1]
    BY <2>1 DEF Complete
  <2>3. at'[u] = "stopForward" /\ \A v \in Thread \ {u} : at'[v] = at[v]
    BY <2>2, <1>a, <1>b, GoPlaces
  <2>4. "stopForward" \notin Holds[u] /\ "complete" \in Holds[u]
    BY <1>b DEF Holds, Axis
  <2>5. CASE t = u
    BY <1>a, <1>c, <2>2, <2>3, <2>4, <2>5
  <2>6. CASE t # u
    BY <1>a, <1>b, <1>c, <2>2, <2>3, <2>6
  <2> QED
    BY <2>5, <2>6
<1>5. CASE \E u \in Thread : StopMotors(u)
  <2>1. PICK u \in Thread : StopMotors(u)
    BY <1>5
  <2>2. /\ at[u] \in Stopping /\ Go(u, AfterStop(u)[at[u]])
        /\ UNCHANGED <<enabled, reports, enables>>
    BY <2>1 DEF StopMotors
  <2>3. at'[u] = AfterStop(u)[at[u]] /\ \A v \in Thread \ {u} : at'[v] = at[v]
    BY <2>2, <1>a, GoPlaces
  <2>4. AfterStop(u)[at[u]] \in Stopping \cup {"idle", "restart"}
    BY <2>2 DEF AfterStop, Stopping
  <2>5. \A p \in Stopping \cup {"idle", "restart"} : p \notin Holds[t]
    BY <1>b DEF Holds, Axis, Stopping
  <2> QED
    BY <1>b, <1>d, <2>2, <2>3, <2>4, <2>5
<1>6. CASE (\E s \in BOOLEAN : EnableArrives(s)) \/ EnableResets
  <2>1. (\E p : Go("enable", p)) /\ UNCHANGED <<enabled, reports, enables>>
    BY <1>6 DEF EnableArrives, EnableResets
  <2>2. \A u \in Thread \ {"enable"} : at'[u] = at[u]
    BY <2>1, <1>a, <1>b, GoPlaces
  <2> QED
    BY <1>b, <1>d, <2>1, <2>2
<1>7. CASE EnableWrites
  <2>1. /\ Go("enable", "reset") /\ reports' = reports /\ enabled' = state
        /\ enables' = IF state THEN enables + 1 ELSE enables
    BY <1>7 DEF EnableWrites
  <2>2. \A u \in Thread \ {"enable"} : at'[u] = at[u]
    BY <2>1, <1>a, <1>b, GoPlaces
  <2>3. at'[t] = at[t]
    BY <1>b, <2>2
  <2>4. CASE state
    BY <1>a, <1>c, <2>1, <2>4
  <2>5. CASE ~state
    BY <1>c, <2>1, <2>3, <2>5
  <2> QED
    BY <2>4, <2>5
<1>8. CASE WatchTests \/ WatchCompares
  <2>1. /\ \E p : Go("watch", p) /\ UNCHANGED <<enabled, reports, enables>>
        /\ enabled \/ at["watch"] = "compare"
    BY <1>8 DEF WatchTests, WatchCompares, shared
  <2>2. \A u \in Thread \ {"watch"} : at'[u] = at[u]
    BY <2>1, <1>a, <1>b, GoPlaces
  <2>3. "compare" \in Holds["watch"]
    BY DEF Holds
  <2> QED
    BY <1>b, <1>d, <2>1, <2>2, <2>3
<1>9. CASE PathTick \/ UNCHANGED pathVars
  BY <1>9, <1>d DEF PathTick, pathVars, shared
<1> QED
  BY <1>1, <1>2, <1>3, <1>4, <1>5, <1>6, <1>7, <1>8, <1>9 DEF PathNext

-----------------------------------------------------------------------------
\* The invariant survives every step.
LEMMA PathInvStep == PathInv /\ [PathNext]_pathVars => PathInv'
<1> SUFFICES ASSUME PathInv, [PathNext]_pathVars PROVE PathInv'
  OBVIOUS
<1>1. FieldsOK' /\ Bounded' /\ PlacesOK'
  BY FieldsStep, PlacesStep DEF PathInv
<1>2. WillStop' /\ HasReport' /\ ReportsEarned'
  BY StopStep, ReportStep DEF PathInv
<1>3. PathTypeOK'
  BY <1>1 DEF PathTypeOK, FieldsOK, PlacesOK
<1> QED
  BY <1>1, <1>2, <1>3 DEF PathInv

\* With every callback through nothing is left that could stop a motion.
LEMMA PathInvStill == PathInv => DisabledIsStill
<1> SUFFICES ASSUME PathInv, ~enabled, ~late, \A t \in Thread : at[t] = "idle"
             PROVE  asked = {}
  BY DEF DisabledIsStill
<1>1. asked \subseteq Axis
  BY DEF PathInv, PathTypeOK
<1>2. \A a \in Axis : "idle" \notin StopsAhead[a]
  BY DEF Axis, StopsAhead
<1>3. at["enable"] = "idle"
  BY DEF Thread
<1> QED
  BY <1>1, <1>2, <1>3 DEF PathInv, WillStop

\* The types of PathTask: every field, and where each thread may stand.
THEOREM PathTypes == PathSpec => []PathTypeOK
<1>1. PathInv => PathTypeOK
  BY DEF PathInv
<1> QED
  BY <1>1, PathInitInv, PathInvStep, PTL DEF PathSpec

\* A task that was disabled, by a message or by its own report, asks for no
\* motion once its callbacks are through: of all the interleavings of its three
\* threads only an image in hand at that moment (late) can undo the stop.
THEOREM DisabledTaskIsStill == PathSpec => []DisabledIsStill
  BY PathInitInv, PathInvStep, PathInvStill, PTL DEF PathSpec

\* The racing threads never report more often than the task was enabled, each.
THEOREM PathReportsEarned == PathSpec => []ReportsEarned
<1>1. PathInv => ReportsEarned
  BY DEF PathInv
<1> QED
  BY <1>1, PathInitInv, PathInvStep, PTL DEF PathSpec
=============================================================================
