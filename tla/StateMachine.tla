---------------------------- MODULE StateMachine ----------------------------
(***************************************************************************)
(* SubStateMachine, an interpreter of .class files (rospy).  A state is a  *)
(* class with all it inherits from; a class brings triggers on topics,     *)
(* timers, and the module it activates and deactivates.  Each topic's      *)
(* thread checks the triggers of that topic, the main thread the timers,   *)
(* and whichever fires one runs ChangeState, which takes its time and is   *)
(* guarded by no lock.                                                     *)
(*                                                                         *)
(* Triggers and timers differ only in what fires them, and are kept alike: *)
(* in a list per thread, that of the main thread being gTimers.            *)
(***************************************************************************)
EXTENDS Naturals, Sequences, SequencesExt

CONSTANTS
    Class,          \* the classes that have a file
    Inherits,       \* their <Inherits> sections: [Class -> SUBSET Class]
    Brings,         \* their <Triggers> and <Timers>, as sequences of records:
                    \* [Class -> [Runner -> Seq([on, goto])]]
    Activates,      \* the modules of <Setup> and <TearDown>: [Class -> SUBSET Module]
    Topic,          \* the topics listened to
    Messages,       \* what may arrive on them: [Topic -> sets of messages]
    Initial,        \* the state main() changes to
    MaxMessages     \* bound: messages handled

Runner == Topic \cup {"main"}
Due == "due"            \* fires a timer whose end has come
Gone == "gone"
Named == "?MESSAGE"     \* a transition to the state the message names

\* Whatever the files and messages may name as a class.
Event == {Due, Named} \cup UNION {{e.on : e \in ToSet(Brings[c][t])} : c \in Class, t \in Runner}
Goto == UNION {{e.goto : e \in ToSet(Brings[c][t])} : c \in Class, t \in Runner}
Name == Class \cup (UNION {Messages[p] : p \in Topic}) \cup (Goto \ {Named})

\* The files are finite, none says the same thing twice, and no timer names the
\* state of a message: it gets none.
ASSUME StateAssumption ==
    /\ "main" \notin Topic /\ Initial \in Class /\ MaxMessages \in Nat
    /\ \A c \in Class : IsFiniteSet(Activates[c])
    /\ \A c \in Class, t \in Runner :
           /\ Brings[c][t] \in Seq([on : Event, goto : Goto]) /\ IsInjective(Brings[c][t])
           /\ t = "main" => \A e \in ToSet(Brings[c][t]) : e.goto # Named

VARIABLES
    currentClasses,
    list,           \* ActiveTriggers of each listener, and gTimers
    rest,           \* what a thread's loop over its list has still to check
    live,           \* and whether that is still the list: it grows with it
    message,        \* the message each thread has in hand
    doing,             \* where each thread stands
    newState, todo, \* of its ChangeState: the argument, the classes left
    moduleEnable,   \* Module_Enable messages on their way
    handled,        \* tally: messages
    overlapped      \* two threads have been in ChangeState at once

loops == <<rest, live, message>>
changes == <<newState, todo>>
stateVars == <<currentClasses, list, loops, doing, changes, moduleEnable, handled,
               overlapped>>

Changing(t) == doing[t] \in {"remove", "add"}

\* The least set with the name in it that inheritance does not leave; a name
\* without a file inherits nothing.
getAllClasses == [name \in Name |->
    LET All == Class \cup {name}
        Closed == {S \in SUBSET All : name \in S /\ \A d \in S \cap Class : Inherits[d] \subseteq S}
    IN  {c \in All : \A S \in Closed : c \in S}]

StateTypeOK ==
    /\ currentClasses \subseteq Name
    /\ doing \in [Runner -> {"idle", "check", "remove", "add"}]
    /\ live \in [Runner -> BOOLEAN]
    /\ \A t \in Runner : doing[t] = "idle" => rest[t] = <<>>
    /\ \A t \in Runner : ~Changing(t) => todo[t] = {}
    /\ overlapped \in BOOLEAN /\ handled \in 0..MaxMessages

\* main() changes to the initial state before it looks at any timer.
StateInit ==
    /\ currentClasses = {} /\ list = [t \in Runner |-> <<>>]
    /\ rest = [t \in Runner |-> <<>>] /\ live = [t \in Runner |-> FALSE]
    /\ message = [t \in Runner |-> Due]
    /\ doing = [t \in Runner |-> IF t = "main" THEN "remove" ELSE "idle"]
    /\ newState = [t \in Runner |-> Initial] /\ todo = [t \in Runner |-> {}]
    /\ moduleEnable = <<>> /\ handled = 0 /\ overlapped = FALSE

-----------------------------------------------------------------------------
\* A topic's callback, or a pass of checkTimers, starts a loop over its list.
LoopStarts(t, m) ==
    /\ doing[t] = "idle" /\ list[t] # <<>>
    /\ rest' = [rest EXCEPT ![t] = list[t]] /\ live' = [live EXCEPT ![t] = TRUE]
    /\ message' = [message EXCEPT ![t] = m] /\ doing' = [doing EXCEPT ![t] = "check"]
    /\ UNCHANGED <<currentClasses, list, changes, moduleEnable, overlapped>>

MessageArrives(p) ==
    /\ handled < MaxMessages /\ handled' = handled + 1
    /\ \E m \in Messages[p] : LoopStarts(p, m)

CheckTimers == LoopStarts("main", Due) /\ UNCHANGED handled

\* What does not fire: a trigger on something else, a timer with time left.
Passes(t) ==
    /\ doing[t] = "check" /\ rest[t] # <<>>
    /\ t = "main" \/ Head(rest[t]).on \notin {message[t], Named}
    /\ rest' = [rest EXCEPT ![t] = Tail(@)]
    /\ UNCHANGED <<currentClasses, list, live, message, doing, changes,
                   moduleEnable, handled, overlapped>>

\* What fires is a transition: ChangeState starts.  KilledTimers leave gTimers
\* at the end of the pass; nobody looks before.
Fires(t) ==
    /\ doing[t] = "check" /\ rest[t] # <<>>
    /\ LET e == Head(rest[t])
           goto == IF e.goto = Named THEN message[t] ELSE e.goto
       IN  /\ e.on \in {message[t], Named}
           /\ newState' = [newState EXCEPT ![t] = goto]
           /\ todo' = [todo EXCEPT ![t] = currentClasses \ getAllClasses[goto]]
           /\ list' = IF t = "main" THEN [list EXCEPT ![t] = RemoveFirst(@, e)] ELSE list
    /\ doing' = [doing EXCEPT ![t] = "remove"]
    /\ rest' = [rest EXCEPT ![t] = Tail(@)]
    /\ overlapped' = (overlapped \/ \E u \in Runner : Changing(u))
    /\ UNCHANGED <<currentClasses, live, message, moduleEnable, handled>>

LoopEnds(t) ==
    /\ doing[t] = "check" /\ rest[t] = <<>>
    /\ doing' = [doing EXCEPT ![t] = "idle"]
    /\ message' = [message EXCEPT ![t] = Due] /\ live' = [live EXCEPT ![t] = FALSE]
    /\ UNCHANGED <<currentClasses, list, rest, changes, moduleEnable, handled, overlapped>>

-----------------------------------------------------------------------------
\* What a loop still holds of a removed class is not in its list any more.
Forget(c, s) == [i \in DOMAIN s |-> IF s[i].class = c THEN [s[i] EXCEPT !.class = Gone] ELSE s[i]]

\* filter(): the list without the entries of a class, in their order.
Ascending(K) ==
    CHOOSE f \in [1..Cardinality(K) -> K] : \A i, j \in DOMAIN f : i < j => f[i] < f[j]

Without(c, s) ==
    LET kept == Ascending({i \in DOMAIN s : s[i].class # c})
    IN  [k \in DOMAIN kept |-> s[kept[k]]]

\* Mutant of Told: nothing is said at tear down.
ToldSetup(c, s) == IF s THEN SetToSeq({[module |-> m, state |-> s] : m \in Activates[c]}) ELSE <<>>

\* The messages of <Setup> (TRUE) or <TearDown> (FALSE) on Module_Enable.
Told(c, s) == SetToSeq({[module |-> m, state |-> s] : m \in Activates[c]})

\* Mutant of RemoveClass: the timers of the class are kept.
RemoveKeeps(t, c) ==
    /\ doing[t] = "remove" /\ c \in todo[t]
    /\ todo' = [todo EXCEPT ![t] = @ \ {c}]
    /\ list' = [u \in Runner |-> IF u = "main" THEN list[u]
                                 ELSE Without(c, list[u])]
    /\ rest' = [u \in Runner |-> Forget(c, rest[u])]
    /\ live' = [u \in Runner |-> FALSE]
    /\ moduleEnable' = moduleEnable \o (IF c \in Class THEN Told(c, FALSE) ELSE <<>>)
    /\ UNCHANGED <<currentClasses, message, doing, newState, handled, overlapped>>

\* Remove: TearDown, and every list is replaced by one without the class.
RemoveClass(t, c) ==
    /\ doing[t] = "remove" /\ c \in todo[t]
    /\ todo' = [todo EXCEPT ![t] = @ \ {c}]
    /\ list' = [u \in Runner |-> Without(c, list[u])]
    /\ rest' = [u \in Runner |-> Forget(c, rest[u])]
    /\ live' = [u \in Runner |-> FALSE]
    /\ moduleEnable' = moduleEnable \o (IF c \in Class THEN Told(c, FALSE) ELSE <<>>)
    /\ UNCHANGED <<currentClasses, message, doing, newState, handled, overlapped>>

\* Mutant of Removed: the classes both states share are added once more.
RemovedAll(t) ==
    /\ doing[t] = "remove" /\ todo[t] = {}
    /\ todo' = [todo EXCEPT ![t] = getAllClasses[newState[t]]]
    /\ doing' = [doing EXCEPT ![t] = "add"]
    /\ UNCHANGED <<currentClasses, list, loops, newState, moduleEnable, handled, overlapped>>

\* The second difference is taken when the first loop is through.
Removed(t) ==
    /\ doing[t] = "remove" /\ todo[t] = {}
    /\ todo' = [todo EXCEPT ![t] = getAllClasses[newState[t]] \ currentClasses]
    /\ doing' = [doing EXCEPT ![t] = "add"]
    /\ UNCHANGED <<currentClasses, list, loops, newState, moduleEnable, handled, overlapped>>

\* The order in which a loop takes the names of a set depends on the set alone.
NextOf(names) == CHOOSE c \in names : TRUE

New(c, u) == [i \in DOMAIN Brings[c][u] |->
                  [class |-> c, on |-> Brings[c][u][i].on, goto |-> Brings[c][u][i].goto]]

\* Add: Setup, and what the class brings is appended to the lists.
AddClass(t, c) ==
    /\ doing[t] = "add" /\ c \in todo[t]
    /\ todo' = [todo EXCEPT ![t] = @ \ {c}]
    /\ IF c \in Class
       THEN /\ list' = [u \in Runner |-> list[u] \o New(c, u)]
            /\ rest' = [u \in Runner |-> IF doing[u] # "idle" /\ live[u]
                                         THEN rest[u] \o New(c, u) ELSE rest[u]]
            /\ moduleEnable' = moduleEnable \o Told(c, TRUE)
       ELSE UNCHANGED <<list, rest, moduleEnable>>
    /\ UNCHANGED <<currentClasses, live, message, doing, newState, handled, overlapped>>

\* Mutant of Changed: currentClasses is assigned with classes yet to be added.
ChangedEarly(t) ==
    /\ doing[t] = "add"
    /\ currentClasses' = getAllClasses[newState[t]]
    /\ doing' = [doing EXCEPT ![t] = "check"]
    /\ newState' = [newState EXCEPT ![t] = Initial]
    /\ UNCHANGED <<list, loops, todo, moduleEnable, handled, overlapped>>

\* currentClasses is assigned last of all.
Changed(t) ==
    /\ doing[t] = "add" /\ todo[t] = {}
    /\ currentClasses' = getAllClasses[newState[t]]
    /\ doing' = [doing EXCEPT ![t] = "check"]
    /\ newState' = [newState EXCEPT ![t] = Initial]
    /\ UNCHANGED <<list, loops, todo, moduleEnable, handled, overlapped>>

StateStep(t) ==
    \/ Passes(t) \/ Fires(t) \/ LoopEnds(t)
    \/ \E c \in todo[t] : c = NextOf(todo[t]) /\ (RemoveClass(t, c) \/ AddClass(t, c))
    \/ Removed(t) \/ Changed(t)

\* A module takes the message at the head of the queue.
Delivered == moduleEnable # <<>> /\ moduleEnable' = Tail(moduleEnable)

\* Bound: the machine is followed up to the first overlap of two changes.  Beyond
\* it classes may be added twice, or be half removed, and nothing is promised.
StateNext ==
    /\ ~overlapped
    /\ \/ CheckTimers
       \/ \E p \in Topic : MessageArrives(p)
       \/ \E t \in Runner : StateStep(t)

-----------------------------------------------------------------------------
\* What classes bring to a thread's list.
Brought(classes, t) ==
    UNION {{New(c, t)[i] : i \in DOMAIN Brings[c][t]} : c \in classes \cap Class}

\* When no change is under way the lists hold what the current classes bring,
\* each thing once, but for the timers that have gone off: no trigger of a
\* state that was left is still armed.  Two changes at once may break this.
ListsAreCurrent ==
    ~overlapped /\ (\A t \in Runner : ~Changing(t)) =>
        \A t \in Runner :
            /\ ToSet(list[t]) \subseteq Brought(currentClasses, t)
            /\ t # "main" => ToSet(list[t]) = Brought(currentClasses, t)
            /\ IsInjective(list[t])

-----------------------------------------------------------------------------
\* The classes that are set up: those of the current state, or what a change has
\* left of the old ones and added of the new.
Resting == \A t \in Runner : ~Changing(t)
Who == CHOOSE t \in Runner : Changing(t)
Target(t) == getAllClasses[newState[t]]
TargetNow == IF Resting THEN currentClasses ELSE Target(Who)

UpNow ==
    IF Resting THEN currentClasses
    ELSE IF doing[Who] = "remove" THEN (currentClasses \cap Target(Who)) \cup todo[Who]
    ELSE Target(Who) \ todo[Who]

Abstract == INSTANCE States WITH
    State <- {getAllClasses[name] : name \in Name},
    up <- IF overlapped THEN {} ELSE UpNow,
    target <- IF overlapped THEN {} ELSE TargetNow,
    said <- moduleEnable, lost <- overlapped

\* A change, one class a step and open to every other thread, tears down what is
\* not part of the new state before it sets up what is, each class once, leaves
\* alone what the states share, and tells the modules in that order.
RefinesStates == Abstract!StatesSpec
=============================================================================
