------------------------------- MODULE States -------------------------------
(***************************************************************************)
(* What SubStateMachine promises the modules it enables: a state is a set  *)
(* of classes; on the way to another all that are not part of it are torn  *)
(* down, then all that are missing are set up, and what both share is left *)
(* alone.  The modules of a class are told, in that order.                 *)
(***************************************************************************)
EXTENDS Sequences, SequencesExt

CONSTANTS
    Class,          \* the classes there are
    Activates,      \* the modules of each: [Class -> SUBSET Module]
    State           \* the sets of classes that are states

VARIABLES
    up,             \* the classes that are set up
    target,         \* the state it is in, or on its way to
    said,           \* messages to the modules, on their way
    lost            \* two changes overlapped: nothing is promised any more

statesVars == <<up, target, said, lost>>

StatesInit == up = {} /\ target \in State /\ said = <<>> /\ lost = FALSE

Word(c, s) == IF c \in Class THEN {[module |-> m, state |-> s] : m \in Activates[c]} ELSE {}

Says(c, s) == \E order \in SetToSeqs(Word(c, s)) : said' = said \o order

\* Only a state that has been reached is left.
Begin ==
    /\ ~lost /\ up = target
    /\ target' \in State
    /\ UNCHANGED <<up, said, lost>>

Leave(c) ==
    /\ ~lost /\ c \in up \ target
    /\ up' = up \ {c} /\ Says(c, FALSE)
    /\ UNCHANGED <<target, lost>>

Enter(c) ==
    /\ ~lost /\ up \subseteq target /\ c \in target \ up
    /\ up' = up \cup {c} /\ Says(c, TRUE)
    /\ UNCHANGED <<target, lost>>

Lose == ~lost /\ lost' = TRUE /\ up' = {} /\ target' = {} /\ UNCHANGED said

Hear == said # <<>> /\ said' = Tail(said) /\ UNCHANGED <<up, target, lost>>

StatesNext ==
    \/ Begin \/ Lose \/ Hear
    \/ \E c \in up : Leave(c)
    \/ \E c \in target : Enter(c)

StatesSpec == StatesInit /\ [][StatesNext]_statesVars
=============================================================================
