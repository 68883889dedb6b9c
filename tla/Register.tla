------------------------------ MODULE Register ------------------------------
(***************************************************************************)
(* What the Registrar promises the Nodes that use it: a map on which every *)
(* call takes effect at most once, at one instant between the moment it is *)
(* sent and the moment it is answered, and which survives every restart    *)
(* but those after the process was torn down by force.                     *)
(***************************************************************************)
EXTENDS Calls

VARIABLES
    value,      \* the map
    open,       \* calls sent that have not taken effect
    answers,    \* responses to calls that have, not yet delivered
    issued,     \* ids of every call ever sent
    spoilt      \* the process is being, or was, torn down by force

vars == <<value, open, answers, issued, spoilt>>

Init ==
    /\ value \in Map
    /\ open = {}
    /\ answers = {}
    /\ issued = {}
    /\ spoilt = FALSE

Invoke(call) ==
    /\ call.id \notin issued
    /\ issued' = issued \cup {call.id}
    /\ open' = open \cup {call}
    /\ UNCHANGED <<value, answers, spoilt>>

\* The effect is certain to be that of the call; its response may be lost.
Apply(call) ==
    /\ call \in open
    /\ open' = open \ {call}
    /\ value' = Effect(call, value)
    /\ answers' \in {answers,
                    answers \cup {[call |-> call, answer |-> Result(call, value)]}}
    /\ UNCHANGED <<issued, spoilt>>

\* Requests and responses can be lost, and a response leaves when delivered.
Fewer ==
    /\ open' \subseteq open
    /\ answers' \subseteq answers
    /\ UNCHANGED issued

Forget ==
    /\ Fewer
    /\ UNCHANGED <<value, spoilt>>

\* Only a process torn down by force may lose what it was told.
Spoil ==
    /\ Fewer
    /\ value' \in Map
    /\ spoilt' = TRUE

Recover ==
    /\ spoilt
    /\ spoilt' = FALSE
    /\ UNCHANGED <<value, open, answers, issued>>

Next ==
    \/ \E call \in Call : Invoke(call) \/ Apply(call)
    \/ Forget
    \/ Spoil
    \/ Recover

Spec == Init /\ [][Next]_vars
=============================================================================
