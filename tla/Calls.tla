------------------------------- MODULE Calls --------------------------------
(***************************************************************************)
(* The calls roslite Nodes make on the Registrar, and what each one means: *)
(* set_value and get_value of _roslite.py, the two requests registrar.py   *)
(* answers.  Shared by the promise (Register) and the program (Registrar). *)
(***************************************************************************)
EXTENDS Naturals

CONSTANTS
    Client,     \* processes that call the Registrar
    Key,        \* keys it accepts: the truthy ones
    Value,      \* what may be stored beside None
    Nil,        \* Python's None: the value of a key never set
    MaxCalls    \* bound: calls of one client in a behaviour

ASSUME CallsAssumption ==
    /\ Nil \notin Value
    /\ MaxCalls \in Nat

Datum == Value \cup {Nil}

\* A dict seen through dict.get: an absent key is one that holds None.
Map == [Key -> Datum]

Empty == [k \in Key |-> Nil]

\* One call in the life of the system: its client and its number.
Id == Client \X (1 .. MaxCalls)

SetCall == [id : Id, op : {"set"}, key : Key, value : Datum]

GetCall == [id : Id, op : {"get"}, key : Key]

\* A SET or GET whose key is falsy ("", 0, None), or a request of no known kind.
BadCall == [id : Id, op : {"bad"}]

Call == SetCall \cup GetCall \cup BadCall

\* A response: the pair <<key, value>>, or <<>> for the None a bad call gets.
Answer == {<<>>} \cup (Key \X Datum)

Effect(call, map) ==
    IF call.op = "set" THEN [map EXCEPT ![call.key] = call.value] ELSE map

Result(call, map) ==
    IF call.op = "bad" THEN <<>> ELSE <<call.key, Effect(call, map)[call.key]>>
=============================================================================
