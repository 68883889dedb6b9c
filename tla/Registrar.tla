----------------------------- MODULE Registrar ------------------------------
(***************************************************************************)
(* The Registrar of roslite: a key/value store that answers one request at *)
(* a time, publishes every pair it stores, keeps the store in memory and   *)
(* writes it to a file only when the process ends.                         *)
(*                                                                         *)
(* It is deployed in two ways.  "standalone": registrar.py is the program, *)
(* and run() is interrupted by SIGTERM in its own thread, so that both the *)
(* `finally` of run() and the atexit handler save the store.  "core":      *)
(* core.py runs it in a daemon thread beside Atlas, which has the main     *)
(* thread; SIGTERM interrupts Atlas and only the atexit handler saves,     *)
(* while the daemon thread may go on serving what had reached it.          *)
(***************************************************************************)
EXTENDS Calls

CONSTANTS
    Blank,      \* the file after open(..., 'wb') and before the write
    NoCall,     \* no request in hand
    MaxTerms,   \* bound: SIGTERMs in one life of the process
    MayKill     \* whether SIGKILL is among the faults

ASSUME RegistrarAssumption ==
    /\ Blank \notin Map
    /\ NoCall \notin Call
    /\ MaxTerms \in Nat
    /\ MayKill \in BOOLEAN

VARIABLES
    deployment, \* how the Registrar is run
    main,       \* the main thread: up, saving at exit (open, write), past it
                \* (ending), or down, as the whole process then is
    pc,         \* the thread of run(): where it stands, "off" when it has ended
    store,      \* _store; after the process ended, what it held at the end
    file,       \* the persistence file
    current,    \* the request in hand
    answer,     \* its response, None until it is handled
    heard,      \* the store at start with every pair published since
    requests,   \* requests on their way through Atlas
    replies,    \* responses on their way back to a client that waits
    waiting,    \* clients in set_value or get_value
    calls,      \* number of calls each client made
    terms,      \* SIGTERMs that interrupted this life
    killed      \* SIGKILL ended it

server == <<main, pc, store, file, heard, deployment>>
handling == <<current, answer>>
network == <<requests, replies, waiting, calls>>
faults == <<terms, killed>>
vars == <<server, handling, network, faults>>

Serving == {"recv", "handle", "publish", "reply"}

\* Mutant of Loaded: the None of an empty file is kept.
LoadedAsRead(contents) == contents

\* _load_store: safe_load of an empty file is None, which becomes {}.
Loaded(contents) == IF contents = Blank THEN Empty ELSE contents

Init ==
    /\ deployment \in {"standalone", "core"}
    /\ main = "down"
    /\ pc = "off"
    /\ file \in Map \cup {Blank}
    /\ store = Loaded(file)
    /\ heard = store
    /\ current = NoCall
    /\ answer = <<>>
    /\ requests = {}
    /\ replies = {}
    /\ waiting = {}
    /\ calls = [c \in Client |-> 0]
    /\ terms = 0
    /\ killed = FALSE
-----------------------------------------------------------------------------
\* Clients.  A call opens a REQ socket of its own, so that calls of different
\* clients, and a call and the one before it that timed out, are unordered.

CurrentId(c) == <<c, calls[c]>>

WaitsFor(id) == id[1] \in waiting /\ id = CurrentId(id[1])

Send(c) ==
    /\ c \notin waiting
    /\ calls[c] < MaxCalls
    /\ calls' = [calls EXCEPT ![c] = @ + 1]
    /\ waiting' = waiting \cup {c}
    /\ \E call \in Call :
         /\ call.id = <<c, calls[c] + 1>>
         /\ requests' = requests \cup {call}
    /\ UNCHANGED <<server, handling, replies, faults>>

Answered(c) ==
    /\ \E reply \in replies :
         /\ reply.call.id = CurrentId(c)
         /\ replies' = replies \ {reply}
    /\ waiting' = waiting \ {c}
    /\ UNCHANGED <<server, handling, requests, calls, faults>>

\* RCVTIMEO passed (or the client died): the socket is gone and so is any
\* response to it, but the request may still arrive and be carried out.
TimeOut(c) ==
    /\ c \in waiting
    /\ waiting' = waiting \ {c}
    /\ replies' = {reply \in replies : reply.call.id # CurrentId(c)}
    /\ UNCHANGED <<server, handling, requests, calls, faults>>

\* Atlas drops what its backend cannot take at once; what waits in a process
\* that ends, or goes to an address it no longer has, is lost as well.
Lose ==
    /\ \E call \in requests : requests' = requests \ {call}
    /\ UNCHANGED <<server, handling, replies, waiting, calls, faults>>
-----------------------------------------------------------------------------
\* run(), one request at a time.

PutDown == current' = NoCall /\ answer' = <<>>

Receive ==
    /\ pc = "recv"
    /\ pc' = "handle"
    /\ \E call \in requests :
         /\ current' = call
         /\ requests' = requests \ {call}
    /\ UNCHANGED <<main, store, file, heard, deployment, answer, replies,
                   waiting, calls, faults>>

\* Mutant of HandleSet: the pair is stored and never published.
HandleSetSilently ==
    /\ pc = "handle"
    /\ current.op = "set"
    /\ store' = [store EXCEPT ![current.key] = current.value]
    /\ answer' = <<current.key, current.value>>
    /\ pc' = "reply"
    /\ UNCHANGED <<main, file, heard, deployment, current, network, faults>>

HandleSet ==
    /\ pc = "handle"
    /\ current.op = "set"
    /\ store' = [store EXCEPT ![current.key] = current.value]
    /\ answer' = <<current.key, current.value>>
    /\ pc' = "publish"
    /\ UNCHANGED <<main, file, heard, deployment, current, network, faults>>

Publish ==
    /\ pc = "publish"
    /\ heard' = [heard EXCEPT ![answer[1]] = answer[2]]
    /\ pc' = "reply"
    /\ UNCHANGED <<main, store, file, deployment, handling, network, faults>>

HandleGet ==
    /\ pc = "handle"
    /\ current.op = "get"
    /\ answer' = <<current.key, store[current.key]>>
    /\ pc' = "reply"
    /\ UNCHANGED <<main, store, file, heard, deployment, current, network,
                   faults>>

\* Logged and answered with None, which set_value does not tell from success.
Reject ==
    /\ pc = "handle"
    /\ current.op = "bad"
    /\ pc' = "reply"
    /\ UNCHANGED <<main, store, file, heard, deployment, handling, network,
                   faults>>

\* Atlas passes responses on: in the core, only while the main thread runs.
AtlasRuns == deployment = "core" => main = "up"

\* A response reaches a socket only while it is open.
Delivered(id) == AtlasRuns /\ WaitsFor(id)

Reply ==
    /\ pc = "reply"
    /\ pc' = "recv"
    /\ PutDown
    /\ replies' = IF Delivered(current.id)
                    THEN replies \cup {[call |-> current, answer |-> answer]}
                    ELSE replies
    /\ UNCHANGED <<main, store, file, heard, deployment, requests, waiting,
                   calls, faults>>
-----------------------------------------------------------------------------
\* The end of the process.  Opening with 'wb' empties the file, and the dump
\* of the store reaches it when the file is closed.

\* The `finally` of run(), standalone only.
FinalOpen ==
    /\ pc = "open"
    /\ file' = Blank
    /\ pc' = "write"
    /\ UNCHANGED <<main, store, heard, deployment, handling, network, faults>>

FinalWrite ==
    /\ pc = "write"
    /\ file' = store
    /\ pc' = "off"
    /\ main' = "open"
    /\ UNCHANGED <<store, heard, deployment, handling, network, faults>>

\* The atexit handler, in the main thread.
ExitOpen ==
    /\ main = "open"
    /\ file' = Blank
    /\ main' = "write"
    /\ UNCHANGED <<pc, store, heard, deployment, handling, network, faults>>

ProcessEnds ==
    /\ main' = "down"
    /\ pc' = "off"
    /\ PutDown
    /\ UNCHANGED <<store, heard, deployment, network>>

ExitWrite ==
    /\ main = "write"
    /\ file' = store
    /\ main' = "ending"
    /\ UNCHANGED <<pc, store, heard, deployment, handling, network, faults>>

\* Until here the daemon thread of the core could still serve.
End ==
    /\ main = "ending"
    /\ ProcessEnds
    /\ UNCHANGED <<file, faults>>

\* SIGTERM raises ExecutionInterrupt wherever the main thread stands.
Sigterm ==
    /\ terms < MaxTerms
    /\ terms' = terms + 1
    /\ UNCHANGED killed

\* Mutant of InterruptServing: the handler of SIGTERM was never installed.
TerminateServing ==
    /\ deployment = "standalone"
    /\ pc \in Serving
    /\ Sigterm
    /\ ProcessEnds
    /\ UNCHANGED file

InterruptServing ==
    /\ deployment = "standalone"
    /\ pc \in Serving
    /\ Sigterm
    /\ pc' = "open"
    /\ PutDown
    /\ UNCHANGED <<main, store, file, heard, deployment, network>>

\* The exception leaves the `finally`; the atexit handler is still to run.
InterruptFinal ==
    /\ pc \in {"open", "write"}
    /\ Sigterm
    /\ pc' = "off"
    /\ main' = "open"
    /\ UNCHANGED <<store, file, heard, deployment, handling, network>>

\* It is Atlas that is interrupted; the daemon thread goes on.
InterruptCore ==
    /\ deployment = "core"
    /\ main = "up"
    /\ Sigterm
    /\ main' = "open"
    /\ UNCHANGED <<pc, store, file, heard, deployment, handling, network>>

\* The exception leaves the handler and the interpreter goes on ending.
InterruptExit ==
    /\ main \in {"open", "write"}
    /\ Sigterm
    /\ main' = "ending"
    /\ UNCHANGED <<pc, store, file, heard, deployment, handling, network>>

Kill ==
    /\ MayKill
    /\ main # "down"
    /\ killed' = TRUE
    /\ ProcessEnds
    /\ UNCHANGED <<file, terms>>

\* Mutant of Start: the constructor forgets to load the store.
StartEmpty ==
    /\ main = "down"
    /\ main' = "up"
    /\ pc' = "recv"
    /\ store' = Empty
    /\ heard' = store'
    /\ terms' = 0
    /\ killed' = FALSE
    /\ UNCHANGED <<file, deployment, handling, network>>

\* The constructor: _load_store, then the atexit handler is registered.
Start ==
    /\ main = "down"
    /\ main' = "up"
    /\ pc' = "recv"
    /\ store' = Loaded(file)
    /\ heard' = store'
    /\ terms' = 0
    /\ killed' = FALSE
    /\ UNCHANGED <<file, deployment, handling, network>>
-----------------------------------------------------------------------------
Next ==
    \/ \E c \in Client : Send(c) \/ Answered(c) \/ TimeOut(c)
    \/ Lose
    \/ Receive \/ HandleSet \/ Publish \/ HandleGet \/ Reject \/ Reply
    \/ FinalOpen \/ FinalWrite \/ ExitOpen \/ ExitWrite \/ End
    \/ InterruptServing \/ InterruptFinal \/ InterruptCore \/ InterruptExit
    \/ Kill
    \/ Start

Spec == Init /\ [][Next]_vars
-----------------------------------------------------------------------------
\* Every variable keeps its type: in particular a store read back from a file
\* that an interrupted save left empty is a map again, never None.
TypeOK ==
    /\ deployment \in {"standalone", "core"}
    /\ main \in {"up", "open", "write", "ending", "down"}
    /\ pc \in Serving \cup {"open", "write", "off"}
    /\ store \in Map
    /\ file \in Map \cup {Blank}
    /\ heard \in Map
    /\ current \in Call \cup {NoCall}
    /\ answer \in Answer
    /\ requests \subseteq Call
    /\ replies \subseteq [call : Call, answer : Answer]
    /\ waiting \subseteq Client
    /\ calls \in [Client -> 0 .. MaxCalls]
    /\ terms \in 0 .. MaxTerms
    /\ killed \in BOOLEAN

Forced == killed \/ terms > 1

\* A standalone Registrar that ends on one SIGTERM leaves in its file all it
\* held, wherever the signal found it, although the save empties the file first
\* and is done twice.
ExitSaves ==
    deployment = "standalone" /\ main \in {"ending", "down"} /\ ~Forced
        => Loaded(file) = store

\* "atexit always works": the same with no exception for how the process ended.
AtexitAlwaysWorks == main = "down" => Loaded(file) = store

\* Whoever took the store when the Registrar started and applied each pair it
\* published holds the store whenever no SET is between storing and publishing.
FollowersAgree == pc \in Serving \ {"publish"} => heard = store

\* What the calls act on: the store, or what the next start will load.
Contents == IF main \in {"ending", "down"} THEN Loaded(file) ELSE store

Pending == requests \cup (IF pc = "handle" THEN {current} ELSE {})

Responses ==
    replies \cup
        (IF pc \in {"publish", "reply"} /\ AtlasRuns
           THEN {[call |-> current, answer |-> answer]}
           ELSE {})

Issued == {id \in Id : id[2] <= calls[id[1]]}

Abstract == INSTANCE Register WITH
    value <- Contents,
    open <- Pending,
    answers <- Responses,
    issued <- Issued,
    spoilt <- Forced

\* The Registrar keeps the promise of Register: a call takes effect at most
\* once and at one instant, when it is handled, late or not, and a restart
\* keeps every effect unless the process was torn down by force.
RefinesRegister == Abstract!Spec
=============================================================================
