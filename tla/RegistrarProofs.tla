--------------------------- MODULE RegistrarProofs ---------------------------
(***************************************************************************)
(* Theorems about Registrar, for any clients, keys, values and bounds: its *)
(* types, that one SIGTERM loses nothing, that those who follow the        *)
(* channel agree with the store, and that it implements Register.          *)
(***************************************************************************)
EXTENDS Registrar, TLAPS

\* The two threads through a shutdown: who may save, and after which signal.
Shutdown ==
    /\ main = "down" => pc = "off"
    /\ pc \in {"open", "write"} => deployment = "standalone" /\ main = "up"
    /\ deployment = "standalone" /\ main # "up" => pc = "off"
    /\ main \in {"open", "write"} \/ pc \in {"open", "write"} => terms > 0

\* The request in hand and its response, by the line run() has reached.
InHand ==
    /\ pc \in {"handle", "publish", "reply"} => current \in Call
    /\ pc \notin {"publish", "reply"} => answer = <<>>
    /\ pc = "publish" => /\ answer \in Key \X Datum
                         /\ store = [heard EXCEPT ![answer[1]] = answer[2]]

\* A call that may still take effect was sent, and waits in one place only.
Fresh ==
    /\ \A call \in Pending : call.id[2] <= calls[call.id[1]]
    /\ pc = "handle" => current \notin requests

IInv == TypeOK /\ Shutdown /\ InHand /\ Fresh /\ FollowersAgree /\ ExitSaves
-----------------------------------------------------------------------------
\* What a call does to a map leaves a map, and its response is a response.
LEMMA EffectType ==
    ASSUME NEW call \in Call, NEW map \in Map
    PROVE  Effect(call, map) \in Map /\ Result(call, map) \in Answer
  BY DEF Effect, Result, Map, Answer, Call, SetCall, GetCall, BadCall, Datum

\* An empty file is read as an empty store.
LEMMA LoadedType == ASSUME NEW f \in Map \cup {Blank} PROVE Loaded(f) \in Map
  BY DEF Loaded, Empty, Map, Datum

\* A saved store is read back as it was.
LEMMA MapLoaded == ASSUME NEW m \in Map PROVE Loaded(m) = m
  BY RegistrarAssumption DEF Loaded

\* The kinds of call do not overlap.
LEMMA CallKinds ==
    ASSUME NEW call \in Call
    PROVE  /\ call.id \in Id
           /\ call.op = "set" => call.key \in Key /\ call.value \in Datum
           /\ call.op = "get" => call.key \in Key
  BY DEF Call, SetCall, GetCall, BadCall

\* The invariant holds of the first state, whatever the file holds.
LEMMA InitInv == Init => IInv
<1> SUFFICES ASSUME Init PROVE IInv
  OBVIOUS
<1>1. store \in Map
  BY LoadedType DEF Init
<1>2. TypeOK
  <2>1. terms \in 0 .. MaxTerms /\ calls \in [Client -> 0 .. MaxCalls]
    BY CallsAssumption, RegistrarAssumption DEF Init
  <2>2. answer \in Answer
    BY DEF Init, Answer
  <2> QED BY <1>1, <2>1, <2>2 DEF Init, TypeOK
<1>3. Shutdown /\ InHand
  BY DEF Init, Shutdown, InHand
<1>4. Fresh /\ FollowersAgree /\ ExitSaves
  BY DEF Init, Fresh, Pending, FollowersAgree, ExitSaves, Serving
<1> QED BY <1>2, <1>3, <1>4 DEF IInv
-----------------------------------------------------------------------------
\* The numbers of the calls only grow.
LEMMA SendInv == ASSUME IInv, NEW c \in Client, Send(c) PROVE IInv'
<1> USE DEF IInv
<1> PICK new \in Call : /\ new.id = <<c, calls[c] + 1>>
                        /\ requests' = requests \cup {new}
  BY DEF Send
<1>1. TypeOK'
  BY CallsAssumption DEF Send, TypeOK, server, handling, faults
<1>2. Shutdown' /\ InHand' /\ FollowersAgree' /\ ExitSaves'
  BY DEF Send, Shutdown, InHand, FollowersAgree, ExitSaves, Forced, server,
         handling, faults
<1>3. \A call \in Pending : call \in Call /\ call.id[1] \in Client
                            /\ call.id[2] \in Nat
  BY CallKinds DEF Pending, TypeOK, InHand, Id
<1>4. ASSUME NEW call \in Pending'
      PROVE  call.id[2] <= calls'[call.id[1]]
  <2>1. call \in Pending \/ call = new
    BY DEF Pending, Send, server, handling
  <2>2. CASE call = new
    BY <2>2 DEF Send, TypeOK
  <2>3. CASE call \in Pending
    BY <2>3, <1>3 DEF Send, TypeOK, Fresh
  <2> QED BY <2>1, <2>2, <2>3
<1>5. (pc = "handle" => current \notin requests)'
  <2>1. pc = "handle" => current.id[2] <= calls[current.id[1]]
    BY DEF Fresh, Pending
  <2>2. pc = "handle" => current # new
    BY <2>1 DEF TypeOK
  <2> QED BY <2>2 DEF Send, Fresh, server, handling
<1> QED BY <1>1, <1>2, <1>4, <1>5 DEF Fresh

\* Nor does a call reappear that was answered, given up or lost.
LEMMA ClientInv ==
    ASSUME IInv, \/ \E c \in Client : Answered(c) \/ TimeOut(c)
                 \/ Lose
    PROVE  IInv'
<1> USE DEF IInv
<1>1. /\ requests' \subseteq requests
      /\ replies' \subseteq replies
      /\ waiting' \subseteq waiting
      /\ UNCHANGED <<server, handling, calls, faults>>
  BY DEF Answered, TimeOut, Lose
<1>2. TypeOK'
  BY <1>1 DEF TypeOK, server, handling, faults
<1>3. Shutdown' /\ InHand' /\ FollowersAgree' /\ ExitSaves'
  BY <1>1 DEF Shutdown, InHand, FollowersAgree, ExitSaves, Forced, server,
              handling, faults
<1>4. Fresh'
  BY <1>1 DEF Fresh, Pending, server, handling
<1> QED BY <1>2, <1>3, <1>4
-----------------------------------------------------------------------------
\* The loop of run(): no step of it is taken once the process is down.
LEMMA ReceiveInv == ASSUME IInv, Receive PROVE IInv'
<1> USE DEF IInv, Receive
<1>1. TypeOK'
  BY DEF TypeOK, Serving, faults
<1>2. Shutdown' /\ InHand'
  BY DEF TypeOK, Shutdown, InHand, faults
<1>3. Fresh'
  BY DEF Fresh, Pending
<1>4. FollowersAgree' /\ ExitSaves'
  BY DEF Shutdown, FollowersAgree, ExitSaves, Serving
<1> QED BY <1>1, <1>2, <1>3, <1>4

\* Handling a request is the only thing that changes the store while it serves.
LEMMA HandleInv ==
    ASSUME IInv, HandleSet \/ HandleGet \/ Reject PROVE IInv'
<1> USE DEF IInv
<1>1. /\ pc = "handle" /\ pc' \in {"publish", "reply"}
      /\ current \in Call
      /\ UNCHANGED <<main, file, heard, deployment, current, network, faults>>
  BY DEF HandleSet, HandleGet, Reject, InHand, handling
<1>2. main # "down"
  BY <1>1 DEF Shutdown
<1>3. Shutdown' /\ ExitSaves' /\ Fresh'
  BY <1>1, <1>2 DEF Shutdown, ExitSaves, Fresh, Pending, network, faults
<1>4. CASE HandleSet
  <2>1. current.key \in Key /\ current.value \in Datum
    BY <1>1, <1>4, CallKinds DEF HandleSet
  <2>2. store' \in Map /\ answer' \in Key \X Datum
    BY <2>1, <1>4 DEF HandleSet, TypeOK, Map
  <2>3. TypeOK'
    BY <1>1, <1>4, <2>2 DEF HandleSet, TypeOK, network, faults, Serving, Answer
  <2>4. heard = store
    BY <1>1 DEF FollowersAgree, Serving
  <2>5. InHand' /\ FollowersAgree'
    BY <1>1, <1>4, <2>2, <2>4 DEF HandleSet, InHand, FollowersAgree
  <2> QED BY <1>3, <2>3, <2>5
<1>5. CASE HandleGet
  <2>1. answer' \in Key \X Datum
    BY <1>1, <1>5, CallKinds DEF HandleGet, TypeOK, Map
  <2>2. TypeOK'
    BY <1>1, <1>5, <2>1 DEF HandleGet, TypeOK, network, faults, Serving, Answer
  <2>3. InHand' /\ FollowersAgree'
    BY <1>1, <1>5 DEF HandleGet, InHand, FollowersAgree, Serving
  <2> QED BY <1>3, <2>2, <2>3
<1>6. CASE Reject
  <2>1. TypeOK'
    BY <1>1, <1>6 DEF Reject, TypeOK, handling, network, faults, Serving
  <2>2. InHand' /\ FollowersAgree'
    BY <1>1, <1>6 DEF Reject, InHand, FollowersAgree, handling, Serving
  <2> QED BY <1>3, <2>1, <2>2
<1> QED BY <1>4, <1>5, <1>6

\* Publishing brings the channel level with the store.
LEMMA PublishInv == ASSUME IInv, Publish PROVE IInv'
<1> USE DEF IInv, Publish
<1>1. TypeOK'
  BY DEF TypeOK, InHand, Map, Serving, handling, network, faults
<1>2. Shutdown' /\ InHand' /\ Fresh' /\ FollowersAgree' /\ ExitSaves'
  BY DEF Shutdown, InHand, Fresh, Pending, FollowersAgree, ExitSaves, handling,
         network, faults
<1> QED BY <1>1, <1>2

\* Replying puts the request down.
LEMMA ReplyInv == ASSUME IInv, Reply PROVE IInv'
<1> USE DEF IInv, Reply
<1>1. TypeOK'
  BY DEF TypeOK, InHand, Serving, PutDown, faults, Answer
<1>2. Shutdown' /\ InHand' /\ Fresh' /\ FollowersAgree' /\ ExitSaves'
  BY DEF Shutdown, InHand, Fresh, Pending, FollowersAgree, ExitSaves, PutDown,
         faults, Serving
<1> QED BY <1>1, <1>2
-----------------------------------------------------------------------------
\* The end of the process and its start.
LEMMA SaveInv ==
    ASSUME IInv, FinalOpen \/ FinalWrite \/ ExitOpen \/ ExitWrite
    PROVE  IInv'
<1> USE DEF IInv, FinalOpen, FinalWrite, ExitOpen, ExitWrite
<1>1. TypeOK'
  BY DEF TypeOK, handling, network, faults
<1>2. Shutdown' /\ ExitSaves'
  BY MapLoaded DEF TypeOK, Shutdown, ExitSaves, faults
<1>3. InHand' /\ FollowersAgree' /\ Fresh'
  BY DEF InHand, FollowersAgree, Fresh, Pending, Serving, handling, network
<1> QED BY <1>1, <1>2, <1>3

\* However it ends, nothing is in hand any more.
LEMMA EndInv == ASSUME IInv, End \/ Kill PROVE IInv'
<1> USE DEF IInv, End, Kill, ProcessEnds, PutDown
<1>1. TypeOK'
  BY DEF TypeOK, network, faults, Answer
<1>2. Shutdown' /\ InHand' /\ FollowersAgree' /\ Fresh'
  BY DEF Shutdown, InHand, FollowersAgree, Fresh, Pending, Serving, network
<1>3. ExitSaves'
  BY DEF ExitSaves, Forced, faults, TypeOK
<1> QED BY <1>1, <1>2, <1>3

\* A second SIGTERM cuts the save short, and counts as force.
LEMMA InterruptExitInv == ASSUME IInv, InterruptExit PROVE IInv'
<1> USE DEF IInv, InterruptExit, Sigterm
<1>1. terms \in 1 .. MaxTerms /\ terms' \in 2 .. MaxTerms
  BY RegistrarAssumption DEF TypeOK, Shutdown
<1>2. TypeOK'
  BY <1>1, RegistrarAssumption DEF TypeOK, handling, network
<1>3. Shutdown' /\ ExitSaves'
  BY <1>1, RegistrarAssumption DEF Shutdown, ExitSaves, Forced
<1>4. InHand' /\ FollowersAgree' /\ Fresh'
  BY DEF InHand, FollowersAgree, Fresh, Pending, handling, network
<1> QED BY <1>2, <1>3, <1>4

\* SIGTERM before the atexit handler leads to a save, in either deployment.
LEMMA InterruptInv ==
    ASSUME IInv, InterruptServing \/ InterruptFinal \/ InterruptCore
    PROVE  IInv'
<1> USE DEF IInv, InterruptServing, InterruptFinal, InterruptCore, Sigterm
<1>1. terms' \in 1 .. MaxTerms /\ UNCHANGED killed
  BY RegistrarAssumption DEF TypeOK
<1>2. main' # "down"
  BY DEF Shutdown, TypeOK, Serving
<1>3. CASE InterruptServing
  <2>1. TypeOK'
    BY <1>1, <1>3 DEF TypeOK, PutDown, network, Answer, Serving
  <2>2. Shutdown' /\ ExitSaves'
    BY <1>1, <1>2, <1>3 DEF Shutdown, ExitSaves, TypeOK, Serving
  <2>3. InHand' /\ FollowersAgree' /\ Fresh'
    BY <1>3 DEF InHand, FollowersAgree, Fresh, Pending, PutDown, network, Serving
  <2> QED BY <2>1, <2>2, <2>3
<1>4. CASE InterruptFinal
  <2>1. TypeOK'
    BY <1>1, <1>4 DEF TypeOK, handling, network
  <2>2. Shutdown' /\ ExitSaves'
    BY <1>1, <1>2, <1>4 DEF Shutdown, ExitSaves
  <2>3. InHand' /\ FollowersAgree' /\ Fresh'
    BY <1>4 DEF InHand, FollowersAgree, Fresh, Pending, handling, network, Serving
  <2> QED BY <2>1, <2>2, <2>3
<1>5. CASE InterruptCore
  <2>1. TypeOK'
    BY <1>1, <1>5 DEF TypeOK, handling, network
  <2>2. Shutdown' /\ ExitSaves'
    BY <1>1, <1>2, <1>5 DEF Shutdown, ExitSaves
  <2>3. InHand' /\ FollowersAgree' /\ Fresh'
    BY <1>5 DEF InHand, FollowersAgree, Fresh, Pending, handling, network, Serving
  <2> QED BY <2>1, <2>2, <2>3
<1> QED BY <1>3, <1>4, <1>5

\* The constructor takes the store from the file.
LEMMA StartInv == ASSUME IInv, Start PROVE IInv'
<1> USE DEF IInv, Start
<1>1. store' \in Map
  BY LoadedType DEF TypeOK
<1>2. TypeOK'
  <2>1. terms' \in 0 .. MaxTerms
    BY RegistrarAssumption
  <2> QED BY <1>1, <2>1 DEF TypeOK, Serving, handling, network
<1>3. pc = "off"
  BY DEF Shutdown
<1>4. Shutdown' /\ InHand' /\ FollowersAgree' /\ Fresh' /\ ExitSaves'
  BY <1>3 DEF Shutdown, InHand, FollowersAgree, Fresh, Pending, ExitSaves,
              handling, network, Serving
<1> QED BY <1>2, <1>4
-----------------------------------------------------------------------------
\* The invariant is inductive.
LEMMA StepInv == IInv /\ [Next]_vars => IInv'
<1> SUFFICES ASSUME IInv, [Next]_vars PROVE IInv'
  OBVIOUS
<1>1. CASE UNCHANGED vars
  BY <1>1 DEF vars, server, handling, network, faults, IInv, TypeOK, Shutdown,
              InHand, Fresh, Pending, FollowersAgree, ExitSaves, Forced
<1>2. CASE Next
  BY <1>2, SendInv, ClientInv, ReceiveInv, HandleInv, PublishInv, ReplyInv,
     SaveInv, EndInv, InterruptExitInv, InterruptInv, StartInv DEF Next
<1> QED BY <1>1, <1>2

\* Every variable keeps its type.
THEOREM TypeCorrect == Spec => []TypeOK
<1>1. IInv => TypeOK
  BY DEF IInv
<1> QED BY InitInv, StepInv, <1>1, PTL DEF Spec

\* One SIGTERM loses nothing a standalone Registrar held.
THEOREM SigtermLosesNothing == Spec => []ExitSaves
<1>1. IInv => ExitSaves
  BY DEF IInv
<1> QED BY InitInv, StepInv, <1>1, PTL DEF Spec

\* Outside the step from storing to publishing, the channel tells the store.
THEOREM ChannelTellsStore == Spec => []FollowersAgree
<1>1. IInv => FollowersAgree
  BY DEF IInv
<1> QED BY InitInv, StepInv, <1>1, PTL DEF Spec
-----------------------------------------------------------------------------
\* Register speaks of the same maps and calls.
LEMMA SameOperators ==
    /\ Abstract!Map = Map
    /\ \A call, map : /\ Abstract!Effect(call, map) = Effect(call, map)
                      /\ Abstract!Result(call, map) = Result(call, map)
  BY DEF Abstract!Map, Abstract!Datum, Abstract!Effect, Abstract!Result, Map,
         Datum, Effect, Result

\* The initial states of Registrar are initial states of Register.
LEMMA RefinesInit == Init => Abstract!Init
<1> SUFFICES ASSUME Init PROVE Abstract!Init
  OBVIOUS
<1>1. Contents \in Map
  BY LoadedType DEF Init, Contents
<1>2. Pending = {} /\ Responses = {} /\ Forced = FALSE
  BY DEF Init, Pending, Responses, Forced
<1>3. Issued = {}
  BY CallsAssumption DEF Init, Issued, Id
<1> QED BY <1>1, <1>2, <1>3, SameOperators DEF Abstract!Init

\* Sending a call is Invoke: its id is new, because the client counts.
LEMMA RefinesSend ==
    ASSUME IInv, NEW c \in Client, Send(c)
    PROVE  \E call \in Call : Abstract!Invoke(call)
<1> PICK new \in Call : /\ new.id = <<c, calls[c] + 1>>
                        /\ requests' = requests \cup {new}
  BY DEF Send
<1>1. calls \in [Client -> 0 .. MaxCalls]
  BY DEF IInv, TypeOK
<1>2. calls[c] + 1 \in 1 .. MaxCalls /\ new.id \in Id
  BY <1>1, CallsAssumption DEF Send, Id
<1>3. new.id \notin Issued
  BY <1>1 DEF Issued
<1>4. Issued' = Issued \cup {new.id}
  <2>1. ASSUME NEW d \in Client, NEW n \in 1 .. MaxCalls
        PROVE  n <= calls'[d] <=> n <= calls[d] \/ <<d, n>> = <<c, calls[c] + 1>>
    BY <1>1, CallsAssumption DEF Send
  <2> QED BY <2>1, <1>2 DEF Issued, Id
<1>5. Pending' = Pending \cup {new}
  BY DEF Send, Pending, server, handling
<1>6. UNCHANGED <<Contents, Responses, Forced>>
  BY DEF Send, Contents, Responses, AtlasRuns, Forced, server, handling, faults
<1> QED BY <1>3, <1>4, <1>5, <1>6 DEF Abstract!Invoke

\* Handling a request is Apply, whatever was asked; in a core that has saved
\* already it is Forget, since the effect ends with the process.
LEMMA RefinesHandle ==
    ASSUME IInv, HandleSet \/ HandleGet \/ Reject
    PROVE  (\E call \in Call : Abstract!Apply(call)) \/ Abstract!Forget
<1>1. /\ pc = "handle" /\ pc' \in {"publish", "reply"}
      /\ current \in Call
      /\ UNCHANGED <<main, deployment, file, current, requests, replies, calls,
                     terms, killed>>
  BY DEF IInv, InHand, HandleSet, HandleGet, Reject, handling, network, faults
<1>2. Pending = requests \cup {current} /\ Pending' = Pending \ {current}
  BY <1>1 DEF Pending, IInv, Fresh
<1>3. UNCHANGED <<Issued, Forced>>
  BY <1>1 DEF Issued, Forced
<1>4. CASE main \in {"ending", "down"}
  <2>1. UNCHANGED Contents
    BY <1>1, <1>4 DEF Contents
  <2>2. ~AtlasRuns
    BY <1>1, <1>4 DEF AtlasRuns, IInv, Shutdown, TypeOK
  <2>3. UNCHANGED Responses
    BY <1>1, <2>2 DEF Responses, AtlasRuns
  <2> QED BY <1>2, <1>3, <2>1, <2>3 DEF Abstract!Forget, Abstract!Fewer
<1>5. CASE main \notin {"ending", "down"}
  <2>1. Contents = store /\ Contents' = store'
    BY <1>1, <1>5 DEF Contents
  <2>2. Responses' \in
          {Responses, Responses \cup {[call |-> current, answer |-> answer']}}
    BY <1>1 DEF Responses, AtlasRuns
  <2>3. store' = Effect(current, store) /\ answer' = Result(current, store)
    <3>1. store \in Map /\ answer = <<>>
      BY <1>1 DEF IInv, TypeOK, InHand
    <3>2. CASE HandleSet
      BY <1>1, <3>1, <3>2, CallKinds DEF HandleSet, Effect, Result, Map
    <3>3. CASE HandleGet
      BY <3>3 DEF HandleGet, Effect, Result
    <3>4. CASE Reject
      BY <3>1, <3>4 DEF Reject, Effect, Result, handling
    <3> QED BY <3>2, <3>3, <3>4
  <2> QED BY <1>1, <1>2, <1>3, <2>1, <2>2, <2>3, SameOperators
         DEF Abstract!Apply
<1> QED BY <1>4, <1>5

\* What clients, Atlas and an interrupt drop is Forget; so is the way a request
\* and its response go through run(), which changes nothing but their place.
LEMMA RefinesForget ==
    ASSUME IInv,
           \/ \E c \in Client : Answered(c) \/ TimeOut(c)
           \/ Lose \/ Receive \/ Publish \/ Reply
    PROVE  Abstract!Forget
<1>1. UNCHANGED <<main, deployment, store, file, terms, killed>>
      /\ UNCHANGED calls
  BY DEF Answered, TimeOut, Lose, Receive, Publish, Reply, server, network,
         faults
<1>2. UNCHANGED <<Contents, Issued, Forced>>
  BY <1>1 DEF Contents, Issued, Forced
<1>3. Pending' \subseteq Pending
  BY DEF Pending, Answered, TimeOut, Lose, Receive, Publish, Reply, server,
         handling, network, PutDown
<1>4. Responses' \subseteq Responses
  BY DEF Responses, Answered, TimeOut, Lose, Receive, Publish, Reply, server,
         handling, network, AtlasRuns, Delivered
<1> QED BY <1>2, <1>3, <1>4 DEF Abstract!Forget, Abstract!Fewer

\* Saving changes neither the store nor, before the end, what the calls act on;
\* a first SIGTERM only drops the request in hand, a second one is Spoil.
LEMMA RefinesShutdown ==
    ASSUME IInv,
           \/ FinalOpen \/ FinalWrite \/ ExitOpen \/ ExitWrite \/ End
           \/ InterruptServing \/ InterruptFinal \/ InterruptCore
           \/ InterruptExit \/ Kill
    PROVE  Abstract!Forget \/ Abstract!Spoil
<1> USE DEF FinalOpen, FinalWrite, ExitOpen, ExitWrite, End, InterruptServing,
            InterruptFinal, InterruptCore, InterruptExit, Kill
<1>1. Pending' \subseteq Pending
  BY DEF Pending, ProcessEnds, handling, network
<1>2. Responses' \subseteq Responses
  BY DEF Responses, AtlasRuns, ProcessEnds, handling, network, IInv, Shutdown,
         TypeOK
<1>3. UNCHANGED Issued
  BY DEF Issued, ProcessEnds, network
<1>4. Contents' \in Map
  BY StepInv, LoadedType DEF IInv, TypeOK, Contents, Next
<1>5. CASE Forced'
  BY <1>1, <1>2, <1>3, <1>4, <1>5, SameOperators
     DEF Abstract!Spoil, Abstract!Fewer, Forced
<1>6. CASE ~Forced'
  <2>1. ~Forced
    BY <1>6 DEF Forced, faults, Sigterm, IInv, TypeOK
  <2>2. UNCHANGED Contents
    BY <1>6, MapLoaded DEF Contents, Forced, faults, Sigterm, ProcessEnds,
       IInv, TypeOK, Shutdown, Serving
  <2> QED BY <1>1, <1>2, <1>3, <1>6, <2>1, <2>2
         DEF Abstract!Forget, Abstract!Fewer, Forced
<1> QED BY <1>5, <1>6

\* The start after a forced end is Recover; after any other it changes nothing.
LEMMA RefinesStart ==
    ASSUME IInv, Start PROVE Abstract!Recover \/ Abstract!Forget
<1>1. pc = "off" /\ pc' = "recv"
  BY DEF Start, IInv, Shutdown
<1>2. UNCHANGED <<Contents, Pending, Responses, Issued>>
  BY <1>1 DEF Start, Contents, Pending, Responses, Issued, handling, network
<1>3. Forced' = FALSE
  BY DEF Start, Forced
<1>4. Forced \in BOOLEAN
  BY DEF Forced
<1> QED BY <1>2, <1>3, <1>4
        DEF Abstract!Recover, Abstract!Forget, Abstract!Fewer

\* Each step of the Registrar is a step of Register, or none.
LEMMA RefinesStep ==
    IInv /\ [Next]_vars => [Abstract!Next]_Abstract!vars
<1> SUFFICES ASSUME IInv, [Next]_vars
             PROVE  Abstract!Next \/ UNCHANGED Abstract!vars
  OBVIOUS
<1>1. CASE UNCHANGED vars
  BY <1>1 DEF vars, server, handling, network, faults, Abstract!vars, AtlasRuns,
              Contents, Pending, Responses, Issued, Forced
<1>2. CASE Next
  <2>1. Abstract!Call = Call
    BY DEF Abstract!Call, Abstract!SetCall, Abstract!GetCall, Abstract!BadCall,
           Abstract!Id, Abstract!Datum, Call, SetCall, GetCall, BadCall, Id,
           Datum
  <2>2. \/ \E call \in Call : Abstract!Invoke(call) \/ Abstract!Apply(call)
        \/ Abstract!Forget \/ Abstract!Spoil \/ Abstract!Recover
    <3>1. CASE \E c \in Client : Send(c)
      BY <3>1, RefinesSend
    <3>2. CASE HandleSet \/ HandleGet \/ Reject
      BY <3>2, RefinesHandle
    <3>3. CASE \/ \E c \in Client : Answered(c) \/ TimeOut(c)
               \/ Lose \/ Receive \/ Publish \/ Reply
      BY <3>3, RefinesForget
    <3>4. CASE \/ FinalOpen \/ FinalWrite \/ ExitOpen \/ ExitWrite \/ End
               \/ InterruptServing \/ InterruptFinal \/ InterruptCore
               \/ InterruptExit \/ Kill
      BY <3>4, RefinesShutdown
    <3>5. CASE Start
      BY <3>5, RefinesStart
    <3> QED BY <1>2, <3>1, <3>2, <3>3, <3>4, <3>5 DEF Next
  <2> QED BY <2>1, <2>2 DEF Abstract!Next
<1> QED BY <1>1, <1>2

\* The Registrar implements Register: calls take effect at most once and
\* atomically, and every effect outlives a restart unless the end was forced.
THEOREM RegistrarImplementsRegister == Spec => RefinesRegister
<1> QED BY InitInv, StepInv, RefinesInit, RefinesStep, PTL
        DEF Spec, RefinesRegister, Abstract!Spec
=============================================================================
