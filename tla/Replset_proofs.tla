--------------------------- MODULE Replset_proofs ---------------------------
(***************************************************************************)
(* What Replset and AioReplset keep, for every number of nodes and calls,  *)
(* all timeouts and all faults together. A step of Replset is a step of    *)
(* AioReplset, so that one inductive invariant serves both: the theorems   *)
(* come in pairs, for threads and for futures that may be dropped.         *)
(***************************************************************************)
EXTENDS AioReplset, Retain_proofs

(* The steps that only the aio client has. *)
DropStep ==
    \/ \E r \in Requests : CallDropped(r) \/ ServeHalfClosed(r) \/ HangUp(r)
    \/ \E n \in Nodes : OrphanHangUp(n)
    \/ OpenDropped \/ CloseDropped

LEMMA AioSteps == [AioNext]_vars <=> [Next]_vars \/ DropStep
  BY DEF AioNext, DropStep

(* The steps by which a call goes on without any of the clients changing,  *)
(* or its entry in the queue.                                              *)
Proceeds(r) ==
    \/ FindOpen(r) \/ Connect(r) \/ Connected(r) \/ SkipNode(r) \/ OpenRefused(r)
    \/ Refused(r) \/ Register(r) \/ LockWriter(r) \/ NotConnected(r) \/ Written(r)
    \/ WriteFails(r) \/ SendTimesOut(r)

(* The steps by which a call ends. *)
Ends(r) == ResultOk(r) \/ ResultError(r) \/ PassReportsStateError(r) \/ PassGivesUp(r)

(* The steps of the users that open and close, and of the network, that    *)
(* leave all calls alone.                                                  *)
Elsewhere ==
    \/ OpenStart \/ OpenConnects \/ OpenNode \/ OpenSkipsNode \/ OpenEnd
    \/ CloseStart \/ CloseMarks \/ CloseEnd \/ OpenDropped \/ CloseDropped
    \/ \E n \in Nodes : GoDown(n) \/ ComeUp(n)
    \/ \E n \in Nodes \cup {NoNode} : Elect(n)

LEMMA ElsewhereLeavesCalls == Elsewhere => UNCHANGED <<now, faults, callVars, executed>>
  BY DEF Elsewhere, OpenStart, OpenConnects, OpenNode, OpenSkipsNode, OpenEnd, CloseStart,
         CloseMarks, CloseEnd, OpenDropped, CloseDropped, GoDown, ComeUp, Elect, serverVars

(* The steps that wake the calls of a client n, and do nothing else to any *)
(* call.                                                                   *)
Wakes(n) ==
    \/ n \in Nodes /\ (Lose(n) \/ OrphanHangUp(n))
    \/ n = closer /\ CloseNode
    \/ \E r \in Requests : n = At(r) /\ HangUp(r)

LEMMA WakesOnly ==
    ASSUME NEW n, Wakes(n)
    PROVE  /\ UNCHANGED <<now, faults, pc, passVars, timeVars, garbled, outcome, queueVars, executed>>
           /\ \/ answer' = answer
              \/ answer' = Woken(n, "Io")
              \/ answer' = Woken(n, "ClientClosed")
  BY DEF Wakes, Lose, OrphanHangUp, CloseNode, ClientCloses, HangUp, envVars, serverVars

(* A dropped call, wherever it is dropped. *)
LEMMA DroppedOnly ==
    ASSUME NEW r \in Requests, CallDropped(r)
    PROVE  /\ Drop(r)
           /\ pc[r] \in Running \ {"pass", "finish"}
           /\ executed' = executed \/ executed' = [executed EXCEPT ![r] = @ + 1]
  <1> USE DEF Running
  <1>1. CASE CallDroppedInOpen(r) \/ CallDroppedInClose(r) \/ CallDroppedAsleep(r) \/ CallTorn(r)
    BY <1>1 DEF CallDroppedInOpen, CallDroppedInClose, CallDroppedAsleep, CallTorn, AtNode
  <1>2. CASE CallDroppedInSend(r)
    BY <1>2 DEF CallDroppedInSend
  <1> QED  BY <1>1, <1>2 DEF CallDropped

(* What may happen to a call by itself. *)
CallSteps(r) ==
    \/ Begin(r) \/ BeginNotEncodable(r) \/ PassStart(r) \/ Proceeds(r)
    \/ StartOpen(r) \/ InitAnswered(r) \/ Serve(r) \/ ServeHalfClosed(r)
    \/ ResultStateError(r) \/ ResultRetry(r) \/ CloseClient(r) \/ Ends(r)
    \/ PassSleeps(r) \/ Wake(r) \/ Unqueue(r) \/ CallDropped(r)

(* Every step is one of these. *)
LEMMA Steps ==
    ASSUME [AioNext]_vars
    PROVE  \/ \E r \in Requests : CallSteps(r)
           \/ Elsewhere \/ (\E n : Wakes(n)) \/ Tick \/ UNCHANGED vars
  <1> USE DEF CallSteps
  <1>1. CASE \E r \in Requests : CallOwnStep(r) \/ PeerStep(r)
    BY <1>1 DEF CallOwnStep, PeerStep, Proceeds, Ends
  <1>2. CASE OpenStart \/ OpenStep \/ CloseStart \/ CloseStep
    BY <1>2 DEF OpenStep, CloseStep, Elsewhere, Wakes
  <1>3. CASE \/ \E n \in Nodes : Lose(n) \/ GoDown(n) \/ ComeUp(n)
             \/ \E n \in Nodes \cup {NoNode} : Elect(n)
    BY <1>3 DEF Elsewhere, Wakes
  <1>4. CASE DropStep
    BY <1>4 DEF DropStep, Elsewhere, Wakes
  <1>5. CASE \E r \in Requests : Begin(r) \/ BeginNotEncodable(r) \/ OpenRefused(r)
    BY <1>5 DEF Proceeds
  <1> QED
    BY <1>1, <1>2, <1>3, <1>4, <1>5, AioSteps DEF Next

---------------------------------------------------------------------------
(* The parts of TypeOK: what a call shows its caller, its place in a pass, *)
(* its times, and the clients, nodes and users.                            *)
CallType ==
    /\ pc \in [Requests -> Running \cup {"idle", "done"}]
    /\ outcome \in [Requests -> Answers \cup OpenErrors \cup {"none", "LockData"}]
    /\ answer \in [Requests -> Answers \cup {"none"}]
    /\ lastError \in [Requests -> Retryable \cup OpenErrors \cup {"none"}]
    /\ stateError \in [Requests -> BOOLEAN]
    /\ executed \in [Requests -> Nat]
    /\ garbled \subseteq Requests

(* The places at which a call is busy with a client. *)
Busy == {"resolve", "connect", "init", "send", "lock", "write", "wait", "close"}

PlaceType ==
    /\ start \in [Requests -> Nodes]
    /\ offset \in [Requests -> 0 .. N]
    /\ tried \in [Requests -> SUBSET Nodes]
    /\ \A r \in Requests : pc[r] \in Busy => offset[r] < N

TimeType ==
    /\ now \in 0 .. MaxTime
    /\ deadline \in [Requests -> Nat]
    /\ until \in [Requests -> Nat]
    /\ held \in [Requests -> 0 .. MaxHeld]
    /\ begun \in Nat
    /\ ticket \in [Requests -> 0 .. begun]

NetType ==
    /\ faults \in Environments
    /\ up \in [Nodes -> BOOLEAN]
    /\ leader \in Nodes \cup {NoNode}
    /\ conn \in [Nodes -> BOOLEAN]
    /\ closed \in [Nodes -> BOOLEAN]
    /\ initLeader \in [Nodes -> BOOLEAN]
    /\ orphan \in [Nodes -> {"none", "alive", "gone"}]
    /\ torn \subseteq Nodes
    /\ active \in Nodes \cup {NoNode}
    /\ opener \in -1 .. (N + 1)
    /\ opening \in BOOLEAN
    /\ firstLive \in Nodes \cup {NoNode}
    /\ foundLeader \in Nodes \cup {NoNode}
    /\ closer \in -1 .. (N + 1)
    /\ closing \in BOOLEAN

Entry == [id : Requests, retry : RetryType]

QueueType == queue \in Seq(Entry)

Types == CallType /\ PlaceType /\ TimeType /\ NetType /\ QueueType

LEMMA TypesTypeOK == Types => TypeOK
  BY DEF Types, CallType, PlaceType, TimeType, NetType, QueueType, Entry, TypeOK

LEMMA TypesInit == Init => Types
  <1> SUFFICES ASSUME Init PROVE Types
    OBVIOUS
  <1>1. 0 \in Nodes /\ 0 \in 0 .. N /\ -1 \in -1 .. (N + 1)
    BY NAssumption DEF Nodes
  <1>2. CallType
    BY DEF Init, CallType, Running, Answers, Retryable, OpenErrors
  <1>3. PlaceType
    BY <1>1 DEF Init, PlaceType, Busy
  <1>4. TimeType
    BY TimeAssumption DEF Init, TimeType
  <1>5. NetType
    BY <1>1 DEF Init, NetType
  <1>6. QueueType
    BY DEF Init, QueueType
  <1> QED  BY <1>2, <1>3, <1>4, <1>5, <1>6 DEF Types

(* The place in a pass is a node. *)
LEMMA AtIsNode ==
    ASSUME NEW r \in Requests, start[r] \in Nodes, offset[r] \in 0 .. N
    PROVE  At(r) \in Nodes
  BY NAssumption DEF At, Nodes

(* Waking the calls of a client gives them errors. *)
LEMMA WokenType ==
    ASSUME CallType, NEW n, NEW error \in Answers
    PROVE  Woken(n, error) \in [Requests -> Answers \cup {"none"}]
  BY DEF CallType, Woken

(* What a call shows its caller keeps its type in every step. *)
LEMMA CallTypeNext == CallType /\ [AioNext]_vars => CallType'
  <1> SUFFICES ASSUME CallType, [AioNext]_vars PROVE CallType'
    OBVIOUS
  <1> USE ConnectErrorAssumption
      DEF CallType, Answers, Retryable, OpenErrors, Running, envVars, serverVars, clientVars,
          passVars, timeVars, queueVars, callVars
  <1>1. ASSUME NEW r \in Requests, Begin(r) \/ BeginNotEncodable(r) \/ PassStart(r)
               \/ StartOpen(r) \/ InitAnswered(r)
        PROVE  CallType'
    BY <1>1 DEF Begin, BeginNotEncodable, PassStart, StartOpen, InitAnswered
  <1>2. ASSUME NEW r \in Requests, Proceeds(r)
        PROVE  CallType'
    <2>1. CASE SkipNode(r) \/ OpenRefused(r)
      BY <2>1 DEF SkipNode, OpenRefused, OpenFails
    <2>2. CASE FindOpen(r) \/ Connect(r) \/ Connected(r) \/ Register(r) \/ LockWriter(r)
      BY <2>2 DEF FindOpen, Connect, Connected, Register, LockWriter
    <2>3. CASE Refused(r) \/ NotConnected(r) \/ Written(r) \/ WriteFails(r) \/ SendTimesOut(r)
      BY <2>3 DEF Refused, NotConnected, Written, WriteFails, SendTimesOut
    <2> QED  BY <1>2, <2>1, <2>2, <2>3 DEF Proceeds
  <1>3. ASSUME NEW r \in Requests, Serve(r) \/ ServeHalfClosed(r)
        PROVE  CallType'
    BY <1>3 DEF Serve, ServeHalfClosed, Answered
  <1>4. ASSUME NEW r \in Requests, ResultStateError(r) \/ ResultRetry(r)
        PROVE  CallType'
    BY <1>4 DEF ResultStateError, ResultRetry, NextNode
  <1>5. ASSUME NEW r \in Requests, CloseClient(r)
        PROVE  CallType'
    <2>1. Woken(At(r), "ClientClosed") \in [Requests -> Answers \cup {"none"}]
      BY WokenType
    <2> QED  BY <1>5, <2>1 DEF CloseClient, ClientCloses, NextNode
  <1>6. ASSUME NEW r \in Requests, Ends(r)
        PROVE  CallType'
    BY <1>6 DEF Ends, ResultOk, ResultError, PassReportsStateError, PassGivesUp, Finish
  <1>7. ASSUME NEW r \in Requests, PassSleeps(r) \/ Wake(r) \/ Unqueue(r)
        PROVE  CallType'
    <2>1. CASE PassSleeps(r) \/ Wake(r)
      BY <2>1 DEF PassSleeps, Sleep, Wake
    <2>2. CASE Unqueue(r)
      BY <2>2 DEF Unqueue, Forget
    <2> QED  BY <1>7, <2>1, <2>2
  <1>8. ASSUME NEW r \in Requests, CallDropped(r)
        PROVE  CallType'
    <2>1. Drop(r) /\ executed' \in [Requests -> Nat]
      BY <1>8, DroppedOnly
    <2> QED  BY <2>1 DEF Drop, Forget
  <1>9. ASSUME NEW n, Wakes(n)
        PROVE  CallType'
    <2>1. answer' \in [Requests -> Answers \cup {"none"}]
      BY <1>9, WakesOnly, WokenType
    <2> QED  BY <1>9, <2>1, WakesOnly
  <1>10. CASE Elsewhere \/ Tick \/ UNCHANGED vars
    BY <1>10, ElsewhereLeavesCalls DEF Tick, vars
  <1> HIDE DEF CallType
  <1> QED
    BY <1>1, <1>2, <1>3, <1>4, <1>5, <1>6, <1>7, <1>8, <1>9, <1>10, Steps DEF CallSteps

(* Calls stay at nodes, and the nodes they have tried are nodes. *)
LEMMA PlaceTypeNext == CallType /\ PlaceType /\ NetType /\ [AioNext]_vars => PlaceType'
  <1> SUFFICES ASSUME CallType, PlaceType, NetType, [AioNext]_vars PROVE PlaceType'
    OBVIOUS
  <1>0. /\ 0 \in Nodes /\ 0 \in 0 .. N
        /\ \A r \in Requests : At(r) \in Nodes
        /\ \A r \in Requests : offset[r] \in 0 .. N /\ (offset[r] < N => offset[r] + 1 \in 0 .. N)
    BY NAssumption, AtIsNode DEF Nodes, PlaceType
  <1> USE DEF PlaceType, Busy, envVars, passVars, callVars
  <1>1. ASSUME NEW r \in Requests, Begin(r) \/ BeginNotEncodable(r) \/ StartOpen(r)
               \/ InitAnswered(r) \/ Serve(r) \/ ServeHalfClosed(r) \/ ResultRetry(r)
               \/ PassSleeps(r) \/ Wake(r)
        PROVE  PlaceType'
    <2>1. UNCHANGED <<start, offset, tried>>
      BY <1>1 DEF Begin, BeginNotEncodable, StartOpen, InitAnswered, Serve, ServeHalfClosed,
                  Answered, ResultRetry, PassSleeps, Sleep, Wake
    <2>2. \A q \in Requests : pc'[q] \in Busy => pc[q] \in Busy \/ offset[q] < N
      BY <1>1 DEF Begin, BeginNotEncodable, StartOpen, AtNode, InitAnswered, Serve,
                  ServeHalfClosed, Answered, ResultRetry, PassSleeps, Sleep, Wake, CallType
    <2> QED  BY <2>1, <2>2
  <1>2. ASSUME NEW r \in Requests, PassStart(r)
        PROVE  PlaceType'
    BY <1>0, <1>2 DEF PassStart, CallType, NetType, NoNode
  <1>3. ASSUME NEW r \in Requests, Proceeds(r)
        PROVE  PlaceType'
    <2>1. CASE SkipNode(r) \/ OpenRefused(r)
      <3>1. offset[r] < N /\ \E error : OpenFails(r, error)
        BY <2>1 DEF SkipNode, OpenRefused
      <3>2. start' = start
        BY <2>1 DEF SkipNode, OpenRefused
      <3>3. offset' \in [Requests -> 0 .. N] /\ tried' \in [Requests -> SUBSET Nodes]
        BY <1>0, <3>1 DEF OpenFails
      <3>4. \A q \in Requests : pc'[q] \in Busy => offset'[q] < N
        BY <3>1 DEF OpenFails, CallType
      <3> QED  BY <3>2, <3>3, <3>4
    <2>2. CASE \/ FindOpen(r) \/ Connect(r) \/ Connected(r) \/ Register(r) \/ LockWriter(r)
               \/ Refused(r) \/ NotConnected(r) \/ Written(r) \/ WriteFails(r)
               \/ SendTimesOut(r)
      <3>1. UNCHANGED <<start, offset, tried>>
        BY <2>2 DEF FindOpen, Connect, Connected, Register, LockWriter, Refused, NotConnected,
                    Written, WriteFails, SendTimesOut
      <3>2. \A q \in Requests : pc'[q] \in Busy => pc[q] \in Busy \/ offset[q] < N
        BY <2>2 DEF FindOpen, AtNode, Connect, Connected, Register, LockWriter, Refused,
                    NotConnected, Written, WriteFails, SendTimesOut, CallType
      <3> QED  BY <3>1, <3>2
    <2> QED  BY <1>3, <2>1, <2>2 DEF Proceeds
  <1>4. ASSUME NEW r \in Requests, ResultStateError(r) \/ CloseClient(r)
        PROVE  PlaceType'
    <2>1. NextNode(r) /\ offset[r] < N
      BY <1>4 DEF ResultStateError, CloseClient
    <2>2. offset' \in [Requests -> 0 .. N] /\ tried' \in [Requests -> SUBSET Nodes]
      BY <1>0, <2>1 DEF NextNode
    <2>3. start' = start /\ \A q \in Requests : pc'[q] \in Busy => offset'[q] < N
      BY <2>1 DEF NextNode, CallType
    <2> QED  BY <2>2, <2>3
  <1>5. ASSUME NEW r \in Requests, Ends(r)
        PROVE  PlaceType'
    <2>1. UNCHANGED <<start, offset, tried>> /\ pc' = [pc EXCEPT ![r] = "finish"]
      BY <1>5 DEF Ends, ResultOk, ResultError, PassReportsStateError, PassGivesUp, Finish
    <2> QED  BY <2>1 DEF CallType
  <1>6. ASSUME NEW r \in Requests, Unqueue(r) \/ CallDropped(r)
        PROVE  PlaceType'
    <2>1. Forget(r)
      BY <1>6, DroppedOnly DEF Unqueue, Drop
    <2> QED  BY <1>0, <2>1 DEF Forget, CallType
  <1>7. CASE Elsewhere \/ (\E n : Wakes(n)) \/ Tick \/ UNCHANGED vars
    <2>1. UNCHANGED <<pc, start, offset, tried>>
      BY <1>7, ElsewhereLeavesCalls, WakesOnly DEF Tick, vars
    <2> QED  BY <2>1
  <1> HIDE DEF PlaceType
  <1> QED
    BY <1>1, <1>2, <1>3, <1>4, <1>5, <1>6, <1>7, Steps DEF CallSteps

(* No clock runs over, and only waits count as held. *)
LEMMA TimeTypeNext == CallType /\ TimeType /\ [AioNext]_vars => TimeType'
  <1> SUFFICES ASSUME CallType, TimeType, [AioNext]_vars PROVE TimeType'
    OBVIOUS
  <1>0. 0 \in 0 .. MaxHeld /\ \A r \in Requests : Budget[r] \in Nat
    BY TimeAssumption
  <1> USE TimeAssumption DEF TimeType, envVars, timeVars, queueVars, callVars
  <1>1. ASSUME NEW r \in Requests, Begin(r)
        PROVE  TimeType'
    <2>1. deadline' \in [Requests -> Nat]
      BY <1>0, <1>1 DEF Begin
    <2>2. begun' \in Nat /\ ticket' \in [Requests -> 0 .. begun']
      BY <1>1 DEF Begin
    <2> QED  BY <1>1, <2>1, <2>2 DEF Begin
  <1>2. ASSUME NEW r \in Requests, PassStart(r) \/ Unqueue(r) \/ CallDropped(r)
        PROVE  TimeType'
    <2>1. UNCHANGED <<now, begun, ticket>>
      BY <1>2, DroppedOnly DEF PassStart, Unqueue, Drop
    <2>2. /\ deadline' \in [Requests -> Nat] /\ until' \in [Requests -> Nat]
          /\ held' \in [Requests -> 0 .. MaxHeld]
      BY <1>0, <1>2, DroppedOnly DEF PassStart, Unqueue, Drop, Forget
    <2> QED  BY <2>1, <2>2
  <1>3. ASSUME NEW r \in Requests, Proceeds(r)
        PROVE  TimeType'
    <2>1. UNCHANGED <<now, begun, ticket, deadline, held>>
      BY <1>3 DEF Proceeds, FindOpen, Connect, Connected, SkipNode, OpenRefused, Refused, Register,
                  LockWriter, NotConnected, Written, WriteFails, SendTimesOut
    <2>2. until' \in [Requests -> Nat]
      <3>1. now + ConnectTimeout \in Nat /\ now + Budget[r] \in Nat /\ 0 \in Nat
        BY <1>0
      <3>2. \/ until' = until
            \/ \E t \in {0, now + ConnectTimeout, now + Budget[r]} : until' = [until EXCEPT ![r] = t]
        BY <1>3 DEF Proceeds, FindOpen, Connect, Connected, SkipNode, OpenRefused, OpenFails,
                    Refused, Register, LockWriter, NotConnected, Written, WriteFails, SendTimesOut
      <3> QED  BY <3>1, <3>2
    <2> QED  BY <2>1, <2>2
  <1>4. ASSUME NEW r \in Requests, BeginNotEncodable(r) \/ StartOpen(r) \/ InitAnswered(r)
               \/ Serve(r) \/ ServeHalfClosed(r)
        PROVE  TimeType'
    BY <1>4 DEF BeginNotEncodable, StartOpen, InitAnswered, Serve, ServeHalfClosed, Answered
  <1>5. ASSUME NEW r \in Requests,
               ResultStateError(r) \/ ResultRetry(r) \/ CloseClient(r) \/ Ends(r) \/ Wake(r)
        PROVE  TimeType'
    BY <1>5 DEF ResultStateError, ResultRetry, CloseClient, NextNode, Ends, ResultOk, ResultError,
                PassReportsStateError, PassGivesUp, Finish, Wake
  <1>6. ASSUME NEW r \in Requests, PassSleeps(r)
        PROVE  TimeType'
    BY <1>6 DEF PassSleeps, Sleep
  <1>7. CASE Tick
    <2>1. now' \in 0 .. MaxTime
      BY <1>7 DEF Tick
    <2>2. \A r \in Requests : Held(r) => held[r] < MaxHeld
      BY <1>7 DEF Tick, Timed, Held, AtNode, CallType, Running
    <2>3. held' \in [Requests -> 0 .. MaxHeld]
      BY <1>7, <2>2 DEF Tick
    <2> QED  BY <1>7, <2>1, <2>3 DEF Tick
  <1>8. CASE Elsewhere \/ (\E n : Wakes(n)) \/ UNCHANGED vars
    <2>1. UNCHANGED <<now, timeVars, begun, ticket>>
      BY <1>8, ElsewhereLeavesCalls, WakesOnly DEF vars
    <2> QED  BY <2>1
  <1> HIDE DEF TimeType
  <1> QED
    BY <1>1, <1>2, <1>3, <1>4, <1>5, <1>6, <1>7, <1>8, Steps DEF CallSteps

(* What a step may do to the clients of the nodes. *)
ClientStep ==
    \/ UNCHANGED clientVars
    \/ \E n \in Nodes : \/ ClientResets(n) \/ ClientInstalls(n) \/ ClientMarks(n)
                        \/ ClientCloses(n) \/ OpenHalfWay(n) \/ CloseHalfWay(n)
    \/ \E n \in Nodes : Lose(n) \/ OrphanHangUp(n)
    \/ \E r \in Requests : CallTorn(r)

LEMMA ClientSteps ==
    ASSUME PlaceType, NetType, [AioNext]_vars
    PROVE  ClientStep
  <1>0. \A r \in Requests : At(r) \in Nodes
    BY AtIsNode DEF PlaceType
  <1> USE DEF ClientStep, envVars
  <1>1. ASSUME NEW r \in Requests, Begin(r) \/ BeginNotEncodable(r) \/ PassStart(r) \/ Proceeds(r)
        PROVE  UNCHANGED clientVars
    BY <1>1 DEF Begin, BeginNotEncodable, PassStart, Proceeds, FindOpen, Connect, Connected,
                SkipNode, OpenRefused, Refused, Register, LockWriter, NotConnected, Written,
                WriteFails, SendTimesOut
  <1>2. ASSUME NEW r \in Requests, \/ Serve(r) \/ ServeHalfClosed(r) \/ ResultStateError(r)
               \/ Ends(r) \/ PassSleeps(r) \/ Wake(r) \/ Unqueue(r)
        PROVE  UNCHANGED clientVars
    BY <1>2 DEF Serve, ServeHalfClosed, Answered, ResultStateError, Ends, ResultOk, ResultError,
                PassReportsStateError, PassGivesUp, Finish, PassSleeps, Sleep, Wake, Unqueue
  <1>3. ASSUME NEW r \in Requests,
               StartOpen(r) \/ InitAnswered(r) \/ ResultRetry(r) \/ CloseClient(r)
        PROVE  ClientStep
    BY <1>0, <1>3 DEF StartOpen, InitAnswered, ResultRetry, CloseClient
  <1>4. ASSUME NEW r \in Requests, CallDropped(r)
        PROVE  ClientStep
    BY <1>0, <1>4 DEF CallDropped, CallDroppedInOpen, CallDroppedInSend, CallDroppedInClose,
                      CallDroppedAsleep
  <1>5. CASE Elsewhere
    BY <1>5 DEF Elsewhere, OpenStart, OpenConnects, OpenNode, OpenSkipsNode, OpenEnd, CloseStart,
                CloseMarks, CloseEnd, OpenDropped, CloseDropped, GoDown, ComeUp, Elect
  <1>6. ASSUME NEW n, Wakes(n)
        PROVE  ClientStep
    BY <1>6 DEF Wakes, CloseNode, HangUp
  <1>7. CASE Tick \/ UNCHANGED vars
    BY <1>7 DEF Tick, vars
  <1> QED
    BY <1>1, <1>2, <1>3, <1>4, <1>5, <1>6, <1>7, Steps DEF CallSteps


(* What a step may do to the nodes, the active index and the users. *)
NetStep ==
    \/ UNCHANGED <<up, leader, active, openVars, closeVars>>
    \/ Elsewhere
    \/ \E n \in Nodes : Lose(n)
    \/ \E r \in Requests : ResultOk(r)
    \/ CloseNode

LEMMA NetSteps ==
    ASSUME [AioNext]_vars
    PROVE  NetStep
  <1> USE DEF envVars, serverVars
  <1>1. ASSUME NEW r \in Requests, \/ Begin(r) \/ BeginNotEncodable(r) \/ PassStart(r)
               \/ Proceeds(r) \/ StartOpen(r) \/ InitAnswered(r)
        PROVE  UNCHANGED <<up, leader, active, openVars, closeVars>>
    BY <1>1 DEF Begin, BeginNotEncodable, PassStart, Proceeds, FindOpen, Connect, Connected,
                SkipNode, OpenRefused, Refused, Register, LockWriter, NotConnected, Written,
                WriteFails, SendTimesOut, StartOpen, InitAnswered
  <1>2. ASSUME NEW r \in Requests,
               \/ Serve(r) \/ ServeHalfClosed(r) \/ ResultStateError(r) \/ ResultRetry(r)
               \/ CloseClient(r) \/ PassSleeps(r) \/ Wake(r) \/ Unqueue(r) \/ CallDropped(r)
               \/ ResultError(r) \/ PassReportsStateError(r) \/ PassGivesUp(r)
        PROVE  UNCHANGED <<up, leader, active, openVars, closeVars>>
    BY <1>2, DroppedOnly DEF Serve, ServeHalfClosed, Answered, ResultStateError, ResultRetry,
                CloseClient, NextNode, PassSleeps, Sleep, Wake, Unqueue, Drop, ResultError,
                PassReportsStateError, PassGivesUp, Finish
  <1>3. ASSUME NEW n, Wakes(n)
        PROVE  NetStep
    BY <1>3 DEF Wakes, NetStep, OrphanHangUp, HangUp
  <1>4. CASE Tick \/ UNCHANGED vars
    BY <1>4 DEF Tick, vars, NetStep
  <1> QED
    BY <1>1, <1>2, <1>3, <1>4, Steps DEF CallSteps, NetStep, Ends

(* What may happen in a behaviour is settled when it begins. *)
LEMMA FaultsStay == [AioNext]_vars => faults' = faults
  <1> SUFFICES ASSUME [AioNext]_vars PROVE faults' = faults
    OBVIOUS
  <1> USE DEF envVars
  <1>1. ASSUME NEW r \in Requests, \/ Begin(r) \/ BeginNotEncodable(r) \/ PassStart(r)
               \/ Proceeds(r) \/ StartOpen(r) \/ InitAnswered(r)
        PROVE  faults' = faults
    BY <1>1 DEF Begin, BeginNotEncodable, PassStart, Proceeds, FindOpen, Connect, Connected,
                SkipNode, OpenRefused, Refused, Register, LockWriter, NotConnected, Written,
                WriteFails, SendTimesOut, StartOpen, InitAnswered
  <1>2. ASSUME NEW r \in Requests,
               \/ Serve(r) \/ ServeHalfClosed(r) \/ ResultStateError(r) \/ ResultRetry(r)
               \/ CloseClient(r) \/ PassSleeps(r) \/ Wake(r) \/ Unqueue(r) \/ CallDropped(r)
               \/ Ends(r)
        PROVE  faults' = faults
    BY <1>2, DroppedOnly DEF Serve, ServeHalfClosed, Answered, ResultStateError, ResultRetry,
                CloseClient, NextNode, PassSleeps, Sleep, Wake, Unqueue, Drop, Ends, ResultOk,
                ResultError, PassReportsStateError, PassGivesUp, Finish
  <1>3. CASE Elsewhere \/ (\E n : Wakes(n)) \/ Tick \/ UNCHANGED vars
    BY <1>3, ElsewhereLeavesCalls, WakesOnly DEF Tick, vars
  <1> QED  BY <1>1, <1>2, <1>3, Steps DEF CallSteps

(* The clients, the nodes and the users keep their types. *)
LEMMA NetTypeNext == PlaceType /\ NetType /\ [AioNext]_vars => NetType'
  <1> SUFFICES ASSUME PlaceType, NetType, [AioNext]_vars PROVE NetType'
    OBVIOUS
  <1>0. \A r \in Requests : At(r) \in Nodes
    BY AtIsNode DEF PlaceType
  <1>1. /\ conn' \in [Nodes -> BOOLEAN]
        /\ closed' \in [Nodes -> BOOLEAN]
        /\ initLeader' \in [Nodes -> BOOLEAN]
        /\ orphan' \in [Nodes -> {"none", "alive", "gone"}]
        /\ torn' \subseteq Nodes
    <2> USE DEF NetType
    <2>1. CASE UNCHANGED clientVars
      BY <2>1 DEF clientVars
    <2>2. ASSUME NEW n \in Nodes, ClientResets(n) \/ ClientInstalls(n)
          PROVE  <1>1!:
      BY <2>2 DEF ClientResets, ClientInstalls
    <2>3. ASSUME NEW n \in Nodes,
                 ClientMarks(n) \/ ClientCloses(n) \/ OpenHalfWay(n) \/ CloseHalfWay(n)
          PROVE  <1>1!:
      BY <2>3 DEF ClientMarks, ClientCloses, OpenHalfWay, CloseHalfWay
    <2>4. ASSUME NEW n \in Nodes, Lose(n) \/ OrphanHangUp(n)
          PROVE  <1>1!:
      BY <2>4 DEF Lose, OrphanHangUp, clientVars
    <2>5. ASSUME NEW r \in Requests, CallTorn(r)
          PROVE  <1>1!:
      BY <1>0, <2>5 DEF CallTorn
    <2> QED  BY <2>1, <2>2, <2>3, <2>4, <2>5, ClientSteps DEF ClientStep
  <1>2. /\ up' \in [Nodes -> BOOLEAN]
        /\ leader' \in Nodes \cup {NoNode}
        /\ active' \in Nodes \cup {NoNode}
        /\ opener' \in -1 .. (N + 1)
        /\ opening' \in BOOLEAN
        /\ firstLive' \in Nodes \cup {NoNode}
        /\ foundLeader' \in Nodes \cup {NoNode}
        /\ closer' \in -1 .. (N + 1)
        /\ closing' \in BOOLEAN
    <2>0. /\ 0 \in -1 .. (N + 1) /\ N + 1 \in -1 .. (N + 1)
          /\ \A n \in Nodes : n + 1 \in -1 .. (N + 1)
      BY NAssumption DEF Nodes
    <2> USE DEF NetType, openVars, closeVars, serverVars
    <2>1. CASE UNCHANGED <<up, leader, active, openVars, closeVars>>
      BY <2>1
    <2>2. CASE OpenStart \/ OpenConnects \/ OpenSkipsNode \/ OpenEnd \/ OpenDropped
      BY <2>0, <2>2 DEF OpenStart, OpenConnects, OpenSkipsNode, OpenEnd, OpenDropped
    <2>3. CASE OpenNode
      BY <2>0, <2>3 DEF OpenNode
    <2>4. CASE CloseStart \/ CloseMarks \/ CloseEnd \/ CloseDropped \/ CloseNode
      BY <2>0, <2>4 DEF CloseStart, CloseMarks, CloseEnd, CloseDropped, CloseNode
    <2>5. ASSUME NEW n \in Nodes, Lose(n) \/ GoDown(n) \/ ComeUp(n)
          PROVE  <1>2!:
      BY <2>5 DEF Lose, GoDown, ComeUp
    <2>6. ASSUME NEW n \in Nodes \cup {NoNode}, Elect(n)
          PROVE  <1>2!:
      BY <2>6 DEF Elect
    <2>7. ASSUME NEW r \in Requests, ResultOk(r)
          PROVE  <1>2!:
      BY <1>0, <2>7 DEF ResultOk, Finish, envVars
    <2> QED
      BY <2>1, <2>2, <2>3, <2>4, <2>5, <2>6, <2>7, NetSteps DEF NetStep, Elsewhere
  <1>3. faults' \in Environments
    BY FaultsStay DEF NetType
  <1> QED  BY <1>1, <1>2, <1>3 DEF NetType

(* Marking an entry with a retry type keeps the entries and their ids. *)
LEMMA SetRetryFacts ==
    ASSUME QueueType, NEW r \in Requests, NEW retry \in RetryType, SetRetry(r, retry)
    PROVE  /\ QueueType'
           /\ DOMAIN queue' = DOMAIN queue
           /\ \A i \in DOMAIN queue :
                /\ queue'[i].id = queue[i].id
                /\ queue'[i].retry = IF queue[i].id = r THEN retry ELSE queue[i].retry
  <1>1. Len(queue) \in Nat /\ DOMAIN queue = 1 .. Len(queue)
        /\ \A i \in 1 .. Len(queue) : queue[i] \in Entry
    BY DEF QueueType
  <1>2. queue' = [i \in 1 .. Len(queue) |->
                    IF queue[i].id = r THEN [queue[i] EXCEPT !.retry = retry] ELSE queue[i]]
    BY <1>1 DEF SetRetry
  <1>3. \A i \in 1 .. Len(queue) :
          /\ queue'[i] \in Entry
          /\ queue'[i].id = queue[i].id
          /\ queue'[i].retry = IF queue[i].id = r THEN retry ELSE queue[i].retry
    BY <1>1, <1>2 DEF Entry
  <1>4. queue' \in Seq(Entry)
    BY <1>1, <1>2, <1>3
  <1> QED  BY <1>1, <1>2, <1>3, <1>4 DEF QueueType

(* The steps that do something to the queue; only the first does anything  *)
(* to the tickets.                                                         *)
QueueStep(r) ==
    \/ Begin(r)
    \/ Unqueue(r)
    \/ ResultStateError(r) \/ CloseClient(r) \/ PassSleeps(r) \/ Wake(r)

LEMMA QueueSteps ==
    ASSUME [AioNext]_vars
    PROVE  (\E r \in Requests : QueueStep(r)) \/ UNCHANGED queueVars
  <1> USE DEF QueueStep
  <1>1. ASSUME NEW r \in Requests, \/ BeginNotEncodable(r) \/ PassStart(r)
               \/ Proceeds(r) \/ StartOpen(r) \/ InitAnswered(r)
        PROVE  UNCHANGED queueVars
    BY <1>1 DEF BeginNotEncodable, PassStart, Proceeds, FindOpen, Connect, Connected,
                SkipNode, OpenRefused, Refused, Register, LockWriter, NotConnected, Written,
                WriteFails, SendTimesOut, StartOpen, InitAnswered
  <1>2. ASSUME NEW r \in Requests, \/ Serve(r) \/ ServeHalfClosed(r) \/ ResultRetry(r)
               \/ Ends(r) \/ CallDropped(r)
        PROVE  UNCHANGED queueVars
    BY <1>2, DroppedOnly DEF Serve, ServeHalfClosed, Answered, ResultRetry, Ends, ResultOk,
                ResultError, PassReportsStateError, PassGivesUp, Finish, Drop
  <1>3. CASE Elsewhere \/ (\E n : Wakes(n)) \/ Tick \/ UNCHANGED vars
    BY <1>3, ElsewhereLeavesCalls, WakesOnly DEF Tick, vars, callVars
  <1> QED
    BY <1>1, <1>2, <1>3, Steps DEF CallSteps

(* The queue of the running calls is a queue of entries in every step. *)
LEMMA QueueTypeNext == QueueType /\ [AioNext]_vars => QueueType'
  <1> SUFFICES ASSUME QueueType, [AioNext]_vars PROVE QueueType'
    OBVIOUS
  <1>1. ASSUME NEW r \in Requests, Begin(r)
        PROVE  QueueType'
    <2>1. [id |-> r, retry |-> "Origin"] \in Entry
      BY DEF Entry, RetryType
    <2> QED  BY <1>1, <2>1 DEF Begin, QueueType
  <1>2. ASSUME NEW r \in Requests,
               ResultStateError(r) \/ CloseClient(r) \/ PassSleeps(r) \/ Wake(r)
        PROVE  QueueType'
    <2>1. \E retry \in RetryType : SetRetry(r, retry)
      BY <1>2 DEF ResultStateError, CloseClient, NextNode, PassSleeps, Sleep, Wake, RetryType
    <2> QED  BY <2>1, SetRetryFacts
  <1>3. ASSUME NEW r \in Requests, Unqueue(r)
        PROVE  QueueType'
    BY <1>3, WithoutFacts DEF Unqueue, QueueType
  <1>4. CASE UNCHANGED queueVars
    BY <1>4 DEF queueVars, QueueType
  <1> QED  BY <1>1, <1>2, <1>3, <1>4, QueueSteps DEF QueueStep

LEMMA TypesNext == Types /\ [AioNext]_vars => Types'
  BY CallTypeNext, PlaceTypeNext, TimeTypeNext, NetTypeNext, QueueTypeNext DEF Types

(* Every variable keeps its type, for any number of nodes and calls: the   *)
(* position in a pass is that of a node, the queue holds entries of calls, *)
(* no clock runs over (send_pending_command, 303-355).                     *)
THEOREM TypeCorrect == Spec => []TypeOK
  BY TypesInit, TypesNext, TypesTypeOK, AioSteps, PTL DEF Spec

(* Every variable of the aio replica set keeps its type as well, wherever  *)
(* calls, opens and closes are dropped (aio send_pending_command,          *)
(* 302-354).                                                               *)
THEOREM AioReplsetTypeCorrect == AioSpec => []TypeOK
  BY TypesInit, TypesNext, TypesTypeOK, PTL DEF AioSpec

---------------------------------------------------------------------------
(* How far a call may run on behind its deadline, by where it is in a pass *)

(* A step of a call leaves place, times and results of the others alone;   *)
(* the close of a client may wake them.                                    *)
Same(q) ==
    /\ pc'[q] = pc[q] /\ start'[q] = start[q] /\ offset'[q] = offset[q] /\ tried'[q] = tried[q]
    /\ deadline'[q] = deadline[q] /\ until'[q] = until[q] /\ held'[q] = held[q]
    /\ outcome'[q] = outcome[q]
    /\ executed'[q] = executed[q]

LEMMA OthersSame ==
    ASSUME CallType, PlaceType, TimeType, NEW r \in Requests, CallSteps(r),
           NEW q \in Requests \ {r}
    PROVE  /\ Same(q) /\ now' = now
           /\ answer'[q] = answer[q] \/ (CloseClient(r) /\ answer'[q] = "ClientClosed")
  <1> USE DEF Same, CallType, PlaceType, TimeType, envVars, serverVars, clientVars, passVars,
              timeVars, queueVars
  <1>1. CASE Begin(r) \/ BeginNotEncodable(r) \/ PassStart(r) \/ StartOpen(r) \/ InitAnswered(r)
    BY <1>1 DEF Begin, BeginNotEncodable, PassStart, StartOpen, InitAnswered
  <1>2. CASE Proceeds(r)
    <2>1. CASE SkipNode(r) \/ OpenRefused(r)
      BY <2>1 DEF SkipNode, OpenRefused, OpenFails
    <2>2. CASE FindOpen(r) \/ Connect(r) \/ Connected(r) \/ Register(r) \/ LockWriter(r)
      BY <2>2 DEF FindOpen, Connect, Connected, Register, LockWriter
    <2>3. CASE Refused(r) \/ NotConnected(r) \/ Written(r) \/ WriteFails(r) \/ SendTimesOut(r)
      BY <2>3 DEF Refused, NotConnected, Written, WriteFails, SendTimesOut
    <2> QED  BY <1>2, <2>1, <2>2, <2>3 DEF Proceeds
  <1>3. CASE Serve(r) \/ ServeHalfClosed(r) \/ ResultStateError(r) \/ ResultRetry(r)
    BY <1>3 DEF Serve, ServeHalfClosed, Answered, ResultStateError, ResultRetry, NextNode
  <1>4. CASE CloseClient(r)
    BY <1>4 DEF CloseClient, ClientCloses, Woken, NextNode
  <1>5. CASE Ends(r)
    BY <1>5 DEF Ends, ResultOk, ResultError, PassReportsStateError, PassGivesUp, Finish
  <1>6. CASE PassSleeps(r) \/ Wake(r) \/ Unqueue(r)
    BY <1>6 DEF PassSleeps, Sleep, Wake, Unqueue, Forget
  <1>7. CASE CallDropped(r)
    <2>1. Drop(r) /\ executed'[q] = executed[q]
      BY <1>7, DroppedOnly
    <2> QED  BY <2>1 DEF Drop, Forget
  <1> QED  BY <1>1, <1>2, <1>3, <1>4, <1>5, <1>6, <1>7 DEF CallSteps

(* What k nodes may take that use up both timeouts of a call. *)
Waits(r, k) == (ConnectTimeout + Budget[r]) * k

LEMMA WaitsUp ==
    ASSUME NEW r \in Requests, NEW k \in 0 .. N
    PROVE  /\ Waits(r, k) \in Nat /\ Budget[r] \in Nat /\ ConnectTimeout \in Nat
           /\ Waits(r, k) <= Waits(r, N)
           /\ k < N => /\ Waits(r, k + 1) = Waits(r, k) + ConnectTimeout + Budget[r]
                       /\ Waits(r, k + 1) <= Waits(r, N)
  <1> DEFINE B == ConnectTimeout + Budget[r]
  <1> USE NAssumption, TimeAssumption
  <1>0. B \in Nat /\ Budget[r] \in Nat
    OBVIOUS
  <1> HIDE DEF B
  <1>1. B * k \in Nat /\ B * (k + 1) = B * k + B
    BY <1>0
  <1>2. ASSUME NEW i \in Nat, i <= N
        PROVE  B * i <= B * N
    <2>1. B * (N - i) \in Nat /\ B * N = B * i + B * (N - i)
      BY <1>0, <1>2
    <2>2. B * i \in Nat /\ B * N \in Nat
      BY <1>0, <1>2
    <2> QED BY <2>1, <2>2
  <1>3. k < N => B * (k + 1) <= B * N
    BY <1>2
  <1>4. B * k <= B * N
    BY <1>2
  <1>5. \A i \in Nat : Waits(r, i) = B * i
    BY DEF B, Waits
  <1> QED
    BY <1>0, <1>1, <1>3, <1>4, <1>5 DEF B

(* The latest a call can be at the k-th node of its pass. *)
Latest(r, k) == deadline[r] + Waits(r, k) + held[r]

(* A pass begins by the deadline; at its k-th node at most what k nodes    *)
(* take has gone by, and the clock does not pass the end of a connect, a   *)
(* wait or a sleep.                                                        *)
Timely(r) ==
    /\ pc[r] = "pass" => now <= deadline[r]
    /\ pc[r] \in {"open", "resolve"} => now <= Latest(r, offset[r])
    /\ pc[r] = "connect" =>
        now <= until[r] /\ until[r] <= Latest(r, offset[r]) + ConnectTimeout
    /\ pc[r] \in {"init", "send", "lock", "write"} =>
        now <= Latest(r, offset[r]) + ConnectTimeout
    /\ pc[r] \in {"wait", "close"} => now <= Latest(r, offset[r] + 1)
    /\ pc[r] = "wait" /\ answer[r] = "none" => until[r] <= Latest(r, offset[r] + 1)
    /\ pc[r] = "sleep" => now <= until[r] /\ until[r] <= deadline[r]
    /\ pc[r] = "finish" => now <= Latest(r, N)

TimeInv == Types /\ \A r \in Requests : Timely(r)

(* What the bounds of a call add up to. *)
LEMMA LatestFacts ==
    ASSUME Types, NEW r \in Requests
    PROVE  /\ now \in Nat /\ deadline[r] \in Nat /\ until[r] \in Nat /\ held[r] \in Nat
           /\ offset[r] \in 0 .. N /\ (pc[r] \in Busy => offset[r] < N)
           /\ ConnectTimeout \in Nat /\ Budget[r] \in Nat
           /\ Latest(r, offset[r]) \in Nat /\ Latest(r, N) \in Nat
           /\ deadline[r] + held[r] <= Latest(r, offset[r])
           /\ Latest(r, offset[r]) <= Latest(r, N)
           /\ offset[r] < N =>
                /\ Latest(r, offset[r] + 1) = Latest(r, offset[r]) + ConnectTimeout + Budget[r]
                /\ Latest(r, offset[r] + 1) <= Latest(r, N)
  <1>1. /\ now \in Nat /\ deadline[r] \in Nat /\ until[r] \in Nat /\ held[r] \in Nat
        /\ offset[r] \in 0 .. N /\ (pc[r] \in Busy => offset[r] < N)
    BY TimeAssumption DEF Types, TimeType, PlaceType
  <1>2. N \in 0 .. N
    BY NAssumption
  <1>3. /\ Waits(r, offset[r]) \in Nat /\ Waits(r, N) \in Nat
        /\ Budget[r] \in Nat /\ ConnectTimeout \in Nat
        /\ Waits(r, offset[r]) <= Waits(r, N)
        /\ offset[r] < N =>
             /\ Waits(r, offset[r] + 1) = Waits(r, offset[r]) + ConnectTimeout + Budget[r]
             /\ Waits(r, offset[r] + 1) <= Waits(r, N)
    BY <1>1, <1>2, WaitsUp
  <1> HIDE DEF Waits
  <1> QED  BY <1>1, <1>3 DEF Latest

LEMMA TimelyBounds ==
    ASSUME TimeInv
    PROVE  OverrunBounded
  <1>0. \A r \in Requests : pc[r] = "pass" => now <= deadline[r]
    BY DEF TimeInv, Timely
  <1> SUFFICES ASSUME NEW r \in Requests, pc[r] \in Running
               PROVE  now <= Latest(r, N)
    <2>1. Types
      BY DEF TimeInv
    <2>2. \A r \in Requests :
            Latest(r, N) = deadline[r] + (ConnectTimeout + Budget[r]) * N + held[r]
      BY DEF Latest, Waits
    <2> QED  BY <1>0, <2>2, Zenon DEF OverrunBounded
  <1>1. Types /\ Timely(r)
    BY DEF TimeInv
  <1> QED
    BY <1>1, LatestFacts DEF Timely, Running, Busy

(* The times of a call that goes on. *)
LEMMA TimelyStep ==
    ASSUME TimeInv, NEW r \in Requests, CallSteps(r)
    PROVE  Timely(r)'
  <1>1. Types /\ Timely(r)
    BY DEF TimeInv
  <1>2. /\ now \in Nat /\ deadline[r] \in Nat /\ until[r] \in Nat /\ held[r] \in Nat
        /\ offset[r] \in 0 .. N /\ (pc[r] \in Busy => offset[r] < N)
        /\ ConnectTimeout \in Nat /\ Budget[r] \in Nat
        /\ Latest(r, offset[r]) \in Nat /\ Latest(r, N) \in Nat
        /\ deadline[r] + held[r] <= Latest(r, offset[r])
        /\ Latest(r, offset[r]) <= Latest(r, N)
        /\ offset[r] < N =>
             /\ Latest(r, offset[r] + 1) = Latest(r, offset[r]) + ConnectTimeout + Budget[r]
             /\ Latest(r, offset[r] + 1) <= Latest(r, N)
    BY <1>1, LatestFacts
  <1>3. /\ pc \in [Requests -> Running \cup {"idle", "done"}]
        /\ answer \in [Requests -> Answers \cup {"none"}]
        /\ offset \in [Requests -> 0 .. N]
        /\ deadline \in [Requests -> Nat] /\ until \in [Requests -> Nat]
        /\ held \in [Requests -> 0 .. MaxHeld]
    BY <1>1 DEF Types, CallType, PlaceType, TimeType
  <1> USE DEF Latest, Timely, Busy, envVars, passVars, timeVars
  <1>4. CASE Begin(r)
    BY <1>2, <1>3, <1>4 DEF Begin
  <1>5. CASE BeginNotEncodable(r) \/ Unqueue(r) \/ CallDropped(r)
    <2>1. pc'[r] = "done"
      BY <1>3, <1>5, DroppedOnly DEF BeginNotEncodable, Unqueue, Drop, Forget
    <2> QED  BY <2>1
  <1>6. CASE PassStart(r)
    <2>1. Waits(r, 0) = 0
      BY <1>2 DEF Waits
    <2> QED  BY <1>1, <1>2, <1>3, <1>6, <2>1 DEF PassStart
  <1>7. CASE Proceeds(r)
    <2>1. CASE FindOpen(r) \/ Connect(r) \/ Connected(r)
      BY <1>1, <1>2, <1>3, <2>1 DEF FindOpen, AtNode, Connect, Connected
    <2>2. CASE Register(r) \/ LockWriter(r) \/ Written(r)
      BY <1>1, <1>2, <1>3, <2>2 DEF Register, LockWriter, Written
    <2>3. CASE SkipNode(r) \/ OpenRefused(r)
      BY <1>1, <1>2, <1>3, <2>3 DEF SkipNode, OpenRefused, OpenFails
    <2>4. CASE Refused(r) \/ NotConnected(r) \/ WriteFails(r) \/ SendTimesOut(r)
      BY <1>1, <1>2, <1>3, <2>4 DEF Refused, NotConnected, WriteFails, SendTimesOut
    <2> QED  BY <1>7, <2>1, <2>2, <2>3, <2>4 DEF Proceeds
  <1>8. CASE StartOpen(r) \/ InitAnswered(r)
    BY <1>1, <1>2, <1>3, <1>8 DEF StartOpen, AtNode, InitAnswered
  <1>9. CASE Serve(r) \/ ServeHalfClosed(r)
    BY <1>1, <1>2, <1>3, <1>9 DEF Serve, ServeHalfClosed, HalfClosed, Answered
  <1>10. CASE ResultStateError(r) \/ CloseClient(r) \/ ResultRetry(r)
    BY <1>1, <1>2, <1>3, <1>10 DEF ResultStateError, CloseClient, ResultRetry, NextNode
  <1>11. CASE Ends(r)
    BY <1>1, <1>2, <1>3, <1>11
    DEF Ends, ResultOk, ResultError, PassReportsStateError, PassGivesUp, PassDone, Finish
  <1>12. CASE PassSleeps(r) \/ Wake(r)
    BY <1>1, <1>2, <1>3, <1>12 DEF PassSleeps, Sleep, PassDone, Wake
  <1> QED
    BY <1>4, <1>5, <1>6, <1>7, <1>8, <1>9, <1>10, <1>11, <1>12 DEF CallSteps

(* A call to which nothing happens keeps its times. *)
LEMMA TimelySame ==
    ASSUME NEW r \in Requests, Timely(r), Same(r), now' = now,
           answer'[r] = "none" => answer[r] = "none"
    PROVE  Timely(r)'
  BY DEF Timely, Same, Latest

(* Every step keeps the times of all calls. *)
LEMMA TimeInvNext == TimeInv /\ [AioNext]_vars => TimeInv'
  <1> SUFFICES ASSUME TimeInv, [AioNext]_vars PROVE TimeInv'
    OBVIOUS
  <1>0. Types /\ Types' /\ CallType /\ PlaceType /\ TimeType /\ \A r \in Requests : Timely(r)
    BY TypesNext DEF TimeInv, Types
  <1> SUFFICES ASSUME NEW q \in Requests PROVE Timely(q)'
    BY <1>0 DEF TimeInv
  <1>1. ASSUME NEW r \in Requests, CallSteps(r)
        PROVE  Timely(q)'
    <2>1. CASE q = r
      BY <1>1, <2>1, TimelyStep
    <2>2. CASE q # r
      BY <1>0, <1>1, <2>2, OthersSame, TimelySame
    <2> QED  BY <2>1, <2>2
  <1>2. ASSUME NEW n, Wakes(n)
        PROVE  Timely(q)'
    <2>1. Same(q) /\ now' = now
      BY <1>2, WakesOnly DEF Same, passVars, timeVars
    <2>2. answer'[q] = "none" => answer[q] = "none"
      BY <1>2, WakesOnly DEF Woken
    <2> QED  BY <1>0, <2>1, <2>2, TimelySame
  <1>3. CASE Elsewhere \/ UNCHANGED vars
    <2>1. UNCHANGED <<now, callVars, executed>>
      BY <1>3, ElsewhereLeavesCalls DEF vars, serverVars
    <2>2. Same(q) /\ now' = now /\ answer' = answer
      BY <2>1 DEF Same, callVars, passVars, timeVars
    <2> QED  BY <1>0, <2>2, TimelySame
  <1>4. CASE Tick
    <2>1. /\ pc[q] \in {"idle", "done"} \/ Timed(q) \/ Held(q)
          /\ now' = now + 1 /\ held'[q] = IF Held(q) THEN held[q] + 1 ELSE held[q]
          /\ UNCHANGED <<pc, offset, deadline, until, answer>>
      BY <1>4 DEF Tick, passVars
    <2>2. /\ now \in Nat /\ deadline[q] \in Nat /\ until[q] \in Nat /\ held[q] \in Nat
          /\ offset[q] \in 0 .. N /\ (pc[q] \in Busy => offset[q] < N)
          /\ ConnectTimeout \in Nat /\ Budget[q] \in Nat
          /\ Latest(q, offset[q]) \in Nat /\ Latest(q, N) \in Nat
          /\ deadline[q] + held[q] <= Latest(q, offset[q])
          /\ offset[q] < N =>
               /\ Latest(q, offset[q] + 1) = Latest(q, offset[q]) + ConnectTimeout + Budget[q]
      BY <1>0, LatestFacts
    <2>3. /\ offset[q] \in 0 .. N => Waits(q, offset[q]) \in Nat
          /\ offset[q] < N => Waits(q, offset[q] + 1) \in Nat
      BY <2>2, WaitsUp
    <2>4. CASE pc[q] \in {"idle", "done"}
      BY <2>1, <2>4 DEF Timely
    <2>5. CASE Timed(q) /\ ~Held(q)
      BY <1>0, <2>1, <2>2, <2>3, <2>5 DEF Timed, Timely, Latest, Busy
    <2>6. CASE Held(q)
      BY <1>0, <2>1, <2>2, <2>3, <2>6 DEF Held, AtNode, Timely, Latest, Busy
    <2> QED  BY <2>1, <2>4, <2>5, <2>6
  <1> QED
    BY <1>1, <1>2, <1>3, <1>4, Steps

LEMMA TimeInvInit == Init => TimeInv
  <1> SUFFICES ASSUME Init PROVE TimeInv
    OBVIOUS
  <1>1. \A r \in Requests : pc[r] = "idle"
    BY DEF Init
  <1> QED  BY <1>1, TypesInit DEF TimeInv, Timely

(* A call runs on behind its deadline by no more than its two timeouts at  *)
(* each node and what it sat in waits that the code does not bound, for    *)
(* any number of nodes and calls, all timeouts and all faults together     *)
(* (send_pending_command, 303-355, Connection::open, 45-87, and            *)
(* send_command, 105-153).                                                 *)
THEOREM OverrunBoundedHolds == Spec => []OverrunBounded
  BY TimeInvInit, TimeInvNext, TimelyBounds, AioSteps, PTL DEF Spec

(* Nor does a call of the aio client run on for longer, whoever is dropped *)
(* and wherever (aio send_pending_command, 302-354, Connection::open,      *)
(* 74-116, and send_command, 137-185).                                     *)
THEOREM AioOverrunBoundedHolds == AioSpec => []OverrunBounded
  BY TimeInvInit, TimeInvNext, TimelyBounds, PTL DEF AioSpec

---------------------------------------------------------------------------
(* Connections that nobody breaks and nobody closes are there from the     *)
(* moment a call finds its client open, so that no call ever has a reason  *)
(* to retry after an error.                                                *)
ClientsStay ==
    /\ closer = -1
    /\ \A n \in Nodes : up[n] /\ ~closed[n]
    /\ \A r \in Requests : pc[r] \in {"send", "lock", "write", "wait"} => conn[At(r)]
    /\ \A r \in Requests : pc[r] # "close" /\ answer[r] \notin Retryable

(* What a call knows of its execution at each place. *)
Knows(r) ==
    /\ executed[r] \in {0, 1}
    /\ pc[r] # "wait" => answer[r] = "none"
    /\ pc[r] \notin {"finish", "done"} => outcome[r] = "none" /\ (pc[r] # "wait" => executed[r] = 0)
    /\ answer[r] = "Ok" => executed[r] = 1
    /\ pc[r] = "wait" /\ answer[r] \in {"none", "StateError"} => executed[r] = 0
    /\ outcome[r] = "Ok" => executed[r] = 1
    /\ outcome[r] = "StateError" => executed[r] = 0

ExecInv == ClientsStay /\ \A r \in Requests : Knows(r)

(* What cannot happen while connections stay. *)
LEMMA StaySteps ==
    ASSUME Calm, Types, ExecInv
    PROVE  /\ \A n : ~Lose(n) /\ ~GoDown(n)
           /\ ~CloseStart /\ ~CloseMarks /\ ~CloseNode /\ ~CloseEnd /\ ~CloseDropped
           /\ \A r \in Requests :
                /\ At(r) \in Nodes
                /\ ~Refused(r) /\ ~NotConnected(r) /\ ~WriteFails(r)
                /\ ~ResultRetry(r) /\ ~CloseClient(r) /\ ~CallDroppedInClose(r)
                /\ ~ServeHalfClosed(r) /\ ~HangUp(r)
  <1>1. \A n : ~Lose(n) /\ ~GoDown(n)
    BY DEF Calm, Lose, GoDown
  <1>2. ~CloseStart /\ ~CloseMarks /\ ~CloseNode /\ ~CloseEnd /\ ~CloseDropped
    BY NAssumption DEF Calm, ExecInv, ClientsStay, Nodes, CloseStart, CloseMarks, CloseNode, CloseEnd,
                       CloseDropped
  <1>3. ASSUME NEW r \in Requests
        PROVE  /\ At(r) \in Nodes
               /\ ~Refused(r) /\ ~NotConnected(r) /\ ~WriteFails(r)
               /\ ~ResultRetry(r) /\ ~CloseClient(r) /\ ~CallDroppedInClose(r)
               /\ ~ServeHalfClosed(r) /\ ~HangUp(r)
    <2>1. At(r) \in Nodes
      BY AtIsNode DEF Types, PlaceType
    <2> QED
      BY <2>1 DEF ExecInv, ClientsStay, Refused, NotConnected, WriteFails, ResultRetry,
                  CloseClient, CallDroppedInClose, ServeHalfClosed, HangUp, HalfClosed
  <1> QED  BY <1>1, <1>2, <1>3

(* Connections that hold and are not closed stay. *)
LEMMA ConnectionsStay ==
    ASSUME Calm, Types, ExecInv, [AioNext]_vars,
           \A n \in Nodes : ~OrphanHangUp(n)
    PROVE  /\ closer' = -1
           /\ \A n \in Nodes : up'[n] /\ ~closed'[n] /\ (conn[n] => conn'[n])
  <1>0. PlaceType /\ NetType
    BY DEF Types
  <1>1. \A n \in Nodes : up'[n]
    <2>1. up \in [Nodes -> BOOLEAN] /\ \A n \in Nodes : up[n]
      BY <1>0 DEF NetType, ExecInv, ClientsStay
    <2>2. up' = up \/ \E n \in Nodes : ComeUp(n)
      BY NetSteps, StaySteps
      DEF NetStep, Elsewhere, OpenStart, OpenConnects, OpenNode, OpenSkipsNode, OpenEnd,
          OpenDropped, Elect, ResultOk, Finish, envVars, serverVars
    <2> QED  BY <2>1, <2>2 DEF ComeUp
  <1>2. closer' = -1
    <2>1. closer = -1
      BY DEF ExecInv, ClientsStay
    <2>2. UNCHANGED closer
      BY NetSteps, StaySteps
      DEF NetStep, Elsewhere, OpenStart, OpenConnects, OpenNode, OpenSkipsNode, OpenEnd,
          OpenDropped, ComeUp, Elect, ResultOk, Finish, envVars, closeVars
    <2> QED  BY <2>1, <2>2
  <1>3. ASSUME NEW n \in Nodes
        PROVE  ~closed'[n] /\ (conn[n] => conn'[n])
    <2>0. /\ ~closed[n]
          /\ conn \in [Nodes -> BOOLEAN] /\ closed \in [Nodes -> BOOLEAN]
      BY <1>0 DEF NetType, ExecInv, ClientsStay
    <2>1. CASE UNCHANGED <<conn, closed>>
      BY <2>0, <2>1
    <2>2. CASE \E m \in Nodes : ClientResets(m) \/ ClientInstalls(m) \/ OpenHalfWay(m)
      BY <2>0, <2>2 DEF ClientResets, ClientInstalls, OpenHalfWay
    <2>3. UNCHANGED <<conn, closed>> \/
          \E m \in Nodes : ClientResets(m) \/ ClientInstalls(m) \/ OpenHalfWay(m)
      <3> USE DEF envVars, clientVars
      <3>1. ASSUME NEW r \in Requests, Begin(r) \/ BeginNotEncodable(r) \/ PassStart(r)
                                       \/ Proceeds(r)
            PROVE  UNCHANGED <<conn, closed>>
        BY <3>1 DEF Begin, BeginNotEncodable, PassStart, Proceeds, FindOpen, Connect, Connected,
                SkipNode, OpenRefused, Refused, Register, LockWriter, NotConnected, Written,
                WriteFails, SendTimesOut
      <3>2. ASSUME NEW r \in Requests, \/ Serve(r) \/ ResultStateError(r)
                   \/ Ends(r) \/ PassSleeps(r) \/ Wake(r) \/ Unqueue(r)
            PROVE  UNCHANGED <<conn, closed>>
        BY <3>2 DEF Serve, Answered, ResultStateError, Ends, ResultOk, ResultError,
                PassReportsStateError, PassGivesUp, Finish, PassSleeps, Sleep, Wake, Unqueue
      <3>3. ASSUME NEW r \in Requests, StartOpen(r) \/ InitAnswered(r)
            PROVE  \E m \in Nodes : ClientResets(m) \/ ClientInstalls(m)
        BY <3>3, StaySteps DEF StartOpen, InitAnswered
      <3>4. ASSUME NEW r \in Requests, CallDropped(r)
            PROVE  UNCHANGED <<conn, closed>> \/ \E m \in Nodes : OpenHalfWay(m)
        BY <3>4, StaySteps DEF CallDropped, CallDroppedInOpen, CallDroppedInSend, CallTorn,
                               CallDroppedAsleep
      <3>5. CASE Elsewhere
        BY <3>5, StaySteps DEF Elsewhere, OpenStart, OpenConnects, OpenNode, OpenSkipsNode,
                               OpenEnd, OpenDropped, ComeUp, Elect
      <3>6. \A m : ~Wakes(m)
        BY StaySteps DEF Wakes
      <3>7. CASE Tick \/ UNCHANGED vars
        BY <3>7 DEF Tick, vars
      <3> QED
        BY <3>1, <3>2, <3>3, <3>4, <3>5, <3>6, <3>7, Steps, StaySteps DEF CallSteps
    <2> QED  BY <2>1, <2>2, <2>3
  <1> QED  BY <1>1, <1>2, <1>3

(* What a call knows, in its own steps. *)
LEMMA KnowsStep ==
    ASSUME Calm, Types, ExecInv, NEW r \in Requests, CallSteps(r)
    PROVE  Knows(r)' /\ pc'[r] # "close" /\ answer'[r] \notin Retryable
  <1>1. /\ pc \in [Requests -> Running \cup {"idle", "done"}]
        /\ answer \in [Requests -> Answers \cup {"none"}]
        /\ outcome \in [Requests -> Answers \cup OpenErrors \cup {"none", "LockData"}]
        /\ lastError \in [Requests -> Retryable \cup OpenErrors \cup {"none"}]
        /\ executed \in [Requests -> Nat]
    BY DEF Types, CallType
  <1>2. Knows(r) /\ pc[r] # "close" /\ answer[r] \notin Retryable
    BY DEF ExecInv, ClientsStay
  <1>3. /\ ~Refused(r) /\ ~NotConnected(r) /\ ~WriteFails(r)
        /\ ~ResultRetry(r) /\ ~CloseClient(r) /\ ~CallDroppedInClose(r)
        /\ ~ServeHalfClosed(r) /\ ~HangUp(r)
    BY StaySteps
  <1> USE DEF Knows, Answers, Retryable, OpenErrors, envVars, serverVars
  <1>4. CASE Begin(r) \/ BeginNotEncodable(r) \/ PassStart(r) \/ StartOpen(r) \/ InitAnswered(r)
    BY <1>1, <1>2, <1>4 DEF Begin, BeginNotEncodable, PassStart, StartOpen, AtNode, InitAnswered
  <1>5. CASE Proceeds(r)
    <2>1. CASE SkipNode(r) \/ OpenRefused(r)
      BY <1>1, <1>2, <2>1 DEF SkipNode, OpenRefused, OpenFails
    <2>2. CASE FindOpen(r) \/ Connect(r) \/ Connected(r) \/ Register(r) \/ LockWriter(r)
      BY <1>1, <1>2, <2>2 DEF FindOpen, AtNode, Connect, Connected, Register, LockWriter
    <2>3. CASE Written(r) \/ SendTimesOut(r)
      BY <1>1, <1>2, <2>3 DEF Written, SendTimesOut
    <2> QED  BY <1>3, <1>5, <2>1, <2>2, <2>3 DEF Proceeds
  <1>6. CASE Serve(r) \/ ResultStateError(r)
    BY <1>1, <1>2, <1>6 DEF Serve, Answered, ResultStateError, NextNode
  <1>7. CASE Ends(r)
    BY <1>1, <1>2, <1>7 DEF Ends, ResultOk, Accepted, ResultError, PassReportsStateError,
                            PassGivesUp, PassDone, Finish
  <1>8. CASE PassSleeps(r) \/ Wake(r)
    BY <1>1, <1>2, <1>8 DEF PassSleeps, Sleep, PassDone, Wake
  <1>9. CASE Unqueue(r)
    BY <1>1, <1>2, <1>9 DEF Unqueue, Forget
  <1>10. CASE CallDropped(r)
    <2>1. /\ pc'[r] = "done" /\ answer'[r] = "none" /\ outcome'[r] = "none"
          /\ pc[r] \in Running \ {"pass", "finish"}
      BY <1>1, <1>2, <1>10, DroppedOnly DEF Drop, Forget, Running
    <2>2. executed'[r] \in {0, 1}
      BY <1>1, <1>2, <1>3, <1>10 DEF CallDropped, CallDroppedInOpen, CallDroppedInSend, CallTorn,
                                     CallDroppedAsleep
    <2> QED  BY <2>1, <2>2
  <1> QED
    BY <1>3, <1>4, <1>5, <1>6, <1>7, <1>8, <1>9, <1>10 DEF CallSteps

(* A call comes to a connection by finding or opening it, and stays. *)
LEMMA StaysStep ==
    ASSUME Calm, Types, ExecInv, NEW r \in Requests, CallSteps(r),
           pc'[r] \in {"send", "lock", "write", "wait"}
    PROVE  At(r)' = At(r) /\ (conn[At(r)] \/ conn'[At(r)])
  <1>1. /\ pc \in [Requests -> Running \cup {"idle", "done"}]
        /\ At(r) \in Nodes /\ conn \in [Nodes -> BOOLEAN]
        /\ pc[r] \in {"send", "lock", "write", "wait"} => conn[At(r)]
    BY StaySteps DEF Types, CallType, NetType, ExecInv, ClientsStay
  <1>2. /\ ~Refused(r) /\ ~NotConnected(r) /\ ~WriteFails(r)
        /\ ~ResultRetry(r) /\ ~CloseClient(r) /\ ~ServeHalfClosed(r)
    BY StaySteps
  <1> USE DEF At, passVars
  <1>3. CASE \/ Begin(r) \/ BeginNotEncodable(r) \/ PassStart(r) \/ StartOpen(r) \/ Unqueue(r)
             \/ CallDropped(r) \/ ResultStateError(r) \/ Ends(r) \/ PassSleeps(r) \/ Wake(r)
    <2>1. CASE \/ Begin(r) \/ BeginNotEncodable(r) \/ PassStart(r) \/ StartOpen(r)
      BY <1>1, <2>1 DEF Begin, BeginNotEncodable, PassStart, StartOpen
    <2>2. CASE Unqueue(r) \/ CallDropped(r)
      BY <1>1, <2>2, DroppedOnly DEF Unqueue, Drop, Forget
    <2>3. CASE ResultStateError(r) \/ Ends(r) \/ PassSleeps(r) \/ Wake(r)
      BY <1>1, <2>3 DEF ResultStateError, NextNode, Ends, ResultOk, ResultError,
                        PassReportsStateError, PassGivesUp, Finish, PassSleeps, Sleep, Wake
    <2> QED  BY <1>3, <2>1, <2>2, <2>3
  <1>4. CASE InitAnswered(r)
    BY <1>1, <1>4 DEF InitAnswered, ClientInstalls
  <1>5. CASE Serve(r)
    BY <1>1, <1>5 DEF Serve, Answered
  <1>6. CASE Proceeds(r)
    <2>1. CASE SkipNode(r) \/ OpenRefused(r)
      BY <1>1, <2>1 DEF SkipNode, OpenRefused, OpenFails
    <2>2. CASE FindOpen(r) \/ Connect(r) \/ Connected(r)
      BY <1>1, <2>2 DEF FindOpen, Connect, Connected
    <2>3. CASE Register(r) \/ LockWriter(r) \/ Written(r) \/ SendTimesOut(r)
      BY <1>1, <2>3 DEF Register, LockWriter, Written, SendTimesOut
    <2> QED  BY <1>2, <1>6, <2>1, <2>2, <2>3 DEF Proceeds
  <1> QED
    BY <1>2, <1>3, <1>4, <1>5, <1>6 DEF CallSteps

(* Every step that ends no replaced connection keeps all of it. *)
LEMMA ExecInvNext ==
    ASSUME Calm, Types, ExecInv, [AioNext]_vars,
           \A n \in Nodes : ~OrphanHangUp(n)
    PROVE  ExecInv'
  <1>1. CallType /\ PlaceType /\ TimeType
    BY DEF Types
  <1>2. /\ closer' = -1
        /\ \A n \in Nodes : up'[n] /\ ~closed'[n] /\ (conn[n] => conn'[n])
    BY ConnectionsStay
  <1> SUFFICES ASSUME NEW q \in Requests
               PROVE  /\ Knows(q)'
                      /\ pc'[q] # "close" /\ answer'[q] \notin Retryable
                      /\ pc'[q] \in {"send", "lock", "write", "wait"} => conn'[At(q)']
    <2>1. \A q \in Requests : At(q)' = (start'[q] + offset'[q]) % N
      BY DEF At
    <2> QED  BY <1>2, <2>1 DEF ExecInv, ClientsStay
  <1>3. /\ Knows(q) /\ pc[q] # "close" /\ answer[q] \notin Retryable
        /\ At(q) \in Nodes /\ (pc[q] \in {"send", "lock", "write", "wait"} => conn[At(q)])
    BY StaySteps DEF ExecInv, ClientsStay
  <1>4. CASE Same(q) /\ answer'[q] = answer[q]
    <2>1. At(q)' = At(q)
      BY <1>4 DEF Same, At
    <2>2. Knows(q)' /\ pc'[q] = pc[q]
      BY <1>3, <1>4 DEF Same, Knows
    <2> QED  BY <1>2, <1>3, <1>4, <2>1, <2>2
  <1>5. ASSUME NEW r \in Requests, CallSteps(r)
        PROVE  q = r \/ (Same(q) /\ answer'[q] = answer[q])
    BY <1>1, <1>5, OthersSame, StaySteps
  <1>6. CASE CallSteps(q)
    BY <1>2, <1>3, <1>6, KnowsStep, StaysStep
  <1>7. CASE Elsewhere \/ UNCHANGED vars
    <2>1. UNCHANGED <<now, callVars, executed>>
      BY <1>7, ElsewhereLeavesCalls DEF vars, serverVars
    <2>2. Same(q) /\ answer' = answer
      BY <2>1 DEF Same, callVars, passVars, timeVars
    <2> QED  BY <1>4, <2>2
  <1>8. CASE Tick
    <2>1. At(q)' = At(q) /\ conn' = conn
      BY <1>8 DEF Tick, passVars, clientVars, At
    <2>2. Knows(q)' /\ pc' = pc /\ answer' = answer
      BY <1>3, <1>8 DEF Tick, Knows, serverVars
    <2> QED  BY <1>3, <2>1, <2>2
  <1>9. \A n : ~Wakes(n)
    BY StaySteps DEF Wakes
  <1> QED
    BY <1>4, <1>5, <1>6, <1>7, <1>8, <1>9, Steps

LEMMA ExecInvInit == Init => ExecInv
  BY DEF Init, ExecInv, ClientsStay, Knows, Retryable

LEMMA ExecInvReports == ExecInv => ExecutedAsReported
  BY DEF ExecInv, Knows, ExecutedAsReported

(* A thread's replaced connections are not heard of again. *)
LEMMA OrphansLeft ==
    ASSUME [Next]_vars, orphan \in [Nodes -> {"none", "alive", "gone"}]
    PROVE  \A n \in Nodes : ~OrphanHangUp(n)
  <1> USE DEF envVars, clientVars
  <1>1. ASSUME NEW n \in Nodes, OrphanHangUp(n), orphan' = orphan
        PROVE  FALSE
    BY <1>1 DEF OrphanHangUp
  <1>2. ASSUME NEW n \in Nodes, OrphanHangUp(n), NEW m, ClientInstalls(m)
        PROVE  FALSE
    BY <1>2 DEF OrphanHangUp, ClientInstalls
  <1>3. ASSUME NEW r \in Requests, Begin(r) \/ BeginNotEncodable(r) \/ PassStart(r) \/ StartOpen(r)
                                   \/ Proceeds(r)
        PROVE  orphan' = orphan
    BY <1>3 DEF Begin, BeginNotEncodable, PassStart, StartOpen, ClientResets, Proceeds, FindOpen,
                Connect, Connected, SkipNode, OpenRefused, Refused, Register, LockWriter,
                NotConnected, Written, WriteFails, SendTimesOut
  <1>4. ASSUME NEW r \in Requests, \/ Serve(r) \/ ResultStateError(r) \/ ResultRetry(r)
               \/ CloseClient(r) \/ Ends(r) \/ PassSleeps(r) \/ Wake(r) \/ Unqueue(r)
        PROVE  orphan' = orphan
    BY <1>4 DEF Serve, Answered, ResultStateError, ResultRetry, ClientMarks, CloseClient,
                ClientCloses, Ends, ResultOk, ResultError, PassReportsStateError, PassGivesUp,
                Finish, PassSleeps, Sleep, Wake, Unqueue
  <1>5. CASE OpenStart \/ OpenStep \/ CloseStart \/ CloseStep
    <2>1. orphan' = orphan \/ \E m : ClientInstalls(m)
      BY <1>5 DEF OpenStart, OpenStep, OpenConnects, ClientResets, OpenNode, OpenSkipsNode,
                  OpenEnd, CloseStart, CloseStep, CloseMarks, ClientMarks, CloseNode,
                  ClientCloses, CloseEnd
    <2> QED  BY <1>1, <1>2, <2>1
  <1>6. CASE \/ \E n \in Nodes : Lose(n) \/ GoDown(n) \/ ComeUp(n)
             \/ \E n \in Nodes \cup {NoNode} : Elect(n)
             \/ Tick \/ UNCHANGED vars
    <2>1. orphan' = orphan
      BY <1>6 DEF Lose, GoDown, ComeUp, Elect, Tick, vars
    <2> QED  BY <1>1, <2>1
  <1>7. ASSUME NEW r \in Requests, InitAnswered(r)
        PROVE  \E m : ClientInstalls(m)
    BY <1>7 DEF InitAnswered
  <1>8. ASSUME NEW r \in Requests, CallOwnStep(r) \/ PeerStep(r) \/ OpenRefused(r)
        PROVE  orphan' = orphan \/ InitAnswered(r)
    BY <1>3, <1>4, <1>8 DEF CallOwnStep, PeerStep, Proceeds, Ends
  <1> QED
    BY <1>1, <1>2, <1>3, <1>5, <1>6, <1>7, <1>8 DEF Next

(* Where connections hold and nobody closes the replica set, a command is  *)
(* executed at most once, Ok means that it was, and STATE_ERROR that it    *)
(* was not, for any number of nodes and calls, through elections, silent   *)
(* nodes, unreadable answers and concurrent opens (send_pending_command,   *)
(* 303-355).                                                               *)
THEOREM ExecutedAsReportedHolds == Spec => []ExecutedAsReported
  <1> DEFINE Inv == Types /\ (Calm => ExecInv)
  <1>1. Init => Inv
    BY TypesInit, ExecInvInit
  <1>2. Inv /\ [Next]_vars => Inv'
    <2> SUFFICES ASSUME Inv, [Next]_vars PROVE Inv'
      OBVIOUS
    <2>1. [AioNext]_vars
      BY AioSteps
    <2>2. \A n \in Nodes : ~OrphanHangUp(n)
      BY OrphansLeft DEF Types, NetType
    <2>3. Calm' => Calm
      BY <2>1, FaultsStay DEF Calm
    <2> QED  BY <2>1, <2>2, <2>3, TypesNext, ExecInvNext
  <1>3. Inv => ExecutedAsReported
    BY ExecInvReports DEF ExecutedAsReported
  <1> QED
    BY <1>1, <1>2, <1>3, PTL DEF Spec

(* No two open() of one client have met. *)
Unmet == \A n \in Nodes : orphan[n] = "none"

LEMMA UnmetBefore ==
    ASSUME Types, [AioNext]_vars, Unmet'
    PROVE  Unmet /\ \A n \in Nodes : ~OrphanHangUp(n)
  <1>0. PlaceType /\ NetType /\ orphan \in [Nodes -> {"none", "alive", "gone"}]
    BY DEF Types, NetType
  <1>1. \A n \in Nodes : ~OrphanHangUp(n)
    BY <1>0 DEF OrphanHangUp, Unmet
  <1>2. ASSUME NEW n \in Nodes
        PROVE  orphan'[n] = "none" => orphan[n] = "none"
    <2>1. CASE UNCHANGED orphan
      BY <2>1
    <2>2. ASSUME NEW m \in Nodes, ClientInstalls(m)
          PROVE  orphan'[n] = "none" => orphan[n] = "none"
      BY <1>0, <2>2 DEF ClientInstalls
    <2>3. UNCHANGED orphan \/ \E m \in Nodes : ClientInstalls(m)
      BY <1>0, <1>1, ClientSteps
      DEF ClientStep, ClientResets, ClientMarks, ClientCloses, OpenHalfWay, CloseHalfWay, Lose,
          CallTorn, clientVars
    <2> QED  BY <2>1, <2>2, <2>3
  <1> QED  BY <1>1, <1>2 DEF Unmet

(* The same of the aio client, where calls and opens may be dropped half   *)
(* way, as long as no two open() of one client meet                        *)
(* (aio send_pending_command, 302-354).                                    *)
THEOREM AioExecutedAsReportedHolds == AioSpec => []AioExecutedAsReported
  <1> DEFINE Inv == Types /\ (Calm /\ Unmet => ExecInv)
  <1>1. Init => Inv
    BY TypesInit, ExecInvInit
  <1>2. Inv /\ [AioNext]_vars => Inv'
    <2> SUFFICES ASSUME Inv, [AioNext]_vars PROVE Inv'
      OBVIOUS
    <2>1. Calm' => Calm
      BY FaultsStay DEF Calm
    <2> QED  BY <2>1, TypesNext, UnmetBefore, ExecInvNext
  <1>3. Inv => AioExecutedAsReported
    BY ExecInvReports DEF Unmet, ExecutedAsReported, AioExecutedAsReported
  <1> QED
    BY <1>1, <1>2, <1>3, PTL DEF AioSpec

---------------------------------------------------------------------------
(* What LiveClientKept rests on: a call that nobody has joined got its     *)
(* error from a client that has no connection any more, or is closed.      *)
Gone(n) == ~conn[n] \/ closed[n]

Alone(r) == opener = -1 /\ \A q \in Requests \ {r} : pc[q] = "idle"

Sending == {"lock", "write", "wait"}

FailedFor(r) ==
    /\ pc[r] \notin Sending => answer[r] = "none"
    /\ pc[r] \in Sending /\ answer[r] \in Retryable => Gone(At(r))

FailedAlone ==
    /\ \A n \in Nodes : conn[n] /\ ~up[n] => closed[n]
    /\ \A r \in Requests : Alone(r) => FailedFor(r)

(* A call is not idle after a step of its own. *)
LEMMA NotIdle ==
    ASSUME CallType, NEW r \in Requests, CallSteps(r)
    PROVE  pc'[r] # "idle"
  <1> USE DEF CallType
  <1>1. CASE Begin(r) \/ BeginNotEncodable(r) \/ PassStart(r) \/ StartOpen(r) \/ InitAnswered(r)
    BY <1>1 DEF Begin, BeginNotEncodable, PassStart, StartOpen, InitAnswered
  <1>2. CASE Proceeds(r)
    BY <1>2 DEF Proceeds, FindOpen, Connect, Connected, SkipNode, OpenRefused, OpenFails, Refused,
                Register, LockWriter, NotConnected, Written, WriteFails, SendTimesOut
  <1>3. CASE Serve(r) \/ ServeHalfClosed(r) \/ ResultStateError(r) \/ ResultRetry(r)
    BY <1>3 DEF Serve, ServeHalfClosed, HalfClosed, Answered, ResultStateError, ResultRetry,
                NextNode
  <1>4. CASE CloseClient(r) \/ Ends(r) \/ PassSleeps(r) \/ Wake(r)
    BY <1>4 DEF CloseClient, NextNode, Ends, ResultOk, ResultError, PassReportsStateError,
                PassGivesUp, Finish, PassSleeps, Sleep, Wake
  <1>5. CASE Unqueue(r) \/ CallDropped(r)
    BY <1>5, DroppedOnly DEF Unqueue, Drop, Forget
  <1> QED  BY <1>1, <1>2, <1>3, <1>4, <1>5 DEF CallSteps

(* Nodes that are down have closed clients, or none that is connected. *)
LEMMA DownNext ==
    ASSUME Types, FailedAlone, [AioNext]_vars, NEW n \in Nodes, conn'[n], ~up'[n]
    PROVE  closed'[n]
  <1>0. /\ PlaceType /\ NetType
        /\ conn \in [Nodes -> BOOLEAN] /\ closed \in [Nodes -> BOOLEAN]
        /\ up \in [Nodes -> BOOLEAN]
        /\ conn[n] /\ ~up[n] => closed[n]
    BY DEF Types, NetType, FailedAlone
  <1>1. CASE \E m \in Nodes : Lose(m) \/ GoDown(m) \/ ComeUp(m)
    BY <1>0, <1>1 DEF Lose, GoDown, ComeUp, clientVars
  <1>2. CASE up' = up
    <2>1. CASE UNCHANGED clientVars
      BY <1>0, <1>2, <2>1 DEF clientVars
    <2>2. ASSUME NEW m \in Nodes, ClientResets(m) \/ ClientInstalls(m) \/ ClientMarks(m)
                 \/ ClientCloses(m) \/ OpenHalfWay(m) \/ CloseHalfWay(m)
          PROVE  closed'[n]
      BY <1>0, <1>2, <2>2
      DEF ClientResets, ClientInstalls, ClientMarks, ClientCloses, OpenHalfWay, CloseHalfWay
    <2>3. ASSUME NEW m \in Nodes, OrphanHangUp(m)
          PROVE  closed'[n]
      BY <1>0, <1>2, <2>3 DEF OrphanHangUp
    <2>4. ASSUME NEW r \in Requests, CallTorn(r)
          PROVE  closed'[n]
      BY <1>0, <1>2, <2>4 DEF CallTorn
    <2> QED  BY <1>0, <1>1, <2>1, <2>2, <2>3, <2>4, ClientSteps DEF ClientStep
  <1>3. up' = up \/ \E m \in Nodes : Lose(m) \/ GoDown(m) \/ ComeUp(m)
    BY NetSteps DEF NetStep, Elsewhere, OpenStart, OpenConnects, OpenNode, OpenSkipsNode, OpenEnd,
                    CloseStart, CloseMarks, CloseEnd, OpenDropped, CloseDropped, Elect, ResultOk,
                    Finish, CloseNode, envVars, serverVars
  <1> QED  BY <1>1, <1>2, <1>3

(* Who is alone after a step was so before it. *)
LEMMA AloneBefore ==
    ASSUME Types, [AioNext]_vars, NEW r \in Requests, Alone(r)'
    PROVE  Alone(r)
  <1>0. CallType /\ PlaceType /\ TimeType /\ NetType
    BY DEF Types
  <1>1. ASSUME NEW q \in Requests, pc'[q] = "idle"
        PROVE  pc[q] = "idle"
    <2>1. ASSUME NEW p \in Requests, CallSteps(p)
          PROVE  pc[q] = "idle"
      BY <1>0, <1>1, <2>1, NotIdle, OthersSame DEF Same
    <2>2. CASE Elsewhere \/ (\E n : Wakes(n)) \/ Tick \/ UNCHANGED vars
      BY <1>1, <2>2, ElsewhereLeavesCalls, WakesOnly DEF Tick, vars, callVars
    <2> QED
      BY <2>1, <2>2, Steps
  <1>2. opener' = -1 => opener = -1
    <2>1. CASE OpenStart \/ OpenConnects \/ OpenNode \/ OpenSkipsNode \/ OpenEnd \/ OpenDropped
      <3>1. ASSUME NEW n \in Nodes
            PROVE  n + 1 # -1 /\ N + 1 # -1 /\ 0 # -1
        BY NAssumption DEF Nodes
      <3> QED
        BY <2>1, <3>1, NAssumption
        DEF OpenStart, OpenConnects, OpenNode, OpenSkipsNode, OpenEnd, OpenDropped
    <2>2. opener' = opener
          \/ OpenStart \/ OpenConnects \/ OpenNode \/ OpenSkipsNode \/ OpenEnd \/ OpenDropped
      BY NetSteps
      DEF NetStep, Elsewhere, CloseStart, CloseMarks, CloseEnd, CloseDropped, GoDown, ComeUp, Elect,
          Lose, ResultOk, Finish, CloseNode, envVars, openVars
    <2> QED  BY <2>1, <2>2
  <1> QED  BY <1>1, <1>2 DEF Alone

(* Errors of a call's own come with the loss of a connection or the close  *)
(* of a client, and only the call itself opens its client again, before it *)
(* waits.                                                                  *)
LEMMA FailedStep ==
    ASSUME Types, FailedAlone, NEW r \in Requests, FailedFor(r), CallSteps(r)
    PROVE  FailedFor(r)'
  <1>1. /\ pc \in [Requests -> Running \cup {"idle", "done"}]
        /\ answer \in [Requests -> Answers \cup {"none"}]
        /\ At(r) \in Nodes
        /\ conn[At(r)] /\ ~up[At(r)] => closed[At(r)]
    BY AtIsNode DEF Types, CallType, PlaceType, FailedAlone
  <1> USE DEF FailedFor, Gone, Sending, At, envVars, passVars, clientVars
  <1>2. CASE \/ Begin(r) \/ BeginNotEncodable(r) \/ PassStart(r) \/ StartOpen(r)
             \/ InitAnswered(r)
    BY <1>1, <1>2 DEF Begin, BeginNotEncodable, PassStart, StartOpen, AtNode, InitAnswered
  <1>3. CASE Proceeds(r)
    <2>1. CASE SkipNode(r) \/ OpenRefused(r)
      BY <1>1, <2>1 DEF SkipNode, OpenRefused, OpenFails
    <2>2. CASE FindOpen(r) \/ Connect(r) \/ Connected(r) \/ Register(r)
      BY <1>1, <2>2 DEF FindOpen, AtNode, Connect, Connected, Register, Retryable
    <2>3. CASE Refused(r) \/ NotConnected(r) \/ WriteFails(r)
      BY <1>1, <2>3 DEF Refused, NotConnected, WriteFails
    <2>4. CASE LockWriter(r) \/ Written(r) \/ SendTimesOut(r)
      BY <1>1, <2>4 DEF LockWriter, Written, SendTimesOut, Retryable
    <2> QED  BY <1>3, <2>1, <2>2, <2>3, <2>4 DEF Proceeds
  <1>4. CASE Serve(r) \/ ServeHalfClosed(r)
    BY <1>1, <1>4 DEF Serve, ServeHalfClosed, HalfClosed, Answered, Retryable
  <1>5. CASE ResultStateError(r) \/ ResultRetry(r)
    BY <1>1, <1>5 DEF ResultStateError, ResultRetry, NextNode
  <1>6. CASE CloseClient(r)
    BY <1>1, <1>6 DEF CloseClient, ClientCloses, Woken, NextNode
  <1>7. CASE Ends(r)
    BY <1>1, <1>7 DEF Ends, ResultOk, ResultError, PassReportsStateError, PassGivesUp, PassDone,
                      Finish
  <1>8. CASE PassSleeps(r) \/ Wake(r)
    BY <1>1, <1>8 DEF PassSleeps, Sleep, PassDone, Wake
  <1>9. CASE Unqueue(r) \/ CallDropped(r)
    BY <1>1, <1>9, DroppedOnly DEF Unqueue, Drop, Forget
  <1> QED
    BY <1>2, <1>3, <1>4, <1>5, <1>6, <1>7, <1>8, <1>9 DEF CallSteps

(* Every step keeps it so. *)
LEMMA FailedAloneNext == Types /\ FailedAlone /\ [AioNext]_vars => FailedAlone'
  <1> SUFFICES ASSUME Types, FailedAlone, [AioNext]_vars PROVE FailedAlone'
    OBVIOUS
  <1> SUFFICES ASSUME NEW r \in Requests, Alone(r)'
               PROVE  FailedFor(r)'
    BY DownNext DEF FailedAlone
  <1>0. /\ CallType /\ PlaceType /\ NetType
        /\ conn \in [Nodes -> BOOLEAN] /\ closed \in [Nodes -> BOOLEAN]
        /\ At(r) \in Nodes
        /\ Alone(r) /\ FailedFor(r)
    BY AloneBefore, AtIsNode DEF Types, PlaceType, NetType, FailedAlone
  <1>1. ASSUME NEW q \in Requests, CallSteps(q)
        PROVE  FailedFor(r)'
    <2>1. CASE q = r
      BY <1>0, <1>1, <2>1, FailedStep
    <2>2. CASE q # r
      BY <1>0, <1>1, <2>2, NotIdle DEF Alone
    <2> QED  BY <2>1, <2>2
  <1>2. ASSUME UNCHANGED <<pc, start, offset>>,
               answer'[r] = answer[r] \/ (pc[r] \in Sending /\ ~conn'[At(r)]),
               Gone(At(r)) => Gone(At(r))'
        PROVE  FailedFor(r)'
    <2>1. At(r)' = At(r) /\ (Gone(At(r)))' = (~conn'[At(r)] \/ closed'[At(r)])
      BY <1>2 DEF At, Gone
    <2> QED  BY <1>0, <1>2, <2>1 DEF FailedFor, Gone
  <1>3. ASSUME NEW n, Wakes(n)
        PROVE  FailedFor(r)'
    <2>1. UNCHANGED <<pc, start, offset>>
      BY <1>3, WakesOnly DEF passVars
    <2>2. /\ At(r)' = At(r)
          /\ \A m \in Nodes : ~conn[m] => ~conn'[m]
          /\ closed' = closed
      BY <1>0, <1>3, <2>1
      DEF At, Wakes, Lose, OrphanHangUp, CloseNode, ClientCloses, HangUp, clientVars
    <2>3. answer'[r] = answer[r] \/ (pc[r] \in Sending /\ At(r) = n)
      BY <1>0, <1>3, WakesOnly DEF Woken, Sending, CallType
    <2>4. answer' = answer \/ n \notin Nodes \/ ~conn'[n]
      BY <1>0, <1>3 DEF Wakes, Lose, OrphanHangUp, CloseNode, ClientCloses, HangUp, HalfClosed,
                        clientVars
    <2>5. Gone(At(r)) => Gone(At(r))'
      BY <1>0, <2>2 DEF Gone
    <2> QED  BY <1>0, <1>2, <2>1, <2>2, <2>3, <2>4, <2>5
  <1>4. CASE Elsewhere
    <2>1. /\ UNCHANGED <<pc, start, offset, answer>>
          /\ At(r)' = At(r)
      BY <1>4, ElsewhereLeavesCalls DEF callVars, passVars, At
    <2>2. opener' = -1
      BY DEF Alone
    <2>3. Gone(At(r)) => Gone(At(r))'
      BY <1>0, <1>4, <2>1, <2>2, NAssumption
      DEF Gone, Elsewhere, OpenStart, OpenConnects, OpenNode, OpenSkipsNode, OpenEnd, CloseStart,
          CloseMarks, ClientMarks, CloseEnd, OpenDropped, CloseDropped, CloseHalfWay, GoDown,
          ComeUp, Elect, clientVars, Nodes
    <2> QED  BY <1>2, <2>1, <2>3
  <1>5. CASE Tick \/ UNCHANGED vars
    <2>1. UNCHANGED <<pc, start, offset, answer, conn, closed>>
      BY <1>5 DEF Tick, vars, callVars, clientVars, passVars
    <2> QED  BY <1>2, <2>1 DEF Gone, At
  <1> QED
    BY <1>1, <1>3, <1>4, <1>5, Steps

(* The steps that LiveClientKept is about. *)
KeepsLive ==
    \A r \in Requests :
        ResultRetry(r) /\ opener = -1 /\ (\A q \in Requests \ {r} : pc[q] = "idle")
            => ~conn[At(r)] \/ closed[At(r)]

LEMMA FailedAloneKeeps == FailedAlone => KeepsLive
  BY DEF FailedAlone, FailedFor, Sending, Gone, Alone, ResultRetry, KeepsLive

LEMMA FailedAloneInit == Init => FailedAlone
  BY DEF Init, FailedAlone, FailedFor, Sending

(* A call that no other has joined closes (328-333) only clients that have *)
(* lost their connection or were closed, for any number of nodes and all   *)
(* faults together.                                                        *)
THEOREM LiveClientKeptHolds == Spec => LiveClientKept
  <1>1. FailedAlone /\ [Next]_vars => [KeepsLive]_vars
    BY FailedAloneKeeps
  <1>2. [][KeepsLive]_vars => LiveClientKept
    BY DEF KeepsLive, LiveClientKept
  <1> QED
    BY <1>1, <1>2, TypesInit, TypesNext, FailedAloneInit, FailedAloneNext, AioSteps, PTL DEF Spec

(* Nor does a call of the aio client (aio 328-333) that no other has       *)
(* joined close a client with a connection, though open() and close() are  *)
(* dropped half way, and half-closed connections answer or hang up.        *)
THEOREM AioLiveClientKeptHolds == AioSpec => LiveClientKept
  <1>1. FailedAlone /\ [AioNext]_vars => [KeepsLive]_vars
    BY FailedAloneKeeps
  <1>2. [][KeepsLive]_vars => LiveClientKept
    BY DEF KeepsLive, LiveClientKept
  <1> QED
    BY <1>1, <1>2, TypesInit, TypesNext, FailedAloneInit, FailedAloneNext, PTL DEF AioSpec

---------------------------------------------------------------------------
(* What QueueAccounted rests on: a call has a result from the moment it    *)
(* ends, so that only a dropped one is done without.                       *)
Ended(r) ==
    /\ pc[r] \notin {"finish", "done"} => outcome[r] = "none"
    /\ pc[r] = "finish" => outcome[r] # "none"

Tracked(r) == pc[r] \in Running \/ Dropped(r)

Marked(entry) == pc[entry.id] \in Running => (pc[entry.id] = "sleep" <=> entry.retry = "Pending")

(* QueueAccounted, entry by entry. *)
Accounted ==
    /\ \A i \in DOMAIN queue : Tracked(queue[i].id) /\ Marked(queue[i])
    /\ \A r \in Requests : Tracked(r) => \E i \in DOMAIN queue : queue[i].id = r
    /\ \A i, j \in DOMAIN queue : i < j => ticket[queue[i].id] < ticket[queue[j].id]

QueueInv == Types /\ (\A r \in Requests : Ended(r)) /\ Accounted

(* The entries of a queue, and the ids in them. *)
LEMMA QueueEntries ==
    ASSUME QueueType
    PROVE  /\ Len(queue) \in Nat /\ DOMAIN queue = 1 .. Len(queue)
           /\ \A i \in DOMAIN queue : queue[i] \in Entry /\ queue[i].id \in Requests
  <1>1. Len(queue) \in Nat /\ DOMAIN queue = 1 .. Len(queue)
        /\ \A i \in 1 .. Len(queue) : queue[i] \in Entry
    BY DEF QueueType
  <1> QED  BY <1>1 DEF Entry

LEMMA AccountedIs == QueueType /\ Accounted => QueueAccounted
  <1> SUFFICES ASSUME QueueType, Accounted PROVE QueueAccounted
    OBVIOUS
  <1>1. \A i \in DOMAIN queue : queue[i].id \in Requests
    BY QueueEntries
  <1>2. {queue[i].id : i \in DOMAIN queue} = {r \in Requests : pc[r] \in Running \/ Dropped(r)}
    BY <1>1 DEF Accounted, Tracked
  <1> QED  BY <1>2 DEF Accounted, QueueAccounted, Marked

(* Steps that leave the queue alone keep it accounted for if they make no  *)
(* call start, end, fall asleep or wake.                                   *)
LEMMA QueueUntouched ==
    ASSUME QueueType, Accounted, queue' = queue, ticket' = ticket,
           \A r \in Requests :
             /\ Tracked(r)' = Tracked(r)
             /\ pc'[r] \in Running => pc[r] \in Running /\ (pc'[r] = "sleep" <=> pc[r] = "sleep")
    PROVE  Accounted'
  <1> USE DEF Tracked, Dropped, Marked
  <1>1. \A i \in DOMAIN queue : queue[i].id \in Requests
    BY QueueEntries
  <1>2. \A i \in DOMAIN queue' : Tracked(queue[i].id)'
    BY <1>1 DEF Accounted
  <1>3. \A i \in DOMAIN queue' : Marked(queue[i])'
    BY <1>1 DEF Accounted, Marked
  <1>4. \A r \in Requests : Tracked(r)' => \E i \in DOMAIN queue' : queue'[i].id = r
    BY DEF Accounted
  <1>5. \A i, j \in DOMAIN queue' :
          i < j => ticket'[queue'[i].id] < ticket'[queue'[j].id]
    BY DEF Accounted
  <1> QED  BY <1>2, <1>3, <1>4, <1>5 DEF Accounted

(* Steps that mark the entry of a running call, as Pending exactly if it   *)
(* goes to sleep, keep the queue accounted for.                            *)
LEMMA QueueMarked ==
    ASSUME CallType, QueueType, Accounted, NEW r \in Requests, NEW retry \in RetryType,
           SetRetry(r, retry), NEW place \in Running, pc' = [pc EXCEPT ![r] = place],
           place = "sleep" <=> retry = "Pending", pc[r] \in Running,
           outcome' = outcome, ticket' = ticket
    PROVE  Accounted'
  <1> USE DEF Tracked, Dropped, Marked
  <1>1. \A i \in DOMAIN queue : queue[i].id \in Requests
    BY QueueEntries
  <1>2. /\ DOMAIN queue' = DOMAIN queue
        /\ \A i \in DOMAIN queue :
             /\ queue'[i].id = queue[i].id
             /\ queue'[i].retry = IF queue[i].id = r THEN retry ELSE queue[i].retry
    BY SetRetryFacts
  <1>3. pc'[r] = place /\ \A q \in Requests : q # r => pc'[q] = pc[q]
    BY DEF CallType
  <1>4. \A q \in Requests : Tracked(q)' = Tracked(q)
    BY <1>3 DEF Tracked, Dropped, Running
  <1>5. \A i \in DOMAIN queue' : Marked(queue[i])'
    <2> SUFFICES ASSUME NEW i \in DOMAIN queue PROVE Marked(queue[i])'
      BY <1>2
    <2>1. Marked(queue[i])
      BY DEF Accounted
    <2>2. CASE queue[i].id = r
      BY <1>2, <1>3, <2>2 DEF Marked
    <2>3. CASE queue[i].id # r
      BY <1>1, <1>2, <1>3, <2>1, <2>3 DEF Marked
    <2> QED  BY <2>2, <2>3
  <1>6. \A i \in DOMAIN queue' : Tracked(queue[i].id)'
    BY <1>1, <1>2, <1>4 DEF Accounted
  <1>7. \A q \in Requests : Tracked(q)' => \E i \in DOMAIN queue' : queue'[i].id = q
    BY <1>2, <1>4 DEF Accounted
  <1>8. \A i, j \in DOMAIN queue' :
          i < j => ticket'[queue'[i].id] < ticket'[queue'[j].id]
    BY <1>2 DEF Accounted
  <1> QED  BY <1>5, <1>6, <1>7, <1>8 DEF Accounted

(* A call that begins gets an entry of its own, behind the others, whose   *)
(* tickets are lower.                                                      *)
LEMMA QueueAdded ==
    ASSUME QueueInv, NEW r \in Requests, Begin(r)
    PROVE  Accounted'
  <1> USE DEF Tracked, Dropped, Marked
  <1> DEFINE n == Len(queue)
  <1>1. n \in Nat /\ DOMAIN queue = 1 .. n /\ \A i \in DOMAIN queue : queue[i].id \in Requests
    BY QueueEntries DEF QueueInv, Types
  <1>2. /\ DOMAIN queue' = 1 .. (n + 1) /\ \A i \in 1 .. n : queue'[i] = queue[i]
        /\ queue'[n + 1] = [id |-> r, retry |-> "Origin"]
    BY <1>1 DEF Begin, QueueInv, Types, QueueType
  <1>3. /\ pc[r] = "idle" /\ pc'[r] = "pass" /\ \A q \in Requests : q # r => pc'[q] = pc[q]
        /\ outcome' = outcome
        /\ ticket'[r] = begun + 1 /\ \A q \in Requests : q # r => ticket'[q] = ticket[q]
    BY DEF Begin, QueueInv, Types, CallType, TimeType
  <1>4. ~Tracked(r) /\ Tracked(r)' /\ \A q \in Requests : q # r => Tracked(q)' = Tracked(q)
    BY <1>3 DEF Tracked, Dropped, Running
  <1>5. \A i \in 1 .. n : queue[i].id # r
    BY <1>1, <1>4 DEF QueueInv, Accounted
  <1> HIDE DEF n
  <1>6. \A i \in DOMAIN queue' : i \in 1 .. n \/ i = n + 1
    BY <1>1, <1>2
  <1>7. \A i \in DOMAIN queue' : Tracked(queue[i].id)'
    BY <1>1, <1>2, <1>4, <1>5, <1>6 DEF QueueInv, Accounted
  <1>8. \A i \in DOMAIN queue' : Marked(queue[i])'
    BY <1>1, <1>2, <1>3, <1>5, <1>6 DEF QueueInv, Accounted, Marked
  <1>9. \A q \in Requests : Tracked(q)' => \E i \in DOMAIN queue' : queue'[i].id = q
    <2>1. n + 1 \in DOMAIN queue' /\ 1 .. n \in SUBSET DOMAIN queue'
      BY <1>1, <1>2
    <2> QED  BY <1>1, <1>2, <1>4, <2>1 DEF QueueInv, Accounted
  <1>10. ASSUME NEW i \in DOMAIN queue', NEW j \in DOMAIN queue', i < j
         PROVE  ticket'[queue'[i].id] < ticket'[queue'[j].id]
    <2>1. CASE i \in 1 .. n /\ j \in 1 .. n
      BY <1>1, <1>2, <1>3, <1>5, <1>10, <2>1 DEF QueueInv, Accounted
    <2>2. CASE i \in 1 .. n /\ j = n + 1
      <3>1. begun \in Nat /\ ticket[queue[i].id] \in 0 .. begun
        BY <1>1, <2>2 DEF QueueInv, Types, TimeType
      <3> QED  BY <1>1, <1>2, <1>3, <1>5, <2>2, <3>1
    <2>3. CASE i = n + 1
      BY <1>1, <1>6, <1>10, <2>3
    <2> QED  BY <1>6, <2>1, <2>2, <2>3
  <1> QED  BY <1>7, <1>8, <1>9, <1>10 DEF Accounted

(* A call that ends takes its entry out, and no other. *)
LEMMA QueueRemoved ==
    ASSUME QueueInv, NEW r \in Requests, Unqueue(r)
    PROVE  Accounted'
  <1> USE DEF Tracked, Dropped, Marked
  <1>1. \A i \in DOMAIN queue : queue[i].id \in Requests
    BY QueueEntries DEF QueueInv, Types
  <1>0. queue \in Seq(Entry) /\ queue' = Without(queue, r)
    BY DEF Unqueue, QueueInv, Types, QueueType
  <1>2. PICK from \in [DOMAIN queue' -> DOMAIN queue] :
          /\ \A k \in DOMAIN queue' : queue'[k] = queue[from[k]] /\ queue[from[k]].id # r
          /\ \A j, k \in DOMAIN queue' : j < k => from[j] < from[k]
          /\ \A i \in DOMAIN queue :
                queue[i].id # r => \E k \in DOMAIN queue' : from[k] = i
    BY <1>0, WithoutFacts
  <1>3. /\ pc[r] = "finish" /\ pc'[r] = "done" /\ \A q \in Requests : q # r => pc'[q] = pc[q]
        /\ outcome' = outcome /\ ticket' = ticket
    BY DEF Unqueue, Forget, QueueInv, Types, CallType
  <1>4. ~Tracked(r)' /\ \A q \in Requests : q # r => Tracked(q)' = Tracked(q)
    BY <1>3 DEF Tracked, Dropped, Running, QueueInv, Ended
  <1>5. \A k \in DOMAIN queue' : Tracked(queue[k].id)'
    BY <1>1, <1>2, <1>4 DEF QueueInv, Accounted
  <1>6. \A k \in DOMAIN queue' : Marked(queue[k])'
    <2> SUFFICES ASSUME NEW k \in DOMAIN queue' PROVE Marked(queue[k])'
      OBVIOUS
    <2>1. Marked(queue[from[k]])
      BY <1>2 DEF QueueInv, Accounted
    <2> QED  BY <1>1, <1>2, <1>3, <2>1 DEF Marked
  <1>7. \A q \in Requests : Tracked(q)' => \E k \in DOMAIN queue' : queue'[k].id = q
    BY <1>2, <1>4 DEF QueueInv, Accounted
  <1>8. \A i, j \in DOMAIN queue' : i < j => ticket'[queue'[i].id] < ticket'[queue'[j].id]
    BY <1>2, <1>3 DEF QueueInv, Accounted
  <1> QED  BY <1>5, <1>6, <1>7, <1>8 DEF Accounted

(* A call has a result exactly from its end on, unless it is dropped. *)
LEMMA EndedStep ==
    ASSUME CallType, NEW r \in Requests, Ended(r), CallSteps(r)
    PROVE  Ended(r)'
  <1> USE DEF Ended, CallType
  <1>1. CASE Ends(r)
    <2>1. CASE ResultOk(r) \/ ResultError(r)
      <3>1. answer[r] # "none"
        BY <2>1 DEF ResultOk, Accepted, ResultError, Retryable
      <3> QED  BY <2>1, <3>1 DEF ResultOk, ResultError, Finish
    <2>2. CASE PassReportsStateError(r) \/ PassGivesUp(r)
      BY <2>2 DEF PassReportsStateError, PassGivesUp, Finish
    <2> QED  BY <1>1, <2>1, <2>2 DEF Ends
  <1>2. CASE BeginNotEncodable(r)
    BY <1>2 DEF BeginNotEncodable
  <1>3. CASE Unqueue(r) \/ CallDropped(r)
    BY <1>3, DroppedOnly DEF Unqueue, Drop, Forget
  <1>4. CASE Begin(r) \/ PassStart(r) \/ StartOpen(r) \/ InitAnswered(r)
    BY <1>4 DEF Begin, PassStart, StartOpen, AtNode, InitAnswered
  <1>5. CASE Proceeds(r)
    BY <1>5 DEF Proceeds, FindOpen, AtNode, Connect, Connected, SkipNode, OpenRefused, OpenFails,
                Refused, Register, LockWriter, NotConnected, Written, WriteFails, SendTimesOut
  <1>6. CASE Serve(r) \/ ServeHalfClosed(r) \/ ResultStateError(r) \/ ResultRetry(r)
    BY <1>6 DEF Serve, ServeHalfClosed, HalfClosed, Answered, ResultStateError, ResultRetry,
                NextNode
  <1>7. CASE CloseClient(r) \/ PassSleeps(r) \/ Wake(r)
    BY <1>7 DEF CloseClient, NextNode, PassSleeps, Sleep, PassDone, Wake
  <1> QED  BY <1>1, <1>2, <1>3, <1>4, <1>5, <1>6, <1>7 DEF CallSteps

(* The queue stays accounted for in the steps of a call that change it: it *)
(* goes on to the next node, sleeps or wakes.                              *)
LEMMA AccountedMarks ==
    ASSUME QueueInv, NEW r \in Requests,
           ResultStateError(r) \/ CloseClient(r) \/ PassSleeps(r) \/ Wake(r)
    PROVE  Accounted'
  <1>0. CallType /\ QueueType /\ Accounted
    BY DEF QueueInv, Types
  <1>1. CASE ResultStateError(r) \/ CloseClient(r)
    <2>1. SetRetry(r, "Redirected") /\ pc' = [pc EXCEPT ![r] = "open"] /\ pc[r] \in Running
          /\ outcome' = outcome /\ ticket' = ticket
      BY <1>1 DEF ResultStateError, CloseClient, NextNode, Running
    <2>2. "Redirected" \in RetryType /\ "open" \in Running
      BY DEF RetryType, Running
    <2> QED  BY <1>0, <2>1, <2>2, QueueMarked
  <1>2. CASE PassSleeps(r)
    <2>1. SetRetry(r, "Pending") /\ pc' = [pc EXCEPT ![r] = "sleep"] /\ pc[r] \in Running
          /\ outcome' = outcome /\ ticket' = ticket
      BY <1>2 DEF PassSleeps, Sleep, PassDone, Running
    <2>2. "Pending" \in RetryType /\ "sleep" \in Running
      BY DEF RetryType, Running
    <2> QED  BY <1>0, <2>1, <2>2, QueueMarked
  <1>3. CASE Wake(r)
    <2>1. SetRetry(r, "Woken") /\ pc' = [pc EXCEPT ![r] = "pass"] /\ pc[r] \in Running
          /\ outcome' = outcome /\ ticket' = ticket
      BY <1>3 DEF Wake, Running
    <2>2. "Woken" \in RetryType /\ "pass" \in Running
      BY DEF RetryType, Running
    <2> QED  BY <1>0, <2>1, <2>2, QueueMarked
  <1> QED  BY <1>1, <1>2, <1>3

(* And in the other steps of a call. *)
LEMMA AccountedRest ==
    ASSUME QueueInv, NEW r \in Requests, CallSteps(r),
           ~Begin(r), ~Unqueue(r), ~ResultStateError(r), ~CloseClient(r), ~PassSleeps(r), ~Wake(r)
    PROVE  Accounted'
  <1>0. CallType /\ PlaceType /\ TimeType /\ QueueType /\ Accounted /\ Ended(r)
    BY DEF QueueInv, Types
  <1>1. /\ queue' = queue /\ ticket' = ticket
        /\ Tracked(r)' = Tracked(r)
        /\ pc'[r] \in Running => pc[r] \in Running \ {"sleep"} /\ pc'[r] # "sleep"
    <2> USE DEF CallType, Tracked, Dropped, Running, queueVars
    <2>1. CASE BeginNotEncodable(r)
      BY <1>0, <2>1 DEF BeginNotEncodable
    <2>2. CASE PassStart(r) \/ StartOpen(r) \/ InitAnswered(r)
      BY <1>0, <2>2 DEF PassStart, StartOpen, AtNode, InitAnswered
    <2>3. CASE Proceeds(r)
      <3>1. CASE SkipNode(r) \/ OpenRefused(r)
        BY <1>0, <3>1 DEF SkipNode, OpenRefused, OpenFails
      <3>2. CASE FindOpen(r) \/ Connect(r) \/ Connected(r) \/ Register(r) \/ LockWriter(r)
        BY <1>0, <3>2 DEF FindOpen, AtNode, Connect, Connected, Register, LockWriter
      <3>3. CASE Refused(r) \/ NotConnected(r) \/ Written(r) \/ WriteFails(r) \/ SendTimesOut(r)
        BY <1>0, <3>3 DEF Refused, NotConnected, Written, WriteFails, SendTimesOut
      <3> QED  BY <2>3, <3>1, <3>2, <3>3 DEF Proceeds
    <2>4. CASE Serve(r) \/ ServeHalfClosed(r) \/ ResultRetry(r)
      BY <1>0, <2>4 DEF Serve, ServeHalfClosed, HalfClosed, Answered, ResultRetry
    <2>5. CASE Ends(r)
      BY <1>0, <2>5 DEF Ends, ResultOk, ResultError, PassReportsStateError, PassGivesUp, PassDone,
                        Finish
    <2>6. CASE CallDropped(r)
      <3>1. Drop(r) /\ pc[r] \in Running \ {"pass", "finish"}
        BY <2>6, DroppedOnly
      <3> QED  BY <1>0, <3>1 DEF Drop, Forget, Ended
    <2> QED  BY <2>1, <2>2, <2>3, <2>4, <2>5, <2>6 DEF CallSteps
  <1>2. \A q \in Requests \ {r} : pc'[q] = pc[q] /\ Tracked(q)' = Tracked(q)
    BY <1>0, OthersSame DEF Same, Tracked, Dropped
  <1>3. \A q \in Requests :
          /\ Tracked(q)' = Tracked(q)
          /\ pc'[q] \in Running => pc[q] \in Running /\ (pc'[q] = "sleep" <=> pc[q] = "sleep")
    BY <1>1, <1>2 DEF Tracked, Dropped
  <1>4. queue' = queue /\ ticket' = ticket
    BY <1>1
  <1> QED  BY <1>0, <1>3, <1>4, QueueUntouched

LEMMA QueueInvNext == QueueInv /\ [AioNext]_vars => QueueInv'
  <1> SUFFICES ASSUME QueueInv, [AioNext]_vars PROVE QueueInv'
    OBVIOUS
  <1>0. Types /\ Types' /\ CallType /\ PlaceType /\ TimeType /\ QueueType /\ Accounted
        /\ \A r \in Requests : Ended(r)
    BY TypesNext DEF QueueInv, Types
  <1>1. CASE UNCHANGED <<pc, outcome, queueVars>>
    <2>1. \A r \in Requests : Ended(r)' /\ Tracked(r)' = Tracked(r)
      BY <1>0, <1>1 DEF Ended, Tracked, Dropped
    <2>2. Accounted'
      BY <1>0, <1>1, <2>1, QueueUntouched DEF queueVars
    <2> QED  BY <1>0, <2>1, <2>2 DEF QueueInv
  <1>2. ASSUME NEW r \in Requests, CallSteps(r)
        PROVE  QueueInv'
    <2>1. \A q \in Requests : Ended(q)'
      BY <1>0, <1>2, EndedStep, OthersSame DEF Same, Ended
    <2>2. Accounted'
      BY <1>2, QueueAdded, QueueRemoved, AccountedMarks, AccountedRest
    <2> QED  BY <1>0, <2>1, <2>2 DEF QueueInv
  <1>3. CASE Elsewhere \/ (\E n : Wakes(n)) \/ Tick \/ UNCHANGED vars
    BY <1>1, <1>3, ElsewhereLeavesCalls, WakesOnly DEF Tick, vars, callVars
  <1> QED
    BY <1>2, <1>3, Steps

(* pending_commands holds exactly the running and the dropped calls, each  *)
(* once, in the order they began and marked as what they do, for any       *)
(* number of nodes and calls, with timeouts of their own, all faults and   *)
(* every await at which a call may be dropped (aio                         *)
(* ReplsetClient::send_command, 291-300, update_pending_retry_type and     *)
(* remove_pending_command).                                                *)
THEOREM QueueAccountedHolds == AioSpec => []QueueAccounted
  <1>1. Init => QueueInv
    <2> SUFFICES ASSUME Init PROVE QueueInv
      OBVIOUS
    <2>1. Types
      BY TypesInit
    <2>2. (\A r \in Requests : Ended(r)) /\ Accounted
      BY DEF Init, Ended, Accounted, Tracked, Dropped, Running
    <2> QED  BY <2>1, <2>2 DEF QueueInv
  <1>2. QueueInv => QueueAccounted
    BY AccountedIs DEF QueueInv, Types
  <1> QED
    BY <1>1, <1>2, QueueInvNext, PTL DEF AioSpec

---------------------------------------------------------------------------
(* The nodes at the first k places of a pass that begins at s. *)
Passed(s, k) == {(s + i) % N : i \in 0 .. (k - 1)}

(* A remainder is known by its range. *)
LEMMA Remainder ==
    ASSUME NEW n \in Nodes
    PROVE  n % N = n /\ (n + N) % N = n
  BY NAssumption DEF Nodes

(* They grow by one node with every place, and are all nodes in the end,   *)
(* wherever the pass begins.                                               *)
LEMMA PassedFacts ==
    ASSUME NEW s \in Nodes
    PROVE  /\ Passed(s, 0) = {}
           /\ \A k \in Nat : Passed(s, k + 1) = Passed(s, k) \cup {(s + k) % N}
           /\ Passed(s, N) = Nodes
  <1>1. Passed(s, 0) = {}
    BY DEF Passed
  <1>2. ASSUME NEW k \in Nat
        PROVE  Passed(s, k + 1) = Passed(s, k) \cup {(s + k) % N}
    <2>1. 0 .. (k + 1 - 1) = (0 .. (k - 1)) \cup {k}
      OBVIOUS
    <2> QED  BY <2>1 DEF Passed
  <1>3. Passed(s, N) \subseteq Nodes
    BY NAssumption DEF Passed, Nodes
  <1>4. ASSUME NEW n \in Nodes
        PROVE  n \in Passed(s, N)
    <2>1. CASE n >= s
      <3>1. n - s \in 0 .. (N - 1) /\ s + (n - s) = n
        BY <2>1, NAssumption DEF Nodes
      <3> QED  BY <3>1, Remainder DEF Passed
    <2>2. CASE n < s
      <3>1. n + N - s \in 0 .. (N - 1) /\ s + (n + N - s) = n + N
        BY <2>2, NAssumption DEF Nodes
      <3> QED  BY <3>1, Remainder DEF Passed
    <2> QED  BY <2>1, <2>2, NAssumption DEF Nodes
  <1> QED  BY <1>1, <1>2, <1>3, <1>4

(* What EveryNodeTried rests on: a call has tried the nodes that its pass  *)
(* has passed.                                                             *)
Exhausted(r) == N > 1 /\ outcome[r] \in Retryable \cup {"StateError", "Server"}

HasTried(r) ==
    /\ pc[r] \in Busy \cup {"open"} => tried[r] = Passed(start[r], offset[r])
    /\ pc[r] = "finish" /\ Exhausted(r) => tried[r] = Nodes

LEMMA HasTriedStep ==
    ASSUME Types, NEW r \in Requests, HasTried(r), CallSteps(r)
    PROVE  HasTried(r)'
  <1>1. /\ pc \in [Requests -> Running \cup {"idle", "done"}]
        /\ outcome \in [Requests -> Answers \cup OpenErrors \cup {"none", "LockData"}]
        /\ answer \in [Requests -> Answers \cup {"none"}]
        /\ start \in [Requests -> Nodes] /\ offset \in [Requests -> 0 .. N]
        /\ tried \in [Requests -> SUBSET Nodes]
        /\ N \in Nat /\ (N > 1 => N # 1)
        /\ active \in Nodes \cup {NoNode}
    BY NAssumption DEF Types, CallType, PlaceType, NetType
  <1>2. /\ Passed(start[r], 0) = {}
        /\ Passed(start[r], offset[r] + 1) = Passed(start[r], offset[r]) \cup {At(r)}
        /\ Passed(start[r], N) = Nodes
        /\ \A s \in Nodes : Passed(s, 0) = {}
    BY <1>1, PassedFacts DEF At
  <1> USE DEF HasTried, Exhausted, Busy, passVars
  <1>3. CASE \/ Begin(r) \/ BeginNotEncodable(r) \/ Unqueue(r) \/ CallDropped(r) \/ PassSleeps(r)
             \/ Wake(r)
    <2>1. pc'[r] \notin Busy \cup {"open", "finish"}
      BY <1>1, <1>3, DroppedOnly
      DEF Begin, BeginNotEncodable, Unqueue, Drop, Forget, PassSleeps, Sleep, Wake
    <2> QED  BY <2>1
  <1>4. CASE PassStart(r)
    <2>1. pc'[r] = "open" /\ start'[r] \in Nodes /\ offset'[r] = 0 /\ tried'[r] = {}
      BY <1>1, <1>4, NAssumption DEF PassStart, Nodes, NoNode
    <2> QED  BY <1>2, <2>1
  <1>5. CASE StartOpen(r) \/ InitAnswered(r) \/ Serve(r) \/ ServeHalfClosed(r) \/ ResultRetry(r)
    BY <1>1, <1>5 DEF StartOpen, AtNode, InitAnswered, Serve, ServeHalfClosed, HalfClosed,
                      Answered, ResultRetry
  <1>6. CASE Proceeds(r)
    <2>1. CASE SkipNode(r) \/ OpenRefused(r)
      BY <1>1, <1>2, <2>1 DEF SkipNode, OpenRefused, OpenFails
    <2>2. CASE FindOpen(r) \/ Connect(r) \/ Connected(r) \/ Register(r) \/ LockWriter(r)
      BY <1>1, <2>2 DEF FindOpen, AtNode, Connect, Connected, Register, LockWriter
    <2>3. CASE Refused(r) \/ NotConnected(r) \/ Written(r) \/ WriteFails(r) \/ SendTimesOut(r)
      BY <1>1, <2>3 DEF Refused, NotConnected, Written, WriteFails, SendTimesOut
    <2> QED  BY <1>6, <2>1, <2>2, <2>3 DEF Proceeds
  <1>7. CASE ResultStateError(r) \/ CloseClient(r)
    BY <1>1, <1>2, <1>7 DEF ResultStateError, CloseClient, NextNode
  <1>8. CASE ResultOk(r) \/ ResultError(r)
    <2>1. pc'[r] = "finish" /\ outcome'[r] = answer[r]
          /\ (N > 1 => answer[r] \in {"Ok", "CommandTimeout", "Protocol"})
      BY <1>1, <1>8 DEF ResultOk, Accepted, ResultError, Finish
    <2> QED  BY <2>1 DEF Retryable
  <1>9. CASE PassReportsStateError(r) \/ PassGivesUp(r)
    BY <1>1, <1>2, <1>9 DEF PassReportsStateError, PassGivesUp, PassDone, Finish
  <1> QED
    BY <1>3, <1>4, <1>5, <1>6, <1>7, <1>8, <1>9 DEF CallSteps, Ends

LEMMA HasTriedNext ==
    ASSUME Types, \A r \in Requests : HasTried(r), [AioNext]_vars
    PROVE  \A r \in Requests : HasTried(r)'
  <1> SUFFICES ASSUME NEW q \in Requests PROVE HasTried(q)'
    OBVIOUS
  <1>0. CallType /\ PlaceType /\ TimeType
    BY DEF Types
  <1>1. ASSUME UNCHANGED <<pc[q], start[q], offset[q], tried[q], outcome[q]>>
        PROVE  HasTried(q)'
    BY <1>1 DEF HasTried, Exhausted
  <1>2. ASSUME NEW r \in Requests, CallSteps(r)
        PROVE  HasTried(q)'
    <2>1. CASE q = r
      BY <1>2, <2>1, HasTriedStep
    <2>2. CASE q # r
      BY <1>0, <1>1, <1>2, <2>2, OthersSame DEF Same
    <2> QED  BY <2>1, <2>2
  <1>3. CASE Elsewhere \/ (\E n : Wakes(n)) \/ Tick \/ UNCHANGED vars
    <2>1. UNCHANGED <<pc, start, offset, tried, outcome>>
      BY <1>3, ElsewhereLeavesCalls, WakesOnly DEF Tick, vars, callVars, passVars
    <2> QED  BY <1>1, <2>1
  <1> QED
    BY <1>2, <1>3, Steps

LEMMA HasTriedInit == Init => \A r \in Requests : HasTried(r)
  BY DEF Init, HasTried, Busy

LEMMA HasTriedIs == (\A r \in Requests : HasTried(r)) => EveryNodeTried
  BY DEF HasTried, Exhausted, EveryNodeTried

(* With several nodes a transport error, a refusal or STATE_ERROR is       *)
(* reported only after a pass in which every node has failed the call, for *)
(* any number of nodes, wherever the pass began, and whatever became of    *)
(* active_index meanwhile (send_pending_command, 306-342).                 *)
THEOREM EveryNodeTriedHolds == Spec => []EveryNodeTried
  <1> DEFINE Inv == Types /\ \A r \in Requests : HasTried(r)
  <1>1. Init => Inv
    BY TypesInit, HasTriedInit
  <1>2. Inv /\ [AioNext]_vars => Inv'
    BY TypesNext, HasTriedNext
  <1>3. Inv => EveryNodeTried
    BY HasTriedIs
  <1> QED
    BY <1>1, <1>2, <1>3, AioSteps, PTL DEF Spec

(* The same of the aio client, whoever is dropped                          *)
(* (aio send_pending_command, 302-354).                                    *)
THEOREM AioEveryNodeTriedHolds == AioSpec => []EveryNodeTried
  <1> DEFINE Inv == Types /\ \A r \in Requests : HasTried(r)
  <1>1. Init => Inv
    BY TypesInit, HasTriedInit
  <1>2. Inv /\ [AioNext]_vars => Inv'
    BY TypesNext, HasTriedNext
  <1>3. Inv => EveryNodeTried
    BY HasTriedIs
  <1> QED
    BY <1>1, <1>2, <1>3, PTL DEF AioSpec
============================================================================
