--------------------- MODULE BlockingConnection_proofs ---------------------
(***************************************************************************)
(* What every instance of BlockingConnection satisfies, whatever the       *)
(* numbers of calls, connections, opening and closing threads: its types,  *)
(* the wake-up token of every registered call, and the implementation of   *)
(* RequestReply.                                                           *)
(***************************************************************************)
EXTENDS BlockingConnection, FiniteSetTheorems, TLAPS

(* The inductive invariant. *)
IInv == TypeOK /\ WakeToken /\ WireInv

USE DEF callVars, openVars, netVars, vars

(* Every variable has its type in every reachable state. *)
LEMMA TypeInit == Init => TypeOK
  <1> SUFFICES ASSUME Init PROVE TypeOK
    OBVIOUS
  <1>1. closed \in BOOLEAN /\ writer \in Conns \cup {NoConn} /\ pending \subseteq Requests
        /\ initType \in Conns \cup {NoConn} /\ served \subseteq Requests
    BY DEF Init
  <1>2. chan \in [Requests -> Messages \cup {"empty"}] /\ call \in [Requests -> CallStates]
        /\ outcome \in [Requests -> Outcomes \cup {"none"}]
    BY DEF Init, CallStates
  <1>3. /\ opener \in [Openers -> {"idle", "reset", "connect", "install", "spawn"}]
        /\ stream \in [Openers -> Conns \cup {NoConn}]
        /\ \A o \in Openers : opener[o] \in {"install", "spawn"} => stream[o] # NoConn
        /\ closer \in [Closers -> {"idle", "takeWriter", "wakeAll"}]
    BY DEF Init
  <1>4. /\ reader \in [Conns -> {"none", "reading", "lockPending", "takeWriter", "dead"}]
        /\ socket \in [Conns -> {"unused", "up", "down"}]
    BY DEF Init
  <1>5. inflight \in [Conns -> SUBSET Requests] /\ replies \in [Conns -> SUBSET Requests]
    BY DEF Init
  <1> QED  BY <1>1, <1>2, <1>3, <1>4, <1>5 DEF TypeOK

LEMMA TypeNext == TypeOK /\ [Next]_vars => TypeOK'
  <1> SUFFICES ASSUME TypeOK, [Next]_vars PROVE TypeOK'
    OBVIOUS
  <1> USE DEF TypeOK, CallStates, Messages, Outcomes
  <1>1. ASSUME NEW r \in Requests, CallStart(r) \/ CallStep(r) \/ CallTimeout(r)
        PROVE TypeOK'
    <2>1. CASE CallStart(r)         BY <2>1 DEF CallStart
    <2>2. CASE CallClosed(r)        BY <2>2 DEF CallClosed, Return
    <2>3. CASE CallNotEncodable(r)  BY <2>3 DEF CallNotEncodable, Return
    <2>4. CASE CallEncode(r)        BY <2>4 DEF CallEncode
    <2>5. CASE CallInsert(r)        BY <2>5 DEF CallInsert
    <2>6. CASE CallLockWriter(r)    BY <2>6 DEF CallLockWriter
    <2>7. CASE CallNotConnected(r)  BY <2>7 DEF CallNotConnected, Return
    <2>8. CASE CallWrite(r)         BY <2>8 DEF CallWrite
    <2>9. CASE CallWriteError(r)    BY <2>9 DEF CallWriteError
    <2>10. CASE CallWriteFailed(r)  BY <2>10 DEF CallWriteFailed, Return
    <2>11. CASE CallReceive(r)      BY <2>11 DEF CallReceive, Return
    <2>12. CASE CallTimeout(r)      BY <2>12 DEF CallTimeout
    <2>13. CASE CallTimedOut(r)     BY <2>13 DEF CallTimedOut, Return
    <2> QED  BY <1>1, <2>1, <2>2, <2>3, <2>4, <2>5, <2>6, <2>7, <2>8, <2>9, <2>10,
                <2>11, <2>12, <2>13 DEF CallStep
  <1>2. ASSUME NEW o \in Openers, OpenCheck(o) \/ OpenStep(o)
        PROVE TypeOK'
    <2>1. CASE OpenCheck(o)    BY <2>1 DEF OpenCheck
    <2>2. CASE OpenReset(o)    BY <2>2 DEF OpenReset
    <2>3. CASE OpenFail(o)     BY <2>3 DEF OpenFail
    <2>4. CASE OpenConnect(o)  BY <2>4, ConstantsOK DEF OpenConnect
    <2>5. CASE OpenInstall(o)  BY <2>5 DEF OpenInstall
    <2>6. CASE OpenSpawn(o)    BY <2>6 DEF OpenSpawn
    <2>7. CASE OpenCloneFail(o)  BY <2>7 DEF OpenCloneFail
    <2> QED  BY <1>2, <2>1, <2>2, <2>3, <2>4, <2>5, <2>6, <2>7 DEF OpenStep
  <1>3. ASSUME NEW k \in Closers, CloseStart(k) \/ CloseStep(k)
        PROVE TypeOK'
    <2>1. CASE CloseStart(k)       BY <2>1 DEF CloseStart
    <2>2. CASE CloseTakeWriter(k)  BY <2>2 DEF CloseTakeWriter
    <2>3. CASE CloseWakeAll(k)     BY <2>3 DEF CloseWakeAll, Drain
    <2> QED  BY <1>3, <2>1, <2>2, <2>3 DEF CloseStep
  <1>4. ASSUME NEW c \in Conns, ReaderStep(c) \/ Serve(c) \/ ConnectionLost(c)
        PROVE TypeOK'
    <2>1. CASE ReaderDeliver(c)     BY <2>1 DEF ReaderDeliver
    <2>2. CASE ReaderFail(c)        BY <2>2 DEF ReaderFail
    <2>3. CASE ReaderDrain(c)       BY <2>3 DEF ReaderDrain, Drain
    <2>4. CASE ReaderTakeWriter(c)  BY <2>4 DEF ReaderTakeWriter
    <2>5. CASE ReaderExtraFail(c)   BY <2>5 DEF ReaderExtraFail, Drain
    <2>6. CASE Serve(c)             BY <2>6 DEF Serve
    <2>7. CASE ConnectionLost(c)    BY <2>7 DEF ConnectionLost
    <2> QED  BY <1>4, <2>1, <2>2, <2>3, <2>4, <2>5, <2>6, <2>7 DEF ReaderStep
  <1>5. CASE UNCHANGED vars
    BY <1>5
  <1> QED
    BY <1>1, <1>2, <1>3, <1>4, <1>5 DEF Next

---------------------------------------------------------------------------
(* The token of a registered call is preserved by every step. *)
LEMMA WakeNext == TypeOK /\ WakeToken /\ [Next]_vars => WakeToken'
  <1> SUFFICES ASSUME TypeOK, WakeToken, [Next]_vars PROVE WakeToken'
    OBVIOUS
  <1> USE DEF TypeOK, WakeToken, Registered, CallStates, Messages
  <1>1. ASSUME NEW r \in Requests, CallStart(r) \/ CallStep(r) \/ CallTimeout(r)
        PROVE  WakeToken'
    <2>1. CASE CallStart(r)  BY <2>1 DEF CallStart
    <2>2. CASE CallClosed(r)  BY <2>2 DEF CallClosed, Return
    <2>3. CASE CallNotEncodable(r)  BY <2>3 DEF CallNotEncodable, Return
    <2>4. CASE CallEncode(r)  BY <2>4 DEF CallEncode
    <2>5. CASE CallInsert(r)  BY <2>5 DEF CallInsert
    <2>6. CASE CallLockWriter(r)  BY <2>6 DEF CallLockWriter
    <2>7. CASE CallNotConnected(r)  BY <2>7 DEF CallNotConnected, Return
    <2>8. CASE CallWrite(r)  BY <2>8 DEF CallWrite
    <2>9. CASE CallWriteError(r)  BY <2>9 DEF CallWriteError
    <2>10. CASE CallWriteFailed(r)  BY <2>10 DEF CallWriteFailed, Return
    <2>11. CASE CallReceive(r)  BY <2>11 DEF CallReceive, Return
    <2>12. CASE CallTimeout(r)  BY <2>12 DEF CallTimeout
    <2>13. CASE CallTimedOut(r)  BY <2>13 DEF CallTimedOut, Return
    <2> QED  BY <1>1, <2>1, <2>2, <2>3, <2>4, <2>5, <2>6, <2>7, <2>8, <2>9, <2>10, <2>11, <2>12, <2>13 DEF CallStep
  <1>2. ASSUME NEW o \in Openers, OpenCheck(o) \/ OpenStep(o)
        PROVE  WakeToken'
    <2>1. CASE OpenCheck(o)  BY <2>1 DEF OpenCheck
    <2>2. CASE OpenReset(o)  BY <2>2 DEF OpenReset
    <2>3. CASE OpenFail(o)  BY <2>3 DEF OpenFail
    <2>4. CASE OpenConnect(o)  BY <2>4 DEF OpenConnect
    <2>5. CASE OpenInstall(o)  BY <2>5 DEF OpenInstall
    <2>6. CASE OpenSpawn(o)  BY <2>6 DEF OpenSpawn
    <2>7. CASE OpenCloneFail(o)  BY <2>7 DEF OpenCloneFail
    <2> QED  BY <1>2, <2>1, <2>2, <2>3, <2>4, <2>5, <2>6, <2>7 DEF OpenStep
  <1>3. ASSUME NEW k \in Closers, CloseStart(k) \/ CloseStep(k)
        PROVE  WakeToken'
    <2>1. CASE CloseStart(k)  BY <2>1 DEF CloseStart
    <2>2. CASE CloseTakeWriter(k)  BY <2>2 DEF CloseTakeWriter
    <2>3. CASE CloseWakeAll(k)  BY <2>3 DEF CloseWakeAll, Drain
    <2> QED  BY <1>3, <2>1, <2>2, <2>3 DEF CloseStep
  <1>4. ASSUME NEW c \in Conns, ReaderStep(c) \/ Serve(c) \/ ConnectionLost(c)
        PROVE  WakeToken'
    <2>1. CASE ReaderDeliver(c)  BY <2>1 DEF ReaderDeliver
    <2>2. CASE ReaderFail(c)  BY <2>2 DEF ReaderFail
    <2>3. CASE ReaderDrain(c)  BY <2>3 DEF ReaderDrain, Drain
    <2>4. CASE ReaderTakeWriter(c)  BY <2>4 DEF ReaderTakeWriter
    <2>5. CASE ReaderExtraFail(c)  BY <2>5 DEF ReaderExtraFail, Drain
    <2>6. CASE Serve(c)  BY <2>6 DEF Serve
    <2>7. CASE ConnectionLost(c)  BY <2>7 DEF ConnectionLost
    <2> QED  BY <1>4, <2>1, <2>2, <2>3, <2>4, <2>5, <2>6, <2>7 DEF ReaderStep
  <1>5. CASE UNCHANGED vars
    BY <1>5
  <1> QED
    BY <1>1, <1>2, <1>3, <1>4, <1>5 DEF Next

(* What is on the wire is what the calls wrote, and every answer is the    *)
(* server's.                                                               *)
LEMMA WireNext == TypeOK /\ WakeToken /\ WireInv /\ [Next]_vars => WireInv'
  <1> SUFFICES ASSUME TypeOK, WakeToken, WireInv, [Next]_vars PROVE WireInv'
    OBVIOUS
  <1> USE DEF TypeOK, WireInv, Sent, CallStates, Messages, WriterFree
  <1>1. ASSUME NEW r \in Requests, CallStart(r) \/ CallStep(r) \/ CallTimeout(r)
        PROVE  WireInv'
    <2>1. CASE CallStart(r)  BY <2>1 DEF CallStart
    <2>2. CASE CallClosed(r)  BY <2>2 DEF CallClosed, Return
    <2>3. CASE CallNotEncodable(r)  BY <2>3 DEF CallNotEncodable, Return
    <2>4. CASE CallEncode(r)  BY <2>4 DEF CallEncode
    <2>5. CASE CallInsert(r)  BY <2>5 DEF CallInsert
    <2>6. CASE CallLockWriter(r)  BY <2>6 DEF CallLockWriter
    <2>7. CASE CallNotConnected(r)  BY <2>7 DEF CallNotConnected, Return
    <2>8. CASE CallWrite(r)  BY <2>8 DEF CallWrite
    <2>9. CASE CallWriteError(r)  BY <2>9 DEF CallWriteError
    <2>10. CASE CallWriteFailed(r)  BY <2>10 DEF CallWriteFailed, Return
    <2>11. CASE CallReceive(r)  BY <2>11 DEF CallReceive, Return
    <2>12. CASE CallTimeout(r)  BY <2>12 DEF CallTimeout
    <2>13. CASE CallTimedOut(r)  BY <2>13 DEF CallTimedOut, Return
    <2> QED  BY <1>1, <2>1, <2>2, <2>3, <2>4, <2>5, <2>6, <2>7, <2>8, <2>9, <2>10, <2>11, <2>12, <2>13 DEF CallStep
  <1>2. ASSUME NEW o \in Openers, OpenCheck(o) \/ OpenStep(o)
        PROVE  WireInv'
    <2>1. CASE OpenCheck(o)  BY <2>1 DEF OpenCheck
    <2>2. CASE OpenReset(o)  BY <2>2 DEF OpenReset
    <2>3. CASE OpenFail(o)  BY <2>3 DEF OpenFail
    <2>4. CASE OpenConnect(o)  BY <2>4 DEF OpenConnect
    <2>5. CASE OpenInstall(o)  BY <2>5 DEF OpenInstall
    <2>6. CASE OpenSpawn(o)  BY <2>6 DEF OpenSpawn
    <2>7. CASE OpenCloneFail(o)  BY <2>7 DEF OpenCloneFail
    <2> QED  BY <1>2, <2>1, <2>2, <2>3, <2>4, <2>5, <2>6, <2>7 DEF OpenStep
  <1>3. ASSUME NEW k \in Closers, CloseStart(k) \/ CloseStep(k)
        PROVE  WireInv'
    <2>1. CASE CloseStart(k)  BY <2>1 DEF CloseStart
    <2>2. CASE CloseTakeWriter(k)  BY <2>2 DEF CloseTakeWriter
    <2>3. CASE CloseWakeAll(k)  BY <2>3 DEF CloseWakeAll, Drain
    <2> QED  BY <1>3, <2>1, <2>2, <2>3 DEF CloseStep
  <1>4. ASSUME NEW c \in Conns, ReaderStep(c) \/ Serve(c) \/ ConnectionLost(c)
        PROVE  WireInv'
    <2>1. CASE ReaderDeliver(c)  BY <2>1 DEF ReaderDeliver
    <2>2. CASE ReaderFail(c)  BY <2>2 DEF ReaderFail
    <2>3. CASE ReaderDrain(c)  BY <2>3 DEF ReaderDrain, Drain
    <2>4. CASE ReaderTakeWriter(c)  BY <2>4 DEF ReaderTakeWriter
    <2>5. CASE ReaderExtraFail(c)  BY <2>5 DEF ReaderExtraFail, Drain
    <2>6. CASE Serve(c)  BY <2>6 DEF Serve
    <2>7. CASE ConnectionLost(c)  BY <2>7 DEF ConnectionLost
    <2> QED  BY <1>4, <2>1, <2>2, <2>3, <2>4, <2>5, <2>6, <2>7 DEF ReaderStep
  <1>5. CASE UNCHANGED vars
    BY <1>5
  <1> QED
    BY <1>1, <1>2, <1>3, <1>4, <1>5 DEF Next

---------------------------------------------------------------------------
(* The invariant in every reachable state of every instance. *)
THEOREM Invariant == Spec => []IInv
  <1>1. Init => IInv
    BY TypeInit DEF Init, IInv, WakeToken, Registered, WireInv, Sent, CallStates
  <1>2. IInv /\ [Next]_vars => IInv'
    BY TypeNext, WakeNext, WireNext DEF IInv
  <1> QED  BY <1>1, <1>2, PTL DEF Spec

(* The variables keep their types. *)
THEOREM TypeCorrect == Spec => []TypeOK
  BY Invariant, PTL DEF IInv

(* A registered call is owed exactly one message, and no entry of the      *)
(* pending map outlives its call, for any number of threads, connections   *)
(* and calls.                                                              *)
THEOREM WakeTokenHolds == Spec => []WakeToken
  BY Invariant, PTL DEF IInv

(* Every request is written at most once, executed at most once, and       *)
(* answered only by the server.                                            *)
THEOREM WireInvHolds == Spec => []WireInv
  BY Invariant, PTL DEF IInv

---------------------------------------------------------------------------
(* A call that returns an outcome it may rely on is a Return of            *)
(* RequestReply.                                                           *)
LEMMA ReturnRefines ==
  ASSUME call \in [Requests -> CallStates], NEW r \in Requests, NEW o \in RR!Outcomes,
         call[r] \notin {"idle", "done"}, Return(r, o), UNCHANGED netVars,
         o \in RR!Answered => r \in served,
         o \in RR!NeverSent => r \notin Sent,
         o = "CommandTimeout" => r \in Sent
  PROVE  RR!Next
  <1>1. Status[r] = "active" /\ Status' = [Status EXCEPT ![r] = "done"]
    BY DEF Return, Status
  <1>2. Sent' = Sent /\ served' = served
    BY DEF Sent
  <1>3. RR!Return(r, o)
    BY <1>1, <1>2 DEF Return, RR!Return
  <1> QED  BY <1>3 DEF RR!Next

(* Every step is a step of RequestReply or leaves its state alone. *)
LEMMA StepRefines == IInv /\ [Next]_vars => [RR!Next]_RR!vars
  <1> SUFFICES ASSUME IInv, [Next]_vars PROVE [RR!Next]_RR!vars
    OBVIOUS
  <1> USE DEF IInv, TypeOK, WireInv, Status, Sent, CallStates, Messages, RR!vars
  <1>1. ASSUME NEW r \in Requests, CallStart(r) \/ CallStep(r) \/ CallTimeout(r)
        PROVE  [RR!Next]_RR!vars
    <2>1. CASE CallStart(r)
      <3>1. RR!Begin(r)
        BY <2>1 DEF CallStart, RR!Begin
      <3> QED  BY <3>1 DEF RR!Next
    <2>2. CASE CallClosed(r)
      <3>1. Return(r, "ClientClosed") /\ call[r] \notin {"idle", "done"} /\ UNCHANGED netVars
        BY <2>2 DEF CallClosed
      <3> QED  BY <2>2, <3>1, ReturnRefines DEF CallClosed, RR!Outcomes, RR!Answered, RR!NeverSent
    <2>3. CASE CallNotEncodable(r)
      <3>1. Return(r, "LockData") /\ call[r] \notin {"idle", "done"} /\ UNCHANGED netVars
        BY <2>3 DEF CallNotEncodable
      <3> QED  BY <2>3, <3>1, ReturnRefines DEF CallNotEncodable, RR!Outcomes, RR!Answered, RR!NeverSent
    <2>4. CASE CallEncode(r)  BY <2>4 DEF CallEncode
    <2>5. CASE CallInsert(r)  BY <2>5 DEF CallInsert
    <2>6. CASE CallLockWriter(r)  BY <2>6 DEF CallLockWriter
    <2>7. CASE CallNotConnected(r)
      <3>1. Return(r, "NotConnected") /\ call[r] \notin {"idle", "done"} /\ UNCHANGED netVars
        BY <2>7 DEF CallNotConnected
      <3> QED  BY <2>7, <3>1, ReturnRefines DEF CallNotConnected, RR!Outcomes, RR!Answered, RR!NeverSent
    <2>8. CASE CallWrite(r)
      <3>1. RR!Send(r)
        BY <2>8 DEF CallWrite, RR!Send
      <3> QED  BY <3>1 DEF RR!Next
    <2>9. CASE CallWriteError(r)  BY <2>9 DEF CallWriteError
    <2>10. CASE CallWriteFailed(r)
      <3>1. Return(r, "Io") /\ call[r] \notin {"idle", "done"} /\ UNCHANGED netVars
        BY <2>10 DEF CallWriteFailed
      <3> QED  BY <2>10, <3>1, ReturnRefines DEF CallWriteFailed, RR!Outcomes, RR!Answered, RR!NeverSent
    <2>11. CASE CallReceive(r)
      <3>1. PICK m \in Messages : chan[r] = m
        BY <2>11 DEF CallReceive
      <3>2. Return(r, m) /\ call[r] = "recv" /\ UNCHANGED netVars
        BY <2>11, <3>1 DEF CallReceive
      <3> QED  BY <3>1, <3>2, ReturnRefines DEF RR!Outcomes, RR!Answered, RR!NeverSent
    <2>12. CASE CallTimeout(r)  BY <2>12 DEF CallTimeout
    <2>13. CASE CallTimedOut(r)
      <3>1. Return(r, "CommandTimeout") /\ call[r] \notin {"idle", "done"} /\ UNCHANGED netVars
        BY <2>13 DEF CallTimedOut
      <3> QED  BY <2>13, <3>1, ReturnRefines DEF CallTimedOut, RR!Outcomes, RR!Answered, RR!NeverSent
    <2> QED  BY <1>1, <2>1, <2>2, <2>3, <2>4, <2>5, <2>6, <2>7, <2>8, <2>9, <2>10, <2>11, <2>12, <2>13 DEF CallStep
  <1>2. ASSUME NEW o \in Openers, OpenCheck(o) \/ OpenStep(o)
        PROVE  [RR!Next]_RR!vars
    <2>1. CASE OpenCheck(o)  BY <2>1 DEF OpenCheck
    <2>2. CASE OpenReset(o)  BY <2>2 DEF OpenReset
    <2>3. CASE OpenFail(o)  BY <2>3 DEF OpenFail
    <2>4. CASE OpenConnect(o)  BY <2>4 DEF OpenConnect
    <2>5. CASE OpenInstall(o)  BY <2>5 DEF OpenInstall
    <2>6. CASE OpenSpawn(o)  BY <2>6 DEF OpenSpawn
    <2>7. CASE OpenCloneFail(o)  BY <2>7 DEF OpenCloneFail
    <2> QED  BY <1>2, <2>1, <2>2, <2>3, <2>4, <2>5, <2>6, <2>7 DEF OpenStep
  <1>3. ASSUME NEW k \in Closers, CloseStart(k) \/ CloseStep(k)
        PROVE  [RR!Next]_RR!vars
    <2>1. CASE CloseStart(k)  BY <2>1 DEF CloseStart
    <2>2. CASE CloseTakeWriter(k)  BY <2>2 DEF CloseTakeWriter
    <2>3. CASE CloseWakeAll(k)  BY <2>3 DEF CloseWakeAll, Drain
    <2> QED  BY <1>3, <2>1, <2>2, <2>3 DEF CloseStep
  <1>4. ASSUME NEW c \in Conns, ReaderStep(c) \/ Serve(c) \/ ConnectionLost(c)
        PROVE  [RR!Next]_RR!vars
    <2>1. CASE ReaderDeliver(c)  BY <2>1 DEF ReaderDeliver
    <2>2. CASE ReaderFail(c)  BY <2>2 DEF ReaderFail
    <2>3. CASE ReaderDrain(c)  BY <2>3 DEF ReaderDrain, Drain
    <2>4. CASE ReaderTakeWriter(c)  BY <2>4 DEF ReaderTakeWriter
    <2>5. CASE ReaderExtraFail(c)  BY <2>5 DEF ReaderExtraFail, Drain
    <2>6. CASE Serve(c)
      <3>1. PICK r \in inflight[c] : /\ inflight' = [inflight EXCEPT ![c] = @ \ {r}]
                                     /\ served' = served \cup {r}
        BY <2>6 DEF Serve
      <3>2. r \in Requests /\ r \notin served /\ Sent' = Sent
        BY <3>1
      <3>3. RR!Serve(r)
        BY <2>6, <3>1, <3>2 DEF Serve, RR!Serve
      <3> QED  BY <3>2, <3>3 DEF RR!Next
    <2>7. CASE ConnectionLost(c)  BY <2>7 DEF ConnectionLost
    <2> QED  BY <1>4, <2>1, <2>2, <2>3, <2>4, <2>5, <2>6, <2>7 DEF ReaderStep
  <1>5. CASE UNCHANGED vars
    BY <1>5
  <1> QED
    BY <1>1, <1>2, <1>3, <1>4, <1>5 DEF Next

(* The connection implements RequestReply: whatever races its threads run, *)
(* each call goes on the wire and is executed at most once and returns     *)
(* once, with an outcome the caller can rely on.                           *)
THEOREM Refinement == Spec => RRSpec
  <1>1. Init => RR!Init
    BY DEF Init, RR!Init, Status, Sent
  <1>2. IInv /\ [Next]_vars => [RR!Next]_RR!vars
    BY StepRefines
  <1> QED  BY <1>1, <1>2, Invariant, PTL DEF Spec, RRSpec, RR!Spec

(* In RequestReply: OutcomeStable with the types it needs, and that a call *)
(* that is running or not begun has no outcome yet.                        *)
StableInv ==
    /\ RR!TypeOK
    /\ RR!OutcomeStable
    /\ \A r \in Requests : Status[r] # "done" => outcome[r] = "none"

(* Whatever implements RequestReply keeps StableInv.                       *)
LEMMA StableOutcomes == RR!Spec => []StableInv
  <1> USE DEF StableInv, RR!TypeOK, RR!OutcomeStable, RR!Outcomes, RR!Answered, RR!NeverSent
  <1>1. RR!Init => StableInv
    BY DEF RR!Init
  <1>2. StableInv /\ [RR!Next]_RR!vars => StableInv'
    <2> SUFFICES ASSUME StableInv, [RR!Next]_RR!vars PROVE StableInv'
      OBVIOUS
    <2>1. ASSUME NEW r \in Requests, RR!Begin(r) PROVE StableInv'
      BY <2>1 DEF RR!Begin
    <2>2. ASSUME NEW r \in Requests, RR!Send(r) PROVE StableInv'
      BY <2>2 DEF RR!Send
    <2>3. ASSUME NEW r \in Requests, RR!Serve(r) PROVE StableInv'
      BY <2>3 DEF RR!Serve
    <2>4. ASSUME NEW r \in Requests, NEW o \in RR!Outcomes, RR!Return(r, o) PROVE StableInv'
      BY <2>4 DEF RR!Return
    <2>5. CASE UNCHANGED RR!vars
      BY <2>5 DEF RR!vars
    <2> QED  BY <2>1, <2>2, <2>3, <2>4, <2>5 DEF RR!Next
  <1> QED  BY <1>1, <1>2, PTL DEF RR!Spec

(* An outcome, once returned, says the truth about the request for ever:   *)
(* an answer was executed, NotConnected and LockData never were and never  *)
(* will be, a timeout went out.                                            *)
THEOREM OutcomeStableHolds == Spec => []RR!OutcomeStable
  <1>1. StableInv => RR!OutcomeStable
    BY DEF StableInv
  <1> QED  BY <1>1, Refinement, StableOutcomes, PTL DEF RRSpec

---------------------------------------------------------------------------
(* The life of a client that one thread opens again after every loss and   *)
(* that nobody closes.  Without closers and with one opener at a time the  *)
(* mutexes never meet, there is one reader, and a healthy connection stays *)
(* installed, for any number of calls and of connections.                  *)
Steady == Closers = {} /\ \A o, p \in Openers : o = p

Reads(c) == reader[c] \in {"reading", "lockPending", "takeWriter"}

(* While open() is under way nothing is installed but what it installs.    *)
OpenInv ==
    \A o \in Openers :
        /\ opener[o] \in {"reset", "connect", "install"} => writer = NoConn
        /\ opener[o] = "install" => /\ initType = stream[o]
                                    /\ reader[stream[o]] = "none"
                                    /\ socket[stream[o]] # "unused"
        /\ opener[o] = "spawn" => writer = stream[o] /\ reader[stream[o]] = "none"

(* A reader lives only for the connection in writer, and comes to its      *)
(* error path only once that connection is down.                           *)
ReaderInv ==
    \A c \in Conns :
        /\ Reads(c) => writer = c
        /\ reader[c] \in {"lockPending", "takeWriter"} => socket[c] = "down"
        /\ socket[c] = "unused" => reader[c] = "none" /\ writer # c

(* Who found no writer holds the writer mutex, so none is installed.       *)
UnpendInv == \A r \in Requests : call[r] = "unpend" => writer = NoConn

SteadyInv == ~closed /\ OpenInv /\ ReaderInv /\ UnpendInv /\ InitTypeOfWriter

LEMMA SteadyInit == Init => SteadyInv
  BY ConstantsOK DEF Init, SteadyInv, OpenInv, ReaderInv, UnpendInv, InitTypeOfWriter, Reads

LEMMA SteadyNext ==
    ASSUME Steady, TypeOK, WireInv, SteadyInv, [Next]_vars PROVE SteadyInv'
  <1> USE ConstantsOK DEF Steady, TypeOK, SteadyInv, OpenInv, ReaderInv, UnpendInv, InitTypeOfWriter,
          Reads, WriterFree, CallStates
  <1>1. ASSUME NEW r \in Requests, CallStart(r) \/ CallStep(r) \/ CallTimeout(r)
        PROVE  SteadyInv'
    <2>1. CASE CallStart(r)  BY <2>1 DEF CallStart
    <2>2. CASE CallClosed(r)  BY <2>2 DEF CallClosed, Return
    <2>3. CASE CallNotEncodable(r)  BY <2>3 DEF CallNotEncodable, Return
    <2>4. CASE CallEncode(r)  BY <2>4 DEF CallEncode
    <2>5. CASE CallInsert(r)  BY <2>5 DEF CallInsert
    <2>6. CASE CallLockWriter(r)  BY <2>6 DEF CallLockWriter
    <2>7. CASE CallNotConnected(r)  BY <2>7 DEF CallNotConnected, Return
    <2>8. CASE CallWrite(r)  BY <2>8 DEF CallWrite
    <2>9. CASE CallWriteError(r)  BY <2>9 DEF CallWriteError
    <2>10. CASE CallWriteFailed(r)  BY <2>10 DEF CallWriteFailed, Return
    <2>11. CASE CallReceive(r)  BY <2>11 DEF CallReceive, Return
    <2>12. CASE CallTimeout(r)  BY <2>12 DEF CallTimeout
    <2>13. CASE CallTimedOut(r)  BY <2>13 DEF CallTimedOut, Return
    <2> QED  BY <1>1, <2>1, <2>2, <2>3, <2>4, <2>5, <2>6, <2>7, <2>8, <2>9, <2>10, <2>11, <2>12, <2>13 DEF CallStep
  <1>2. ASSUME NEW o \in Openers, OpenCheck(o) \/ OpenStep(o)
        PROVE  SteadyInv'
    <2>1. CASE OpenCheck(o)  BY <2>1 DEF OpenCheck
    <2>2. CASE OpenReset(o)  BY <2>2 DEF OpenReset
    <2>3. CASE OpenFail(o)  BY <2>3 DEF OpenFail
    <2>4. CASE OpenConnect(o)  BY <2>4 DEF OpenConnect
    <2>5. CASE OpenCloneFail(o)  BY <2>5 DEF OpenCloneFail
    <2>6. CASE OpenInstall(o)  BY <2>6 DEF OpenInstall
    <2>7. CASE OpenSpawn(o)  BY <2>7 DEF OpenSpawn
    <2> QED  BY <1>2, <2>1, <2>2, <2>3, <2>4, <2>5, <2>6, <2>7 DEF OpenStep
  <1>3. ASSUME NEW c \in Conns, ReaderStep(c) \/ Serve(c) \/ ConnectionLost(c)
        PROVE  SteadyInv'
    <2>1. CASE ReaderDeliver(c)  BY <2>1 DEF ReaderDeliver
    <2>2. CASE ReaderFail(c)  BY <2>2 DEF ReaderFail
    <2>3. CASE ReaderDrain(c)  BY <2>3 DEF ReaderDrain, Drain
    <2>4. CASE ReaderTakeWriter(c)  BY <2>4 DEF ReaderTakeWriter
    <2>5. CASE ReaderExtraFail(c)  BY <2>5 DEF ReaderExtraFail, Drain
    <2>6. CASE Serve(c)  BY <2>6 DEF Serve
    <2>7. CASE ConnectionLost(c)  BY <2>7 DEF ConnectionLost
    <2> QED  BY <1>3, <2>1, <2>2, <2>3, <2>4, <2>5, <2>6, <2>7 DEF ReaderStep
  <1>4. CASE UNCHANGED vars
    BY <1>4
  <1> QED
    BY <1>1, <1>2, <1>3, <1>4 DEF Next, Steady

(* Without lock data a reader dies only once it has emptied pending and    *)
(* taken the writer.                                                       *)
WatchInv ==
    /\ \A c \in Conns : /\ reader[c] = "takeWriter" => pending = {}
                        /\ reader[c] = "dead" => writer # c
    /\ WaiterWatched

LEMMA WatchNext ==
    ASSUME Steady, ~ExtraData, TypeOK, WakeToken, WireInv, SteadyInv, WatchInv, [Next]_vars
    PROVE  WatchInv'
  <1> USE ConstantsOK DEF Steady, TypeOK, SteadyInv, OpenInv, ReaderInv, Reads, WatchInv, WaiterWatched,
          WakeToken, Registered, WriterFree, PendingFree, CallStates
  <1>1. ASSUME NEW r \in Requests, CallStart(r) \/ CallStep(r) \/ CallTimeout(r)
        PROVE  WatchInv'
    <2>1. CASE CallStart(r)  BY <2>1 DEF CallStart
    <2>2. CASE CallClosed(r)  BY <2>2 DEF CallClosed, Return
    <2>3. CASE CallNotEncodable(r)  BY <2>3 DEF CallNotEncodable, Return
    <2>4. CASE CallEncode(r)  BY <2>4 DEF CallEncode
    <2>5. CASE CallInsert(r)  BY <2>5 DEF CallInsert
    <2>6. CASE CallLockWriter(r)  BY <2>6 DEF CallLockWriter
    <2>7. CASE CallNotConnected(r)  BY <2>7 DEF CallNotConnected, Return
    <2>8. CASE CallWrite(r)
      <3>1. /\ writer \in Conns /\ reader[writer] # "dead"
            /\ \A c \in Conns : r \notin inflight[c] \cup replies[c]
        BY <2>8 DEF CallWrite, WireInv, Sent
      <3>2. \A q \in Requests, c \in Conns :
                q \in inflight'[c] /\ q \notin inflight[c] => q = r /\ c = writer
        BY <2>8, <3>1 DEF CallWrite
      <3> QED  BY <2>8, <3>1, <3>2 DEF CallWrite
    <2>9. CASE CallWriteError(r)  BY <2>9 DEF CallWriteError
    <2>10. CASE CallWriteFailed(r)  BY <2>10 DEF CallWriteFailed, Return
    <2>11. CASE CallReceive(r)  BY <2>11 DEF CallReceive, Return
    <2>12. CASE CallTimeout(r)  BY <2>12 DEF CallTimeout
    <2>13. CASE CallTimedOut(r)  BY <2>13 DEF CallTimedOut, Return
    <2> QED  BY <1>1, <2>1, <2>2, <2>3, <2>4, <2>5, <2>6, <2>7, <2>8, <2>9, <2>10, <2>11, <2>12, <2>13 DEF CallStep
  <1>2. ASSUME NEW o \in Openers, OpenCheck(o) \/ OpenStep(o)
        PROVE  WatchInv'
    <2>1. CASE OpenCheck(o)  BY <2>1 DEF OpenCheck
    <2>2. CASE OpenReset(o)  BY <2>2 DEF OpenReset
    <2>3. CASE OpenFail(o)  BY <2>3 DEF OpenFail
    <2>4. CASE OpenConnect(o)  BY <2>4 DEF OpenConnect
    <2>5. CASE OpenCloneFail(o)  BY <2>5 DEF OpenCloneFail
    <2>6. CASE OpenInstall(o)  BY <2>6 DEF OpenInstall
    <2>7. CASE OpenSpawn(o)  BY <2>7 DEF OpenSpawn
    <2> QED  BY <1>2, <2>1, <2>2, <2>3, <2>4, <2>5, <2>6, <2>7 DEF OpenStep
  <1>3. ASSUME NEW c \in Conns, ReaderStep(c) \/ Serve(c) \/ ConnectionLost(c)
        PROVE  WatchInv'
    <2>1. CASE ReaderDeliver(c)  BY <2>1 DEF ReaderDeliver
    <2>2. CASE ReaderFail(c)  BY <2>2 DEF ReaderFail
    <2>3. CASE ReaderDrain(c)  BY <2>3 DEF ReaderDrain, Drain
    <2>4. CASE ReaderTakeWriter(c)  BY <2>4 DEF ReaderTakeWriter
    <2>5. CASE ReaderExtraFail(c)  BY <2>5 DEF ReaderExtraFail, Drain
    <2>6. CASE Serve(c)  BY <2>6 DEF Serve
    <2>7. CASE ConnectionLost(c)  BY <2>7 DEF ConnectionLost
    <2> QED  BY <1>3, <2>1, <2>2, <2>3, <2>4, <2>5, <2>6, <2>7 DEF ReaderStep
  <1>4. CASE UNCHANGED vars
    BY <1>4
  <1> QED
    BY <1>1, <1>2, <1>3, <1>4 DEF Next, Steady


(* ... and so the invariant holds in every reachable state of such a life. *)
LEMMA SteadyInvariant == Steady => (Spec => []SteadyInv)
  <1> SUFFICES ASSUME Steady PROVE Spec => []SteadyInv
    OBVIOUS
  <1>1. Init => IInv /\ SteadyInv
    BY SteadyInit, TypeInit DEF Init, IInv, WakeToken, Registered, WireInv, Sent, CallStates
  <1>2. IInv /\ SteadyInv /\ [Next]_vars => SteadyInv'
    BY SteadyNext DEF IInv
  <1> QED  BY <1>1, <1>2, Invariant, PTL DEF Spec

(* A sender that found no writer and a reader in its error path never hold *)
(* one mutex each and want the other's.                                    *)
THEOREM NoLockCycleHolds == Steady => (Spec => []NoLockCycle)
  <1> SUFFICES ASSUME Steady PROVE Spec => []NoLockCycle
    OBVIOUS
  <1>1. SteadyInv => NoLockCycle
    BY ConstantsOK DEF SteadyInv, ReaderInv, UnpendInv, Reads, NoLockCycle
  <1> QED  BY <1>1, SteadyInvariant, PTL

(* Every live reader is the one of the connection in writer. *)
LEMMA SteadySoleReader ==
  ASSUME reader \in [Conns -> {"none", "reading", "lockPending", "takeWriter", "dead"}], SteadyInv
  PROVE  SoleReader
  <1> DEFINE Live == {c \in Conns : reader[c] \notin {"none", "dead"}}
  <1>1. Live \subseteq {writer}
    BY DEF SteadyInv, ReaderInv, Reads
  <1>2. IsFiniteSet({writer}) /\ Cardinality({writer}) = 1
    BY FS_Singleton
  <1>3. Cardinality(Live) <= 1
    <2> HIDE DEF Live
    <2> QED  BY <1>1, <1>2, FS_Subset
  <1> QED  BY <1>3 DEF SoleReader

(* There is one live reader at a time, so nobody drains the calls of       *)
(* another connection.                                                     *)
THEOREM SoleReaderHolds == Steady => (Spec => []SoleReader)
  <1> SUFFICES ASSUME Steady PROVE Spec => []SoleReader
    OBVIOUS
  <1>1. SteadyInv /\ TypeOK => SoleReader
    BY SteadySoleReader DEF TypeOK
  <1> QED  BY <1>1, SteadyInvariant, TypeCorrect, PTL

(* The leader flag is the one of the connection commands go out on.        *)
THEOREM InitTypeOfWriterHolds == Steady => (Spec => []InitTypeOfWriter)
  <1> SUFFICES ASSUME Steady PROVE Spec => []InitTypeOfWriter
    OBVIOUS
  <1>1. SteadyInv => InitTypeOfWriter
    BY DEF SteadyInv
  <1> QED  BY <1>1, SteadyInvariant, PTL

(* A connection leaves writer only once its socket is down: neither an     *)
(* open() nor a reader's error path throws out one that works.             *)
THEOREM HealthyWriterKeptHolds == Steady => (Spec => HealthyWriterKept)
  <1> SUFFICES ASSUME Steady PROVE Spec => HealthyWriterKept
    OBVIOUS
  <1> DEFINE Kept == \A c \in Conns : writer = c /\ writer' # c => socket[c] = "down"
  <1>1. TypeOK /\ SteadyInv /\ [Next]_vars => [Kept]_vars
    <2> SUFFICES ASSUME TypeOK, SteadyInv, [Next]_vars PROVE Kept
      OBVIOUS
    <2>1. ASSUME writer' # writer
          PROVE  \/ \E o \in Openers : OpenInstall(o)
                 \/ \E k \in Closers : CloseTakeWriter(k)
                 \/ \E c \in Conns : ReaderTakeWriter(c)
      <3>1. ~ \E r \in Requests : CallStart(r) \/ CallStep(r) \/ CallTimeout(r)
        BY <2>1 DEF CallStart, CallStep, CallTimeout, CallClosed, CallNotEncodable, CallEncode,
              CallInsert, CallLockWriter, CallNotConnected, CallWrite, CallWriteError,
              CallWriteFailed, CallReceive, CallTimedOut
      <3>2. ASSUME NEW o \in Openers, OpenCheck(o) \/ OpenStep(o) PROVE OpenInstall(o)
        BY <2>1, <3>2 DEF OpenCheck, OpenStep, OpenReset, OpenFail, OpenConnect, OpenCloneFail, OpenSpawn
      <3>3. ASSUME NEW k \in Closers, CloseStart(k) \/ CloseStep(k) PROVE CloseTakeWriter(k)
        BY <2>1, <3>3 DEF CloseStart, CloseStep, CloseWakeAll
      <3>4. ASSUME NEW c \in Conns, ReaderStep(c) \/ Serve(c) \/ ConnectionLost(c)
            PROVE  ReaderTakeWriter(c)
        BY <2>1, <3>4 DEF ReaderStep, Serve, ConnectionLost, ReaderDeliver, ReaderFail, ReaderDrain,
              ReaderExtraFail
      <3> QED  BY <2>1, <3>1, <3>2, <3>3, <3>4 DEF Next
    <2>2. ASSUME NEW o \in Openers, OpenInstall(o) PROVE Kept
      BY <2>2, ConstantsOK DEF OpenInstall, SteadyInv, OpenInv
    <2>3. ASSUME NEW c \in Conns, ReaderTakeWriter(c) PROVE Kept
      BY <2>3 DEF ReaderTakeWriter, SteadyInv, ReaderInv, Reads
    <2> QED  BY <2>1, <2>2, <2>3 DEF Steady
  <1>2. Spec => [][Kept]_vars
    BY <1>1, TypeCorrect, SteadyInvariant, PTL DEF Spec
  <1> QED  BY <1>2 DEF HealthyWriterKept

(* A call that waits for an answer from c has c's reader, or the open()    *)
(* that is about to spawn it, still ahead, so that a loss wakes it.        *)
THEOREM WaiterWatchedHolds == Steady /\ ~ExtraData => (Spec => []WaiterWatched)
  <1> SUFFICES ASSUME Steady, ~ExtraData PROVE Spec => []WaiterWatched
    OBVIOUS
  <1>1. Init => WatchInv
    BY ConstantsOK DEF Init, WatchInv, WaiterWatched
  <1>2. IInv /\ SteadyInv /\ WatchInv /\ [Next]_vars => WatchInv'
    BY WatchNext DEF IInv
  <1>3. WatchInv => WaiterWatched
    BY DEF WatchInv
  <1> QED  BY <1>1, <1>2, <1>3, Invariant, SteadyInvariant, PTL DEF Spec

============================================================================
