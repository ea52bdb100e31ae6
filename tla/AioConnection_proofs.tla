----------------------- MODULE AioConnection_proofs -----------------------
(***************************************************************************)
(* What every instance of AioConnection satisfies: its types, the wake-up  *)
(* token of every registered call with futures dropped around it, and the  *)
(* implementation of RequestReply; and, for a client that one task opens   *)
(* and nobody closes, what BlockingConnection_proofs shows of the threads. *)
(***************************************************************************)
EXTENDS AioConnection, BlockingConnection_proofs

USE DEF callVars, openVars, netVars, vars, aioVars, allVars

(* Every variable has its type in every reachable state. *)
LEMMA AioTypeInit == AioInit => AioTypeOK
  <1> SUFFICES ASSUME AioInit PROVE AioTypeOK
    OBVIOUS
  <1>1. /\ closed \in BOOLEAN /\ writer \in Conns \cup {NoConn} /\ pending \subseteq Requests
        /\ initType \in Conns \cup {NoConn} /\ served \subseteq Requests
        /\ torn \subseteq Conns /\ garbled \subseteq Requests
    BY DEF AioInit, Init
  <1>2. chan \in [Requests -> Messages \cup {"empty"}] /\ call \in [Requests -> CallStates]
        /\ outcome \in [Requests -> Outcomes \cup {"none", "Cancelled"}]
    BY DEF AioInit, Init, CallStates
  <1>3. /\ opener \in [Openers -> {"idle", "reset", "connect", "install"}]
        /\ stream \in [Openers -> Conns \cup {NoConn}]
        /\ \A o \in Openers : opener[o] = "install" => stream[o] # NoConn
        /\ closer \in [Closers -> {"idle", "takeWriter", "wakeAll"}]
    BY DEF AioInit, Init
  <1>4. /\ reader \in [Conns -> {"none", "reading", "lockPending", "takeWriter", "dead"}]
        /\ socket \in [Conns -> {"unused", "up", "half", "down"}]
    BY DEF AioInit, Init
  <1>5. inflight \in [Conns -> SUBSET Requests] /\ replies \in [Conns -> SUBSET Requests]
    BY DEF AioInit, Init
  <1> QED  BY <1>1, <1>2, <1>3, <1>4, <1>5 DEF AioTypeOK

LEMMA AioTypeNext == AioTypeOK /\ WireInv /\ [AioNext]_allVars => AioTypeOK'
  <1> SUFFICES ASSUME AioTypeOK, WireInv, [AioNext]_allVars PROVE AioTypeOK'
    OBVIOUS
  <1> USE DEF AioTypeOK, CallStates, Messages, Outcomes
  <1>1. ASSUME NEW r \in Requests, AioCallStep(r) \/ CallCancel(r) \/ ((CallStart(r) \/ CallTimeout(r)) /\ UNCHANGED aioVars)
        PROVE  AioTypeOK'
    <2>1. CASE CallStart(r) /\ UNCHANGED aioVars  BY <2>1 DEF CallStart
    <2>2. CASE CallTimeout(r) /\ UNCHANGED aioVars  BY <2>2 DEF CallTimeout
    <2>3. CASE AioCallWrite(r)
      <3>1. garbled' \subseteq Requests /\ torn' \subseteq Conns
        BY <2>3 DEF AioCallWrite
      <3>2. writer \in Conns
        BY <2>3 DEF AioCallWrite, CallWrite, WireInv
      <3>3. inflight' \in [Conns -> SUBSET Requests]
        BY <2>3, <3>2 DEF AioCallWrite, CallWrite
      <3>4. call' \in [Requests -> CallStates]
        BY <2>3 DEF AioCallWrite, CallWrite
      <3> QED  BY <2>3, <3>1, <3>3, <3>4 DEF AioCallWrite, CallWrite
    <2>4. CASE CallClosed(r) /\ UNCHANGED aioVars  BY <2>4 DEF CallClosed, Return
    <2>5. CASE CallNotEncodable(r) /\ UNCHANGED aioVars  BY <2>5 DEF CallNotEncodable, Return
    <2>6. CASE CallEncode(r) /\ UNCHANGED aioVars  BY <2>6 DEF CallEncode
    <2>7. CASE CallInsert(r) /\ UNCHANGED aioVars  BY <2>7 DEF CallInsert
    <2>8. CASE CallLockWriter(r) /\ UNCHANGED aioVars  BY <2>8 DEF CallLockWriter
    <2>9. CASE CallNotConnected(r) /\ UNCHANGED aioVars  BY <2>9 DEF CallNotConnected, Return
    <2>10. CASE CallWriteError(r) /\ UNCHANGED aioVars  BY <2>10 DEF CallWriteError
    <2>11. CASE CallWriteFailed(r) /\ UNCHANGED aioVars  BY <2>11 DEF CallWriteFailed, Return
    <2>12. CASE CallReceive(r) /\ UNCHANGED aioVars  BY <2>12 DEF CallReceive, Return
    <2>13. CASE CallTimedOut(r) /\ UNCHANGED aioVars  BY <2>13 DEF CallTimedOut, Return
    <2>14. CASE CallCancel(r)
      <3>1. call[r] = "write" => writer \in Conns
        BY DEF WireInv
      <3>2. torn' \subseteq Conns /\ pending' \subseteq Requests
        BY <2>14, <3>1 DEF CallCancel, PendingCleanup
      <3>3. /\ call' \in [Requests -> CallStates]
            /\ chan' \in [Requests -> Messages \cup {"empty"}]
            /\ outcome' \in [Requests -> Outcomes \cup {"none", "Cancelled"}]
        BY <2>14 DEF CallCancel, Return
      <3> QED  BY <2>14, <3>2, <3>3 DEF CallCancel
    <2> HIDE DEF AioTypeOK
    <2> QED  BY <1>1, <2>1, <2>2, <2>3, <2>4, <2>5, <2>6, <2>7, <2>8, <2>9, <2>10, <2>11, <2>12, <2>13, <2>14 DEF AioCallStep
  <1>2. ASSUME NEW o \in Openers, AioOpenStep(o) \/ OpenCancel(o) \/ (OpenCheck(o) /\ UNCHANGED aioVars)
        PROVE  AioTypeOK'
    <2>1. CASE OpenCheck(o) /\ UNCHANGED aioVars  BY <2>1 DEF OpenCheck
    <2>2. CASE OpenReset(o) /\ UNCHANGED aioVars  BY <2>2 DEF OpenReset
    <2>3. CASE OpenFail(o) /\ UNCHANGED aioVars  BY <2>3 DEF OpenFail
    <2>4. CASE OpenConnect(o) /\ UNCHANGED aioVars  BY <2>4, ConstantsOK DEF OpenConnect
    <2>5. CASE AioOpenInstall(o)  BY <2>5 DEF AioOpenInstall, HalfClose
    <2>6. CASE OpenCancel(o)  BY <2>6 DEF OpenCancel
    <2> HIDE DEF AioTypeOK
    <2> QED  BY <1>2, <2>1, <2>2, <2>3, <2>4, <2>5, <2>6 DEF AioOpenStep
  <1>3. ASSUME NEW k \in Closers, AioCloseStep(k) \/ CloseCancel(k) \/ (CloseStart(k) /\ UNCHANGED aioVars)
        PROVE  AioTypeOK'
    <2>1. CASE CloseStart(k) /\ UNCHANGED aioVars  BY <2>1 DEF CloseStart
    <2>2. CASE AioCloseTakeWriter(k)  BY <2>2 DEF AioCloseTakeWriter, HalfClose
    <2>3. CASE CloseWakeAll(k) /\ UNCHANGED aioVars  BY <2>3 DEF CloseWakeAll, Drain
    <2>4. CASE CloseCancel(k)  BY <2>4 DEF CloseCancel
    <2> HIDE DEF AioTypeOK
    <2> QED  BY <1>3, <2>1, <2>2, <2>3, <2>4 DEF AioCloseStep
  <1>4. ASSUME NEW c \in Conns, AioReaderStep(c) \/ AioServe(c) \/ AioConnectionLost(c)
        PROVE  AioTypeOK'
    <2>1. CASE ReaderDeliver(c) /\ UNCHANGED aioVars  BY <2>1 DEF ReaderDeliver
    <2>2. CASE ReaderFail(c) /\ UNCHANGED aioVars  BY <2>2 DEF ReaderFail
    <2>3. CASE ReaderDrain(c) /\ UNCHANGED aioVars  BY <2>3 DEF ReaderDrain, Drain
    <2>4. CASE AioReaderTakeWriter(c)  BY <2>4 DEF AioReaderTakeWriter, HalfClose
    <2>5. CASE ReaderExtraFail(c) /\ UNCHANGED aioVars  BY <2>5 DEF ReaderExtraFail, Drain
    <2>6. CASE AioServe(c)  BY <2>6 DEF AioServe
    <2>7. CASE AioConnectionLost(c)  BY <2>7 DEF AioConnectionLost
    <2> HIDE DEF AioTypeOK
    <2> QED  BY <1>4, <2>1, <2>2, <2>3, <2>4, <2>5, <2>6, <2>7 DEF AioReaderStep
  <1>5. CASE UNCHANGED allVars
    BY <1>5
  <1> QED
    BY <1>1, <1>2, <1>3, <1>4, <1>5 DEF AioNext

---------------------------------------------------------------------------
(* A dropped future may leave its entry in pending, and the entry may      *)
(* still be sent to: what a call that is not registered yet finds in its   *)
(* place must be nothing, for the token to be whole when it registers.     *)
TokenInv ==
    /\ AioWakeToken
    /\ \A r \in Requests :
        /\ call[r] \in {"idle", "check", "insert"} => r \notin pending /\ chan[r] = "empty"
        /\ r \in pending \ Registered => call[r] = "done"

LEMMA TokenNext == AioTypeOK /\ TokenInv /\ [AioNext]_allVars => TokenInv'
  <1> SUFFICES ASSUME AioTypeOK, TokenInv, [AioNext]_allVars PROVE TokenInv'
    OBVIOUS
  <1> USE DEF AioTypeOK, TokenInv, AioWakeToken, Registered, CallStates, Messages
  <1>1. ASSUME NEW r \in Requests, AioCallStep(r) \/ CallCancel(r) \/ ((CallStart(r) \/ CallTimeout(r)) /\ UNCHANGED aioVars)
        PROVE  TokenInv'
    <2>1. CASE CallStart(r)  BY <2>1 DEF CallStart
    <2>2. CASE CallTimeout(r)  BY <2>2 DEF CallTimeout
    <2>3. CASE AioCallWrite(r)  BY <2>3 DEF AioCallWrite, CallWrite
    <2>4. CASE CallClosed(r)  BY <2>4 DEF CallClosed, Return
    <2>5. CASE CallNotEncodable(r)  BY <2>5 DEF CallNotEncodable, Return
    <2>6. CASE CallEncode(r)  BY <2>6 DEF CallEncode
    <2>7. CASE CallInsert(r)  BY <2>7 DEF CallInsert
    <2>8. CASE CallLockWriter(r)  BY <2>8 DEF CallLockWriter
    <2>9. CASE CallNotConnected(r)  BY <2>9 DEF CallNotConnected, Return
    <2>10. CASE CallWriteError(r)  BY <2>10 DEF CallWriteError
    <2>11. CASE CallWriteFailed(r)  BY <2>11 DEF CallWriteFailed, Return
    <2>12. CASE CallReceive(r)  BY <2>12 DEF CallReceive, Return
    <2>13. CASE CallTimedOut(r)  BY <2>13 DEF CallTimedOut, Return
    <2>14. CASE CallCancel(r)  BY <2>14 DEF CallCancel, Return, PendingCleanup
    <2> QED  BY <1>1, <2>1, <2>2, <2>3, <2>4, <2>5, <2>6, <2>7, <2>8, <2>9, <2>10, <2>11, <2>12, <2>13, <2>14 DEF AioCallStep
  <1>2. ASSUME NEW o \in Openers, AioOpenStep(o) \/ OpenCancel(o) \/ (OpenCheck(o) /\ UNCHANGED aioVars)
        PROVE  TokenInv'
    <2>1. CASE OpenCheck(o)  BY <2>1 DEF OpenCheck
    <2>2. CASE OpenReset(o)  BY <2>2 DEF OpenReset
    <2>3. CASE OpenFail(o)  BY <2>3 DEF OpenFail
    <2>4. CASE OpenConnect(o)  BY <2>4 DEF OpenConnect
    <2>5. CASE AioOpenInstall(o)  BY <2>5 DEF AioOpenInstall, HalfClose
    <2>6. CASE OpenCancel(o)  BY <2>6 DEF OpenCancel
    <2> QED  BY <1>2, <2>1, <2>2, <2>3, <2>4, <2>5, <2>6 DEF AioOpenStep
  <1>3. ASSUME NEW k \in Closers, AioCloseStep(k) \/ CloseCancel(k) \/ (CloseStart(k) /\ UNCHANGED aioVars)
        PROVE  TokenInv'
    <2>1. CASE CloseStart(k)  BY <2>1 DEF CloseStart
    <2>2. CASE AioCloseTakeWriter(k)  BY <2>2 DEF AioCloseTakeWriter, HalfClose
    <2>3. CASE CloseWakeAll(k)  BY <2>3 DEF CloseWakeAll, Drain
    <2>4. CASE CloseCancel(k)  BY <2>4 DEF CloseCancel
    <2> QED  BY <1>3, <2>1, <2>2, <2>3, <2>4 DEF AioCloseStep
  <1>4. ASSUME NEW c \in Conns, AioReaderStep(c) \/ AioServe(c) \/ AioConnectionLost(c)
        PROVE  TokenInv'
    <2>1. CASE ReaderDeliver(c)  BY <2>1 DEF ReaderDeliver
    <2>2. CASE ReaderFail(c)  BY <2>2 DEF ReaderFail
    <2>3. CASE ReaderDrain(c)  BY <2>3 DEF ReaderDrain, Drain
    <2>4. CASE AioReaderTakeWriter(c)  BY <2>4 DEF AioReaderTakeWriter, HalfClose
    <2>5. CASE ReaderExtraFail(c)  BY <2>5 DEF ReaderExtraFail, Drain
    <2>6. CASE AioServe(c)  BY <2>6 DEF AioServe
    <2>7. CASE AioConnectionLost(c)  BY <2>7 DEF AioConnectionLost
    <2> QED  BY <1>4, <2>1, <2>2, <2>3, <2>4, <2>5, <2>6, <2>7 DEF AioReaderStep
  <1>5. CASE UNCHANGED allVars
    BY <1>5
  <1> QED
    BY <1>1, <1>2, <1>3, <1>4, <1>5 DEF AioNext

(* What is on the wire is what the calls wrote, and every answer is the    *)
(* server's, whichever future is dropped and whichever half of a socket.   *)
LEMMA AioWireNext == AioTypeOK /\ TokenInv /\ WireInv /\ [AioNext]_allVars => WireInv'
  <1> SUFFICES ASSUME AioTypeOK, TokenInv, WireInv, [AioNext]_allVars PROVE WireInv'
    OBVIOUS
  <1> USE DEF AioTypeOK, WireInv, Sent, CallStates, Messages, WriterFree
  <1>1. ASSUME NEW r \in Requests, AioCallStep(r) \/ CallCancel(r) \/ ((CallStart(r) \/ CallTimeout(r)) /\ UNCHANGED aioVars)
        PROVE  WireInv'
    <2>1. CASE CallStart(r)  BY <2>1 DEF CallStart
    <2>2. CASE CallTimeout(r)  BY <2>2 DEF CallTimeout
    <2>3. CASE AioCallWrite(r)  BY <2>3 DEF AioCallWrite, CallWrite
    <2>4. CASE CallClosed(r)  BY <2>4 DEF CallClosed, Return
    <2>5. CASE CallNotEncodable(r)  BY <2>5 DEF CallNotEncodable, Return
    <2>6. CASE CallEncode(r)  BY <2>6 DEF CallEncode
    <2>7. CASE CallInsert(r)  BY <2>7 DEF CallInsert
    <2>8. CASE CallLockWriter(r)  BY <2>8 DEF CallLockWriter
    <2>9. CASE CallNotConnected(r)  BY <2>9 DEF CallNotConnected, Return
    <2>10. CASE CallWriteError(r)  BY <2>10 DEF CallWriteError
    <2>11. CASE CallWriteFailed(r)  BY <2>11 DEF CallWriteFailed, Return
    <2>12. CASE CallReceive(r)  BY <2>12 DEF CallReceive, Return
    <2>13. CASE CallTimedOut(r)  BY <2>13 DEF CallTimedOut, Return
    <2>14. CASE CallCancel(r)  BY <2>14 DEF CallCancel, Return, PendingCleanup
    <2> QED  BY <1>1, <2>1, <2>2, <2>3, <2>4, <2>5, <2>6, <2>7, <2>8, <2>9, <2>10, <2>11, <2>12, <2>13, <2>14 DEF AioCallStep
  <1>2. ASSUME NEW o \in Openers, AioOpenStep(o) \/ OpenCancel(o) \/ (OpenCheck(o) /\ UNCHANGED aioVars)
        PROVE  WireInv'
    <2>1. CASE OpenCheck(o)  BY <2>1 DEF OpenCheck
    <2>2. CASE OpenReset(o)  BY <2>2 DEF OpenReset
    <2>3. CASE OpenFail(o)  BY <2>3 DEF OpenFail
    <2>4. CASE OpenConnect(o)  BY <2>4 DEF OpenConnect
    <2>5. CASE AioOpenInstall(o)  BY <2>5 DEF AioOpenInstall, HalfClose
    <2>6. CASE OpenCancel(o)  BY <2>6 DEF OpenCancel
    <2> QED  BY <1>2, <2>1, <2>2, <2>3, <2>4, <2>5, <2>6 DEF AioOpenStep
  <1>3. ASSUME NEW k \in Closers, AioCloseStep(k) \/ CloseCancel(k) \/ (CloseStart(k) /\ UNCHANGED aioVars)
        PROVE  WireInv'
    <2>1. CASE CloseStart(k)  BY <2>1 DEF CloseStart
    <2>2. CASE AioCloseTakeWriter(k)  BY <2>2 DEF AioCloseTakeWriter, HalfClose
    <2>3. CASE CloseWakeAll(k)  BY <2>3 DEF CloseWakeAll, Drain
    <2>4. CASE CloseCancel(k)  BY <2>4 DEF CloseCancel
    <2> QED  BY <1>3, <2>1, <2>2, <2>3, <2>4 DEF AioCloseStep
  <1>4. ASSUME NEW c \in Conns, AioReaderStep(c) \/ AioServe(c) \/ AioConnectionLost(c)
        PROVE  WireInv'
    <2>1. CASE ReaderDeliver(c)  BY <2>1 DEF ReaderDeliver
    <2>2. CASE ReaderFail(c)  BY <2>2 DEF ReaderFail
    <2>3. CASE ReaderDrain(c)  BY <2>3 DEF ReaderDrain, Drain
    <2>4. CASE AioReaderTakeWriter(c)  BY <2>4 DEF AioReaderTakeWriter, HalfClose
    <2>5. CASE ReaderExtraFail(c)  BY <2>5 DEF ReaderExtraFail, Drain
    <2>6. CASE AioServe(c)  BY <2>6 DEF AioServe
    <2>7. CASE AioConnectionLost(c)  BY <2>7 DEF AioConnectionLost
    <2> QED  BY <1>4, <2>1, <2>2, <2>3, <2>4, <2>5, <2>6, <2>7 DEF AioReaderStep
  <1>5. CASE UNCHANGED allVars
    BY <1>5
  <1> QED
    BY <1>1, <1>2, <1>3, <1>4, <1>5 DEF AioNext

---------------------------------------------------------------------------
(* The inductive invariant. *)
AioInv == AioTypeOK /\ TokenInv /\ WireInv

(* The invariant in every reachable state of every instance. *)
THEOREM AioInvariant == AioSpec => []AioInv
  <1>1. AioInit => AioInv
    BY AioTypeInit DEF AioInit, Init, AioInv, TokenInv, AioWakeToken, Registered, WireInv, Sent,
       CallStates
  <1>2. AioInv /\ [AioNext]_allVars => AioInv'
    BY AioTypeNext, TokenNext, AioWireNext DEF AioInv
  <1> QED  BY <1>1, <1>2, PTL DEF AioSpec

(* The variables keep their types. *)
THEOREM AioTypeCorrect == AioSpec => []AioTypeOK
  BY AioInvariant, PTL DEF AioInv

(* A registered call is owed exactly one message while others are dropped  *)
(* around it, and only a dropped call leaves an entry in pending.          *)
THEOREM AioWakeTokenHolds == AioSpec => []AioWakeToken
  BY AioInvariant, PTL DEF AioInv, TokenInv

---------------------------------------------------------------------------
(* Every step is a step of RequestReply or leaves its state alone. *)
LEMMA AioStepRefines == AioInv /\ [AioNext]_allVars => [RR!Next]_RR!vars
  <1> SUFFICES ASSUME AioInv, [AioNext]_allVars PROVE [RR!Next]_RR!vars
    OBVIOUS
  <1> USE DEF AioInv, AioTypeOK, WireInv, Status, Sent, CallStates, Messages, RR!vars
  <1>1. ASSUME NEW r \in Requests, AioCallStep(r) \/ CallCancel(r) \/ ((CallStart(r) \/ CallTimeout(r)) /\ UNCHANGED aioVars)
        PROVE  [RR!Next]_RR!vars
    <2>1. CASE CallStart(r)
      <3>1. RR!Begin(r)
        BY <2>1 DEF CallStart, RR!Begin
      <3> QED  BY <3>1 DEF RR!Next
    <2>2. CASE CallTimeout(r)  BY <2>2 DEF CallTimeout
    <2>3. CASE AioCallWrite(r)
      <3>1. RR!Send(r)
        BY <2>3 DEF AioCallWrite, CallWrite, RR!Send
      <3> QED  BY <3>1 DEF RR!Next
    <2>4. CASE CallClosed(r)
      <3>1. Return(r, "ClientClosed") /\ call[r] \notin {"idle", "done"} /\ UNCHANGED netVars
        BY <2>4 DEF CallClosed
      <3> QED  BY <2>4, <3>1, ReturnRefines DEF CallClosed, RR!Outcomes, RR!Answered, RR!NeverSent
    <2>5. CASE CallNotEncodable(r)
      <3>1. Return(r, "LockData") /\ call[r] \notin {"idle", "done"} /\ UNCHANGED netVars
        BY <2>5 DEF CallNotEncodable
      <3> QED  BY <2>5, <3>1, ReturnRefines DEF CallNotEncodable, RR!Outcomes, RR!Answered, RR!NeverSent
    <2>6. CASE CallEncode(r)  BY <2>6 DEF CallEncode
    <2>7. CASE CallInsert(r)  BY <2>7 DEF CallInsert
    <2>8. CASE CallLockWriter(r)  BY <2>8 DEF CallLockWriter
    <2>9. CASE CallNotConnected(r)
      <3>1. Return(r, "NotConnected") /\ call[r] \notin {"idle", "done"} /\ UNCHANGED netVars
        BY <2>9 DEF CallNotConnected
      <3> QED  BY <2>9, <3>1, ReturnRefines DEF CallNotConnected, RR!Outcomes, RR!Answered, RR!NeverSent
    <2>10. CASE CallWriteError(r)  BY <2>10 DEF CallWriteError
    <2>11. CASE CallWriteFailed(r)
      <3>1. Return(r, "Io") /\ call[r] \notin {"idle", "done"} /\ UNCHANGED netVars
        BY <2>11 DEF CallWriteFailed
      <3> QED  BY <2>11, <3>1, ReturnRefines DEF CallWriteFailed, RR!Outcomes, RR!Answered, RR!NeverSent
    <2>12. CASE CallReceive(r)
      <3>1. PICK m \in Messages : chan[r] = m
        BY <2>12 DEF CallReceive
      <3>2. Return(r, m) /\ call[r] = "recv" /\ UNCHANGED netVars
        BY <2>12, <3>1 DEF CallReceive
      <3> QED  BY <3>1, <3>2, ReturnRefines DEF RR!Outcomes, RR!Answered, RR!NeverSent
    <2>13. CASE CallTimedOut(r)
      <3>1. Return(r, "CommandTimeout") /\ call[r] \notin {"idle", "done"} /\ UNCHANGED netVars
        BY <2>13 DEF CallTimedOut
      <3> QED  BY <2>13, <3>1, ReturnRefines DEF CallTimedOut, RR!Outcomes, RR!Answered, RR!NeverSent
    <2>14. CASE CallCancel(r)
      <3>1. Return(r, "Cancelled") /\ call[r] \notin {"idle", "done"} /\ UNCHANGED netVars
        BY <2>14 DEF CallCancel
      <3> QED  BY <2>14, <3>1, ReturnRefines DEF CallCancel, RR!Outcomes, RR!Answered, RR!NeverSent
    <2> QED  BY <1>1, <2>1, <2>2, <2>3, <2>4, <2>5, <2>6, <2>7, <2>8, <2>9, <2>10, <2>11, <2>12, <2>13, <2>14 DEF AioCallStep
  <1>2. ASSUME NEW o \in Openers, AioOpenStep(o) \/ OpenCancel(o) \/ (OpenCheck(o) /\ UNCHANGED aioVars)
        PROVE  [RR!Next]_RR!vars
    <2>1. CASE OpenCheck(o)  BY <2>1 DEF OpenCheck
    <2>2. CASE OpenReset(o)  BY <2>2 DEF OpenReset
    <2>3. CASE OpenFail(o)  BY <2>3 DEF OpenFail
    <2>4. CASE OpenConnect(o)  BY <2>4 DEF OpenConnect
    <2>5. CASE AioOpenInstall(o)  BY <2>5 DEF AioOpenInstall, HalfClose
    <2>6. CASE OpenCancel(o)  BY <2>6 DEF OpenCancel
    <2> QED  BY <1>2, <2>1, <2>2, <2>3, <2>4, <2>5, <2>6 DEF AioOpenStep
  <1>3. ASSUME NEW k \in Closers, AioCloseStep(k) \/ CloseCancel(k) \/ (CloseStart(k) /\ UNCHANGED aioVars)
        PROVE  [RR!Next]_RR!vars
    <2>1. CASE CloseStart(k)  BY <2>1 DEF CloseStart
    <2>2. CASE AioCloseTakeWriter(k)  BY <2>2 DEF AioCloseTakeWriter, HalfClose
    <2>3. CASE CloseWakeAll(k)  BY <2>3 DEF CloseWakeAll, Drain
    <2>4. CASE CloseCancel(k)  BY <2>4 DEF CloseCancel
    <2> QED  BY <1>3, <2>1, <2>2, <2>3, <2>4 DEF AioCloseStep
  <1>4. ASSUME NEW c \in Conns, AioReaderStep(c) \/ AioServe(c) \/ AioConnectionLost(c)
        PROVE  [RR!Next]_RR!vars
    <2>1. CASE ReaderDeliver(c)  BY <2>1 DEF ReaderDeliver
    <2>2. CASE ReaderFail(c)  BY <2>2 DEF ReaderFail
    <2>3. CASE ReaderDrain(c)  BY <2>3 DEF ReaderDrain, Drain
    <2>4. CASE AioReaderTakeWriter(c)  BY <2>4 DEF AioReaderTakeWriter, HalfClose
    <2>5. CASE ReaderExtraFail(c)  BY <2>5 DEF ReaderExtraFail, Drain
    <2>6. CASE AioServe(c)
      <3>1. PICK r \in inflight[c] : /\ inflight' = [inflight EXCEPT ![c] = @ \ {r}]
                                     /\ served' = served \cup {r}
        BY <2>6 DEF AioServe
      <3>2. r \in Requests /\ r \notin served /\ Sent' = Sent
        BY <3>1
      <3>3. RR!Serve(r)
        BY <2>6, <3>1, <3>2 DEF AioServe, RR!Serve
      <3> QED  BY <3>2, <3>3 DEF RR!Next
    <2>7. CASE AioConnectionLost(c)  BY <2>7 DEF AioConnectionLost
    <2> QED  BY <1>4, <2>1, <2>2, <2>3, <2>4, <2>5, <2>6, <2>7 DEF AioReaderStep
  <1>5. CASE UNCHANGED allVars
    BY <1>5
  <1> QED
    BY <1>1, <1>2, <1>3, <1>4, <1>5 DEF AioNext

(* The aio connection implements RequestReply: a future dropped at any of  *)
(* its awaits is one more way for a call to end, after which nothing of it *)
(* goes out.                                                               *)
THEOREM AioRefinement == AioSpec => AioRRSpec
  <1>1. AioInit => RR!Init
    BY DEF AioInit, Init, RR!Init, Status, Sent
  <1>2. AioInv /\ [AioNext]_allVars => [RR!Next]_RR!vars
    BY AioStepRefines
  <1> QED  BY <1>1, <1>2, AioInvariant, PTL DEF AioSpec, AioRRSpec, RR!Spec

(* With futures that may be dropped, too, an outcome stays true for ever.  *)
THEOREM AioOutcomeStableHolds == AioSpec => []RR!OutcomeStable
  <1>1. StableInv => RR!OutcomeStable
    BY DEF StableInv
  <1> QED  BY <1>1, AioRefinement, StableOutcomes, PTL DEF AioRRSpec

---------------------------------------------------------------------------
(* One opening task at a time and nobody closing: SteadyInv is inductive   *)
(* here as well.  Dropped futures and half-closed sockets disturb none of  *)
(* its parts: a socket is half-closed only while its connection leaves     *)
(* writer, and by then it is down.                                         *)
LEMMA AioSteadyNext ==
    ASSUME Steady, AioTypeOK, WireInv, SteadyInv, [AioNext]_allVars PROVE SteadyInv'
  <1> USE ConstantsOK DEF Steady, AioTypeOK, SteadyInv, OpenInv, ReaderInv, UnpendInv, InitTypeOfWriter,
          Reads, WriterFree, CallStates
  <1>1. ASSUME NEW r \in Requests, AioCallStep(r) \/ CallCancel(r) \/ ((CallStart(r) \/ CallTimeout(r)) /\ UNCHANGED aioVars)
        PROVE  SteadyInv'
    <2>1. CASE CallStart(r)  BY <2>1 DEF CallStart
    <2>2. CASE CallTimeout(r)  BY <2>2 DEF CallTimeout
    <2>3. CASE AioCallWrite(r)  BY <2>3 DEF AioCallWrite, CallWrite
    <2>4. CASE CallClosed(r)  BY <2>4 DEF CallClosed, Return
    <2>5. CASE CallNotEncodable(r)  BY <2>5 DEF CallNotEncodable, Return
    <2>6. CASE CallEncode(r)  BY <2>6 DEF CallEncode
    <2>7. CASE CallInsert(r)  BY <2>7 DEF CallInsert
    <2>8. CASE CallLockWriter(r)  BY <2>8 DEF CallLockWriter
    <2>9. CASE CallNotConnected(r)  BY <2>9 DEF CallNotConnected, Return
    <2>10. CASE CallWriteError(r)  BY <2>10 DEF CallWriteError
    <2>11. CASE CallWriteFailed(r)  BY <2>11 DEF CallWriteFailed, Return
    <2>12. CASE CallReceive(r)  BY <2>12 DEF CallReceive, Return
    <2>13. CASE CallTimedOut(r)  BY <2>13 DEF CallTimedOut, Return
    <2>14. CASE CallCancel(r)  BY <2>14 DEF CallCancel, Return, PendingCleanup
    <2> QED  BY <1>1, <2>1, <2>2, <2>3, <2>4, <2>5, <2>6, <2>7, <2>8, <2>9, <2>10, <2>11, <2>12, <2>13, <2>14 DEF AioCallStep
  <1>2. ASSUME NEW o \in Openers, AioOpenStep(o) \/ OpenCancel(o) \/ (OpenCheck(o) /\ UNCHANGED aioVars)
        PROVE  SteadyInv'
    <2>1. CASE OpenCheck(o)  BY <2>1 DEF OpenCheck
    <2>2. CASE OpenReset(o)  BY <2>2 DEF OpenReset
    <2>3. CASE OpenFail(o)  BY <2>3 DEF OpenFail
    <2>4. CASE OpenConnect(o)  BY <2>4 DEF OpenConnect
    <2>5. CASE AioOpenInstall(o)  BY <2>5 DEF AioOpenInstall, HalfClose
    <2>6. CASE OpenCancel(o)  BY <2>6 DEF OpenCancel
    <2> QED  BY <1>2, <2>1, <2>2, <2>3, <2>4, <2>5, <2>6 DEF AioOpenStep
  <1>3. ASSUME NEW c \in Conns, AioReaderStep(c) \/ AioServe(c) \/ AioConnectionLost(c)
        PROVE  SteadyInv'
    <2>1. CASE ReaderDeliver(c)  BY <2>1 DEF ReaderDeliver
    <2>2. CASE ReaderFail(c)  BY <2>2 DEF ReaderFail
    <2>3. CASE ReaderDrain(c)  BY <2>3 DEF ReaderDrain, Drain
    <2>4. CASE AioReaderTakeWriter(c)  BY <2>4 DEF AioReaderTakeWriter, HalfClose
    <2>5. CASE ReaderExtraFail(c)  BY <2>5 DEF ReaderExtraFail, Drain
    <2>6. CASE AioServe(c)  BY <2>6 DEF AioServe
    <2>7. CASE AioConnectionLost(c)  BY <2>7 DEF AioConnectionLost
    <2> QED  BY <1>3, <2>1, <2>2, <2>3, <2>4, <2>5, <2>6, <2>7 DEF AioReaderStep
  <1>4. CASE UNCHANGED allVars
    BY <1>4
  <1> QED
    BY <1>1, <1>2, <1>3, <1>4 DEF AioNext, Steady

LEMMA AioWatchNext ==
    ASSUME Steady, ~ExtraData, AioTypeOK, TokenInv, WireInv, SteadyInv, WatchInv, [AioNext]_allVars
    PROVE  WatchInv'
  <1> USE ConstantsOK DEF Steady, AioTypeOK, SteadyInv, OpenInv, ReaderInv, Reads, WatchInv, WaiterWatched,
          TokenInv, AioWakeToken, Registered, WriterFree, PendingFree, CallStates
  <1>1. ASSUME NEW r \in Requests, AioCallStep(r) \/ CallCancel(r) \/ ((CallStart(r) \/ CallTimeout(r)) /\ UNCHANGED aioVars)
        PROVE  WatchInv'
    <2>1. CASE CallStart(r)  BY <2>1 DEF CallStart
    <2>2. CASE CallTimeout(r)  BY <2>2 DEF CallTimeout
    <2>3. CASE AioCallWrite(r)
      <3>1. /\ writer \in Conns /\ reader[writer] # "dead"
            /\ \A c \in Conns : r \notin inflight[c] \cup replies[c]
        BY <2>3 DEF AioCallWrite, CallWrite, WireInv, Sent
      <3>2. \A q \in Requests, c \in Conns :
                q \in inflight'[c] /\ q \notin inflight[c] => q = r /\ c = writer
        BY <2>3, <3>1 DEF AioCallWrite, CallWrite
      <3> QED  BY <2>3, <3>1, <3>2 DEF AioCallWrite, CallWrite
    <2>4. CASE CallClosed(r)  BY <2>4 DEF CallClosed, Return
    <2>5. CASE CallNotEncodable(r)  BY <2>5 DEF CallNotEncodable, Return
    <2>6. CASE CallEncode(r)  BY <2>6 DEF CallEncode
    <2>7. CASE CallInsert(r)  BY <2>7 DEF CallInsert
    <2>8. CASE CallLockWriter(r)  BY <2>8 DEF CallLockWriter
    <2>9. CASE CallNotConnected(r)  BY <2>9 DEF CallNotConnected, Return
    <2>10. CASE CallWriteError(r)  BY <2>10 DEF CallWriteError
    <2>11. CASE CallWriteFailed(r)  BY <2>11 DEF CallWriteFailed, Return
    <2>12. CASE CallReceive(r)  BY <2>12 DEF CallReceive, Return
    <2>13. CASE CallTimedOut(r)  BY <2>13 DEF CallTimedOut, Return
    <2>14. CASE CallCancel(r)  BY <2>14 DEF CallCancel, Return, PendingCleanup
    <2> QED  BY <1>1, <2>1, <2>2, <2>3, <2>4, <2>5, <2>6, <2>7, <2>8, <2>9, <2>10, <2>11, <2>12, <2>13, <2>14 DEF AioCallStep
  <1>2. ASSUME NEW o \in Openers, AioOpenStep(o) \/ OpenCancel(o) \/ (OpenCheck(o) /\ UNCHANGED aioVars)
        PROVE  WatchInv'
    <2>1. CASE OpenCheck(o)  BY <2>1 DEF OpenCheck
    <2>2. CASE OpenReset(o)  BY <2>2 DEF OpenReset
    <2>3. CASE OpenFail(o)  BY <2>3 DEF OpenFail
    <2>4. CASE OpenConnect(o)  BY <2>4 DEF OpenConnect
    <2>5. CASE AioOpenInstall(o)  BY <2>5 DEF AioOpenInstall, HalfClose
    <2>6. CASE OpenCancel(o)  BY <2>6 DEF OpenCancel
    <2> QED  BY <1>2, <2>1, <2>2, <2>3, <2>4, <2>5, <2>6 DEF AioOpenStep
  <1>3. ASSUME NEW c \in Conns, AioReaderStep(c) \/ AioServe(c) \/ AioConnectionLost(c)
        PROVE  WatchInv'
    <2>1. CASE ReaderDeliver(c)  BY <2>1 DEF ReaderDeliver
    <2>2. CASE ReaderFail(c)  BY <2>2 DEF ReaderFail
    <2>3. CASE ReaderDrain(c)  BY <2>3 DEF ReaderDrain, Drain
    <2>4. CASE AioReaderTakeWriter(c)  BY <2>4 DEF AioReaderTakeWriter, HalfClose
    <2>5. CASE ReaderExtraFail(c)  BY <2>5 DEF ReaderExtraFail, Drain
    <2>6. CASE AioServe(c)  BY <2>6 DEF AioServe
    <2>7. CASE AioConnectionLost(c)  BY <2>7 DEF AioConnectionLost
    <2> QED  BY <1>3, <2>1, <2>2, <2>3, <2>4, <2>5, <2>6, <2>7 DEF AioReaderStep
  <1>4. CASE UNCHANGED allVars
    BY <1>4
  <1> QED
    BY <1>1, <1>2, <1>3, <1>4 DEF AioNext, Steady

LEMMA AioSteadyInvariant == Steady => (AioSpec => []SteadyInv)
  <1> SUFFICES ASSUME Steady PROVE AioSpec => []SteadyInv
    OBVIOUS
  <1>1. AioInit => SteadyInv
    BY SteadyInit DEF AioInit
  <1>2. AioInv /\ SteadyInv /\ [AioNext]_allVars => SteadyInv'
    BY AioSteadyNext DEF AioInv
  <1> QED  BY <1>1, <1>2, AioInvariant, PTL DEF AioSpec

(* A sender that found no writer and a reader in its error path never hold *)
(* one mutex each and want the other's, however many futures are dropped.  *)
THEOREM AioNoLockCycleHolds == Steady => (AioSpec => []NoLockCycle)
  <1> SUFFICES ASSUME Steady PROVE AioSpec => []NoLockCycle
    OBVIOUS
  <1>1. SteadyInv => NoLockCycle
    BY ConstantsOK DEF SteadyInv, ReaderInv, UnpendInv, Reads, NoLockCycle
  <1> QED  BY <1>1, AioSteadyInvariant, PTL

(* There is one live read_loop at a time, so nobody drains the calls of    *)
(* another connection; a dropped open() leaves none behind.                *)
THEOREM AioSoleReaderHolds == Steady => (AioSpec => []SoleReader)
  <1> SUFFICES ASSUME Steady PROVE AioSpec => []SoleReader
    OBVIOUS
  <1>1. AioTypeOK /\ SteadyInv => SoleReader
    BY SteadySoleReader DEF AioTypeOK
  <1> QED  BY <1>1, AioSteadyInvariant, AioTypeCorrect, PTL

(* A call that waits for an answer from c has c's read_loop still ahead,   *)
(* so that a loss wakes it, also when calls before it were dropped.        *)
THEOREM AioWaiterWatchedHolds == Steady /\ ~ExtraData => (AioSpec => []WaiterWatched)
  <1> SUFFICES ASSUME Steady, ~ExtraData PROVE AioSpec => []WaiterWatched
    OBVIOUS
  <1>1. AioInit => WatchInv
    BY ConstantsOK DEF AioInit, Init, WatchInv, WaiterWatched
  <1>2. AioInv /\ SteadyInv /\ WatchInv /\ [AioNext]_allVars => WatchInv'
    BY AioWatchNext DEF AioInv
  <1>3. WatchInv => WaiterWatched
    BY DEF WatchInv
  <1> QED  BY <1>1, <1>2, <1>3, AioInvariant, AioSteadyInvariant, PTL DEF AioSpec

(* A connection leaves writer only once its socket is down: a connection   *)
(* that works is neither thrown out nor half-closed.                       *)
THEOREM AioHealthyWriterKeptHolds == Steady => (AioSpec => HealthyWriterKept)
  <1> SUFFICES ASSUME Steady PROVE AioSpec => HealthyWriterKept
    OBVIOUS
  <1> DEFINE Kept == \A c \in Conns : writer = c /\ writer' # c => socket[c] = "down"
  <1>1. AioTypeOK /\ SteadyInv /\ [AioNext]_allVars => [Kept]_vars
    <2> SUFFICES ASSUME AioTypeOK, SteadyInv, [AioNext]_allVars PROVE Kept
      OBVIOUS
    <2>1. ASSUME writer' # writer
          PROVE  \/ \E o \in Openers : AioOpenInstall(o)
                 \/ \E k \in Closers : AioCloseTakeWriter(k)
                 \/ \E c \in Conns : AioReaderTakeWriter(c)
      <3>1. ~ \E r \in Requests : AioCallStep(r) \/ CallCancel(r) \/ CallStart(r) \/ CallTimeout(r)
        BY <2>1 DEF CallStart, AioCallStep, CallTimeout, CallClosed, CallNotEncodable, CallEncode,
              CallInsert, CallLockWriter, CallNotConnected, AioCallWrite, CallWrite, CallWriteError,
              CallWriteFailed, CallReceive, CallTimedOut, CallCancel
      <3>2. ASSUME NEW o \in Openers, AioOpenStep(o) \/ OpenCancel(o) \/ OpenCheck(o)
            PROVE  AioOpenInstall(o)
        BY <2>1, <3>2 DEF OpenCheck, AioOpenStep, OpenReset, OpenFail, OpenConnect, OpenCancel
      <3>3. ASSUME NEW k \in Closers, AioCloseStep(k) \/ CloseCancel(k) \/ CloseStart(k)
            PROVE  AioCloseTakeWriter(k)
        BY <2>1, <3>3 DEF CloseStart, AioCloseStep, CloseWakeAll, CloseCancel
      <3>4. ASSUME NEW c \in Conns, AioReaderStep(c) \/ AioServe(c) \/ AioConnectionLost(c)
            PROVE  AioReaderTakeWriter(c)
        BY <2>1, <3>4 DEF AioReaderStep, AioServe, AioConnectionLost, ReaderDeliver, ReaderFail,
              ReaderDrain, ReaderExtraFail
      <3> QED  BY <2>1, <3>1, <3>2, <3>3, <3>4 DEF AioNext
    <2>2. ASSUME NEW o \in Openers, AioOpenInstall(o) PROVE Kept
      BY <2>2, ConstantsOK DEF AioOpenInstall, SteadyInv, OpenInv
    <2>3. ASSUME NEW c \in Conns, AioReaderTakeWriter(c) PROVE Kept
      BY <2>3 DEF AioReaderTakeWriter, SteadyInv, ReaderInv, Reads
    <2> QED  BY <2>1, <2>2, <2>3 DEF Steady
  <1>2. AioSpec => [][Kept]_vars
    BY <1>1, AioTypeCorrect, AioSteadyInvariant, PTL DEF AioSpec
  <1> QED  BY <1>2 DEF HealthyWriterKept
===========================================================================
