------------------------ MODULE BlockingConnection ------------------------
(***************************************************************************)
(* blocking::Connection (src/blocking/connection.rs): one TCP connection   *)
(* shared by user threads that open it, close it and send commands on it,  *)
(* and by the reader thread every successful open() spawns.                *)
(*                                                                         *)
(* A step is what a thread does between two points where another thread    *)
(* can interfere: an atomic load or store, a socket operation, or the      *)
(* critical section of a mutex.  The two mutexes have no variable: who     *)
(* holds them is read off the program counters, because each is held       *)
(* across a step boundary in one place only (WriterFree, PendingFree).     *)
(***************************************************************************)
EXTENDS Naturals, FiniteSets

CONSTANTS
    Requests,     \* calls of send_command, each with a request id of its own
    Conns,        \* TCP connections that may ever be made
    Openers,      \* threads that call open()
    Closers,      \* threads that call close()
    NoConn,       \* Option::None
    ExtraData     \* may a response carry lock data after its header?

ASSUME ConstantsOK == NoConn \notin Conns /\ ExtraData \in BOOLEAN

VARIABLES
    closed,       \* Connection.closed
    writer,       \* Connection.writer: the connection installed, or NoConn
    pending,      \* Connection.pending: the request ids registered
    initType,     \* Connection.init_type: the connection whose INIT stored it
    chan,         \* chan[r]: the message in r's mpsc channel
    call,         \* call[r]: where the thread in send_command is
    outcome,      \* outcome[r]: what send_command returned
    opener,       \* opener[o]: where the thread in open is
    stream,       \* stream[o]: open's local stream
    closer,       \* closer[k]: where the thread in close is
    reader,       \* reader[c]: where the reader thread of c is
    socket,       \* socket[c]: the TCP connection itself
    inflight,     \* inflight[c]: requests written to c and not executed
    replies,      \* replies[c]: responses on their way on c
    served        \* requests the server has executed

callVars   == <<chan, call, outcome>>
openVars   == <<opener, stream, initType>>
netVars    == <<socket, inflight, replies, served>>
vars == <<closed, writer, pending, callVars, openVars, closer, reader, netVars>>

CallStates == {"idle", "check", "insert", "lockWriter", "write", "unpend",
               "writeFailed", "recv", "timedOut", "done"}
Messages   == {"Ok", "Protocol", "Io", "ClientClosed"}
Outcomes   == Messages \cup {"NotConnected", "LockData", "CommandTimeout"}

(* Every variable has its type. *)
TypeOK ==
    /\ closed \in BOOLEAN
    /\ writer \in Conns \cup {NoConn}
    /\ pending \subseteq Requests
    /\ initType \in Conns \cup {NoConn}
    /\ chan \in [Requests -> Messages \cup {"empty"}]
    /\ call \in [Requests -> CallStates]
    /\ outcome \in [Requests -> Outcomes \cup {"none"}]
    /\ opener \in [Openers -> {"idle", "reset", "connect", "install", "spawn"}]
    /\ stream \in [Openers -> Conns \cup {NoConn}]
    /\ \A o \in Openers : opener[o] \in {"install", "spawn"} => stream[o] # NoConn
    /\ closer \in [Closers -> {"idle", "takeWriter", "wakeAll"}]
    /\ reader \in [Conns -> {"none", "reading", "lockPending", "takeWriter", "dead"}]
    /\ socket \in [Conns -> {"unused", "up", "down"}]
    /\ inflight \in [Conns -> SUBSET Requests]
    /\ replies \in [Conns -> SUBSET Requests]
    /\ served \subseteq Requests

Init ==
    /\ closed = FALSE
    /\ writer = NoConn
    /\ pending = {}
    /\ initType = NoConn
    /\ chan = [r \in Requests |-> "empty"]
    /\ call = [r \in Requests |-> "idle"]
    /\ outcome = [r \in Requests |-> "none"]
    /\ opener = [o \in Openers |-> "idle"]
    /\ stream = [o \in Openers |-> NoConn]
    /\ closer = [k \in Closers |-> "idle"]
    /\ reader = [c \in Conns |-> "none"]
    /\ socket = [c \in Conns |-> "unused"]
    /\ inflight = [c \in Conns |-> {}]
    /\ replies = [c \in Conns |-> {}]
    /\ served = {}

---------------------------------------------------------------------------
(* Mutexes                                                                 *)

(* The writer guard outlives a step only in send_command: during the write *)
(* to the socket, and while pending is locked to take the entry back.      *)
WriterFree == \A r \in Requests : call[r] \notin {"write", "unpend"}

(* Seeded fault: the error path lets go of pending before it takes writer. *)
PendingFreeEarly == TRUE

(* The pending guard outlives a step only in the reader's error path,      *)
(* which locks writer before it lets go of pending.                        *)
PendingFree == \A c \in Conns : reader[c] # "takeWriter"

(* for (_, tx) in pending.drain() { tx.send(Err(error)) } *)
Drain(error) ==
    /\ chan' = [r \in Requests |-> IF r \in pending THEN error ELSE chan[r]]
    /\ pending' = {}

---------------------------------------------------------------------------
(* send_command                                                            *)

(* Returning drops the receiver, and with it a message nobody took. *)
Return(r, result) ==
    /\ call' = [call EXCEPT ![r] = "done"]
    /\ outcome' = [outcome EXCEPT ![r] = result]
    /\ chan' = [chan EXCEPT ![r] = "empty"]

CallStart(r) ==
    /\ call[r] = "idle"
    /\ call' = [call EXCEPT ![r] = "check"]
    /\ UNCHANGED <<closed, writer, pending, chan, outcome, openVars, closer, reader, netVars>>

CallClosed(r) ==
    /\ call[r] = "check"
    /\ closed
    /\ Return(r, "ClientClosed")
    /\ UNCHANGED <<closed, writer, pending, openVars, closer, reader, netVars>>

(* command.encode()? fails for a command that sets a data flag and carries *)
(* no data.                                                                *)
CallNotEncodable(r) ==
    /\ call[r] = "check"
    /\ ~closed
    /\ Return(r, "LockData")
    /\ UNCHANGED <<closed, writer, pending, openVars, closer, reader, netVars>>

CallEncode(r) ==
    /\ call[r] = "check"
    /\ ~closed
    /\ call' = [call EXCEPT ![r] = "insert"]
    /\ UNCHANGED <<closed, writer, pending, chan, outcome, openVars, closer, reader, netVars>>

CallInsert(r) ==
    /\ call[r] = "insert"
    /\ PendingFree
    /\ pending' = pending \cup {r}
    /\ call' = [call EXCEPT ![r] = "lockWriter"]
    /\ UNCHANGED <<closed, writer, chan, outcome, openVars, closer, reader, netVars>>

CallLockWriter(r) ==
    /\ call[r] = "lockWriter"
    /\ WriterFree
    /\ call' = [call EXCEPT ![r] = IF writer = NoConn THEN "unpend" ELSE "write"]
    /\ UNCHANGED <<closed, writer, pending, chan, outcome, openVars, closer, reader, netVars>>

(* Seeded fault: a call that finds no writer waits for one, mutex in hand. *)
CallNotConnectedWaits(r) ==
    /\ call[r] = "unpend"
    /\ writer # NoConn
    /\ call' = [call EXCEPT ![r] = "write"]
    /\ UNCHANGED <<closed, writer, pending, chan, outcome, openVars, closer, reader, netVars>>

CallNotConnected(r) ==
    /\ call[r] = "unpend"
    /\ PendingFree
    /\ pending' = pending \ {r}
    /\ Return(r, "NotConnected")
    /\ UNCHANGED <<closed, writer, openVars, closer, reader, netVars>>

(* write_all of header and extra data, flush.  A socket that is down may   *)
(* still take the bytes, which then go nowhere.                            *)
CallWrite(r) ==
    /\ call[r] = "write"
    /\ inflight' = [inflight EXCEPT ![writer] = @ \cup {r}]
    /\ call' = [call EXCEPT ![r] = "recv"]
    /\ UNCHANGED <<closed, writer, pending, chan, outcome, openVars, closer, reader,
                   socket, replies, served>>

CallWriteError(r) ==
    /\ call[r] = "write"
    /\ socket[writer] = "down"
    /\ call' = [call EXCEPT ![r] = "writeFailed"]
    /\ UNCHANGED <<closed, writer, pending, chan, outcome, openVars, closer, reader, netVars>>

CallWriteFailed(r) ==
    /\ call[r] = "writeFailed"
    /\ PendingFree
    /\ pending' = pending \ {r}
    /\ Return(r, "Io")
    /\ UNCHANGED <<closed, writer, openVars, closer, reader, netVars>>

CallReceive(r) ==
    /\ call[r] = "recv"
    /\ chan[r] # "empty"
    /\ Return(r, chan[r])
    /\ UNCHANGED <<closed, writer, pending, openVars, closer, reader, netVars>>

(* Seeded fault: recv in place of recv_timeout. *)
CallTimeoutNever(r) == FALSE

(* Seeded fault: a timed out request is written again. *)
CallTimeoutResend(r) ==
    /\ call[r] = "recv"
    /\ chan[r] = "empty"
    /\ call' = [call EXCEPT ![r] = "lockWriter"]
    /\ UNCHANGED <<closed, writer, pending, chan, outcome, openVars, closer, reader, netVars>>

(* recv_timeout gives up after encoded.timeout + command_timeout_grace. *)
CallTimeout(r) ==
    /\ call[r] = "recv"
    /\ chan[r] = "empty"
    /\ call' = [call EXCEPT ![r] = "timedOut"]
    /\ UNCHANGED <<closed, writer, pending, chan, outcome, openVars, closer, reader, netVars>>

(* Seeded fault: the entry of a timed out call is left in pending. *)
CallTimedOutLeak(r) ==
    /\ call[r] = "timedOut"
    /\ PendingFree
    /\ Return(r, "CommandTimeout")
    /\ UNCHANGED <<closed, writer, pending, openVars, closer, reader, netVars>>

CallTimedOut(r) ==
    /\ call[r] = "timedOut"
    /\ PendingFree
    /\ pending' = pending \ {r}
    /\ Return(r, "CommandTimeout")
    /\ UNCHANGED <<closed, writer, openVars, closer, reader, netVars>>

---------------------------------------------------------------------------
(* open                                                                    *)

(* Seeded fault: open() connects without looking for a writer first. *)
OpenCheckNothing(o) ==
    /\ opener[o] = "idle"
    /\ WriterFree
    /\ opener' = [opener EXCEPT ![o] = "reset"]
    /\ UNCHANGED <<closed, writer, pending, callVars, stream, initType, closer, reader, netVars>>

(* With a writer installed open() returns Ok and changes nothing. *)
OpenCheck(o) ==
    /\ opener[o] = "idle"
    /\ WriterFree
    /\ writer = NoConn
    /\ opener' = [opener EXCEPT ![o] = "reset"]
    /\ UNCHANGED <<closed, writer, pending, callVars, stream, initType, closer, reader, netVars>>

OpenReset(o) ==
    /\ opener[o] = "reset"
    /\ closed' = FALSE
    /\ opener' = [opener EXCEPT ![o] = "connect"]
    /\ UNCHANGED <<writer, pending, callVars, stream, initType, closer, reader, netVars>>

(* Seeded fault: open() goes on after a failed connect. *)
OpenFailIgnored(o) ==
    /\ opener[o] = "connect"
    /\ opener' = [opener EXCEPT ![o] = "install"]
    /\ UNCHANGED <<closed, writer, pending, callVars, stream, initType, closer, reader, netVars>>

(* Resolving, connecting or the INIT exchange fails. *)
OpenFail(o) ==
    /\ opener[o] = "connect"
    /\ opener' = [opener EXCEPT ![o] = "idle"]
    /\ UNCHANGED <<closed, writer, pending, callVars, stream, initType, closer, reader, netVars>>

OpenConnect(o) ==
    /\ opener[o] = "connect"
    /\ \E c \in Conns :
        /\ socket[c] = "unused"
        /\ socket' = [socket EXCEPT ![c] = "up"]
        /\ stream' = [stream EXCEPT ![o] = c]
        /\ initType' = c
    /\ opener' = [opener EXCEPT ![o] = "install"]
    /\ UNCHANGED <<closed, writer, pending, callVars, closer, reader, inflight, replies, served>>

(* try_clone fails once init_type is stored; the stream is dropped. *)
OpenCloneFail(o) ==
    /\ opener[o] = "install"
    /\ socket' = [socket EXCEPT ![stream[o]] = "down"]
    /\ stream' = [stream EXCEPT ![o] = NoConn]
    /\ opener' = [opener EXCEPT ![o] = "idle"]
    /\ UNCHANGED <<closed, writer, pending, callVars, initType, closer, reader,
                   inflight, replies, served>>

OpenInstall(o) ==
    /\ opener[o] = "install"
    /\ WriterFree
    /\ writer' = stream[o]
    /\ opener' = [opener EXCEPT ![o] = "spawn"]
    /\ UNCHANGED <<closed, pending, callVars, stream, initType, closer, reader, netVars>>

OpenSpawn(o) ==
    /\ opener[o] = "spawn"
    /\ reader' = [reader EXCEPT ![stream[o]] = "reading"]
    /\ stream' = [stream EXCEPT ![o] = NoConn]
    /\ opener' = [opener EXCEPT ![o] = "idle"]
    /\ UNCHANGED <<closed, writer, pending, callVars, initType, closer, netVars>>

---------------------------------------------------------------------------
(* close                                                                   *)

CloseStart(k) ==
    /\ closer[k] = "idle"
    /\ closed' = TRUE
    /\ closer' = [closer EXCEPT ![k] = "takeWriter"]
    /\ UNCHANGED <<writer, pending, callVars, openVars, reader, netVars>>

CloseTakeWriter(k) ==
    /\ closer[k] = "takeWriter"
    /\ WriterFree
    /\ writer' = NoConn
    /\ socket' = [c \in Conns |-> IF c = writer THEN "down" ELSE socket[c]]
    /\ closer' = [closer EXCEPT ![k] = "wakeAll"]
    /\ UNCHANGED <<closed, pending, callVars, openVars, reader, inflight, replies, served>>

CloseWakeAll(k) ==
    /\ closer[k] = "wakeAll"
    /\ PendingFree
    /\ Drain("ClientClosed")
    /\ closer' = [closer EXCEPT ![k] = "idle"]
    /\ UNCHANGED <<closed, writer, call, outcome, openVars, reader, netVars>>

---------------------------------------------------------------------------
(* The reader thread                                                       *)

(* Seeded fault: the waiter is looked up and not removed. *)
ReaderDeliverKeep(c) ==
    /\ reader[c] = "reading"
    /\ PendingFree
    /\ \E r \in replies[c] :
        /\ replies' = [replies EXCEPT ![c] = @ \ {r}]
        /\ chan' = IF r \in pending THEN [chan EXCEPT ![r] = "Ok"] ELSE chan
    /\ UNCHANGED <<closed, writer, pending, call, outcome, openVars, closer, reader,
                   socket, inflight, served>>

(* One response, found by the request id of its header; a response nobody  *)
(* waits for is dropped.  decode_response may reject the body.             *)
ReaderDeliver(c) ==
    /\ reader[c] = "reading"
    /\ PendingFree
    /\ \E r \in replies[c], decoded \in {"Ok", "Protocol"} :
        /\ replies' = [replies EXCEPT ![c] = @ \ {r}]
        /\ pending' = pending \ {r}
        /\ chan' = IF r \in pending THEN [chan EXCEPT ![r] = decoded] ELSE chan
    /\ UNCHANGED <<closed, writer, call, outcome, openVars, closer, reader, socket, inflight, served>>

(* read_exact of a header fails and closed is loaded. *)
ReaderFail(c) ==
    /\ reader[c] = "reading"
    /\ socket[c] = "down"
    /\ reader' = [reader EXCEPT ![c] = IF closed THEN "dead" ELSE "lockPending"]
    /\ UNCHANGED <<closed, writer, pending, callVars, openVars, closer, netVars>>

(* Seeded fault: the error path takes writer and wakes nobody. *)
ReaderDrainNobody(c) ==
    /\ reader[c] = "lockPending"
    /\ PendingFree
    /\ reader' = [reader EXCEPT ![c] = "takeWriter"]
    /\ UNCHANGED <<closed, writer, pending, callVars, openVars, closer, netVars>>

ReaderDrain(c) ==
    /\ reader[c] = "lockPending"
    /\ PendingFree
    /\ Drain("Io")
    /\ reader' = [reader EXCEPT ![c] = "takeWriter"]
    /\ UNCHANGED <<closed, writer, call, outcome, openVars, closer, netVars>>

(* Seeded fault: the error path leaves the dead connection installed. *)
ReaderTakeNothing(c) ==
    /\ reader[c] = "takeWriter"
    /\ WriterFree
    /\ reader' = [reader EXCEPT ![c] = "dead"]
    /\ UNCHANGED <<closed, writer, pending, callVars, openVars, closer, netVars>>

(* Whatever is installed is taken, this reader's connection or another. *)
ReaderTakeWriter(c) ==
    /\ reader[c] = "takeWriter"
    /\ WriterFree
    /\ writer' = NoConn
    /\ reader' = [reader EXCEPT ![c] = "dead"]
    /\ UNCHANGED <<closed, pending, callVars, openVars, closer, netVars>>

(* The connection goes down between a response's header and its lock data. *)
ReaderExtraFail(c) ==
    /\ ExtraData
    /\ reader[c] = "reading"
    /\ socket[c] = "down"
    /\ replies[c] # {}
    /\ PendingFree
    /\ Drain("ClientClosed")
    /\ reader' = [reader EXCEPT ![c] = "dead"]
    /\ UNCHANGED <<closed, writer, call, outcome, openVars, closer, netVars>>

---------------------------------------------------------------------------
(* The slock server and the network (external)                             *)

Serve(c) ==
    /\ socket[c] = "up"
    /\ \E r \in inflight[c] :
        /\ inflight' = [inflight EXCEPT ![c] = @ \ {r}]
        /\ replies' = [replies EXCEPT ![c] = @ \cup {r}]
        /\ served' = served \cup {r}
    /\ UNCHANGED <<closed, writer, pending, callVars, openVars, closer, reader, socket>>

ConnectionLost(c) ==
    /\ socket[c] = "up"
    /\ socket' = [socket EXCEPT ![c] = "down"]
    /\ UNCHANGED <<closed, writer, pending, callVars, openVars, closer, reader, inflight, replies, served>>

---------------------------------------------------------------------------
CallStep(r) ==
    \/ CallClosed(r) \/ CallNotEncodable(r) \/ CallEncode(r) \/ CallInsert(r)
    \/ CallLockWriter(r) \/ CallNotConnected(r) \/ CallWrite(r) \/ CallWriteError(r)
    \/ CallWriteFailed(r) \/ CallReceive(r) \/ CallTimedOut(r)

OpenStep(o) ==
    \/ OpenReset(o) \/ OpenFail(o) \/ OpenConnect(o) \/ OpenCloneFail(o)
    \/ OpenInstall(o) \/ OpenSpawn(o)

(* The steps of open() that nobody else can hold up.  connect() ends by its *)
(* timeout, but the answer to INIT is read without one (line 73).          *)
OpenOwnStep(o) == OpenReset(o) \/ OpenCloneFail(o) \/ OpenInstall(o) \/ OpenSpawn(o)

CloseStep(k) == CloseTakeWriter(k) \/ CloseWakeAll(k)

ReaderStep(c) ==
    \/ ReaderDeliver(c) \/ ReaderFail(c) \/ ReaderDrain(c) \/ ReaderTakeWriter(c)
    \/ ReaderExtraFail(c)

Next ==
    \/ \E r \in Requests : CallStart(r) \/ CallStep(r) \/ CallTimeout(r)
    \/ \E o \in Openers : OpenCheck(o) \/ OpenStep(o)
    \/ \E k \in Closers : CloseStart(k) \/ CloseStep(k)
    \/ \E c \in Conns : ReaderStep(c) \/ Serve(c) \/ ConnectionLost(c)

Spec == Init /\ [][Next]_vars

(* The operating system runs every thread that can run.  Users need not    *)
(* call anything, the server need not answer, not even an INIT, and no     *)
(* connection need fail.                                                   *)
Fairness ==
    /\ \A r \in Requests : WF_vars(CallStep(r))
    /\ \A o \in Openers : WF_vars(OpenOwnStep(o))
    /\ \A k \in Closers : WF_vars(CloseStep(k))
    /\ \A c \in Conns : WF_vars(ReaderStep(c))

(* Timers: recv_timeout does time out. *)
TimerFairness == \A r \in Requests : WF_vars(CallTimeout(r))

(* The peer need not read either: write_all has no timeout (line 125) and   *)
(* ends once the peer reads or the connection is lost.                     *)
CallOwnStep(r) == CallStep(r) /\ (call[r] = "write" => socket[writer] = "down")

UntimedFairness ==
    /\ \A r \in Requests : WF_vars(CallOwnStep(r))
    /\ \A o \in Openers : WF_vars(OpenOwnStep(o))
    /\ \A c \in Conns : WF_vars(ReaderStep(c))

UntimedSpec == Spec /\ UntimedFairness
FairSpec    == Spec /\ Fairness /\ TimerFairness

---------------------------------------------------------------------------
(* What always holds                                                       *)

(* The calls whose entry was inserted and not yet taken back. *)
Registered == {r \in Requests :
    call[r] \in {"lockWriter", "write", "unpend", "writeFailed", "recv", "timedOut"}}

(* A registered call is owed exactly one message: either its sender still  *)
(* sits in pending, or the message is in its channel, never both and never *)
(* neither.  So recv_timeout cannot find the channel disconnected, no      *)
(* answer is overwritten, and no entry outlives its call: whichever of the *)
(* reader, a draining reader, close() and the caller itself comes first.   *)
WakeToken ==
    \A r \in Requests :
        IF r \in Registered THEN r \in pending <=> chan[r] = "empty"
                            ELSE r \notin pending /\ chan[r] = "empty"

(* Requests written in full to some connection. *)
Sent == {r \in Requests : \E c \in Conns : r \in inflight[c]} \cup served

(* A request is on the wire just when its call has passed the write, on at *)
(* most one connection, and unexecuted or executed; answers are answers of *)
(* the server.  What a waiter is told to have been answered, was.          *)
WireInv ==
    /\ \A r \in Requests :
        /\ call[r] = "write" => writer # NoConn
        /\ call[r] \in CallStates \ {"recv", "timedOut", "done"} => r \notin Sent
        /\ call[r] \in {"recv", "timedOut"} => r \in Sent
        /\ chan[r] \in {"Ok", "Protocol"} => r \in served
    /\ \A c \in Conns :
        /\ replies[c] \subseteq served
        /\ inflight[c] \cap served = {}
        /\ \A d \in Conns \ {c} : inflight[c] \cap inflight[d] = {}

Status == [r \in Requests |->
    IF call[r] \in {"idle", "done"} THEN call[r] ELSE "active"]

(* The connection implements the abstract send_command. *)
RR == INSTANCE RequestReply WITH status <- Status, result <- outcome, sent <- Sent

RRSpec == RR!Spec

---------------------------------------------------------------------------
(* What holds with one opener, nobody closing and no lock data: the life   *)
(* of a client that is opened again after every loss                       *)

(* A sender that found no writer holds writer and wants pending; a reader  *)
(* in its error path holds pending and wants writer.  They never meet.     *)
NoLockCycle ==
    ~ \E r \in Requests, c \in Conns : call[r] = "unpend" /\ reader[c] = "takeWriter"

(* There is one live reader thread at a time (design.md, 16.1), so nobody  *)
(* drains the calls of another connection.                                 *)
SoleReader == Cardinality({c \in Conns : reader[c] \notin {"none", "dead"}}) <= 1

(* A call that waits for an answer from c without a message in its channel *)
(* has c's reader (or the open() about to spawn it) still ahead: nobody    *)
(* registers behind a draining reader's back and then writes to the dead   *)
(* connection.  It is what taking writer under the pending lock is for.    *)
WaiterWatched ==
    \A r \in Requests, c \in Conns :
        call[r] = "recv" /\ chan[r] = "empty" /\ r \in inflight[c] \cup replies[c]
            => reader[c] # "dead"

(* A connection that works is not thrown out of writer. *)
HealthyWriterKept ==
    [][\A c \in Conns : writer = c /\ writer' # c => socket[c] = "down"]_vars

(* The leader flag a replica set reads off a connected client belongs to   *)
(* the connection it would send on.                                        *)
InitTypeOfWriter == writer # NoConn => initType = writer

(* Nobody waits for a mutex for ever, but behind a write that the peer does *)
(* not take: a call comes to its write or its wait for an answer, or        *)
(* returns, and an open() comes to its wait for INIT or ends, also while    *)
(* another open() waits for an INIT that is never answered.                 *)
NobodyStuck ==
    \/ <>[](\E q \in Requests : call[q] = "write")
    \/ /\ \A r \in Requests : []<>(call[r] \in {"idle", "write", "recv", "done"})
       /\ \A o \in Openers : []<>(opener[o] \in {"idle", "connect"})

(* The loss of the connection itself ends the calls that wait on it; they  *)
(* do not sit out their timeouts (checked without any timer).              *)
LossWakesWaiters ==
    \A r \in Requests, c \in Conns :
        call[r] = "recv" /\ r \in inflight[c] \cup replies[c] /\ socket[c] = "down"
            ~> call[r] = "done"

(* A dead connection leaves writer, so that open() connects again instead  *)
(* of returning Ok for ever (design.md, 9.4: a failed read closes writer). *)
LostConnectionDropped ==
    \A c \in Conns : writer = c /\ socket[c] = "down" ~> writer # c

---------------------------------------------------------------------------
(* What design.md says and a run of this module refutes                    *)

(* close() returns, having cleared pending (design.md, 18). *)
CloseReturns == \A k \in Closers : closer[k] # "idle" ~> closer[k] = "idle"

(* After close() the client holds no socket until open() is called again   *)
(* (design.md, 18).                                                        *)
ClosedMeansNoSocket ==
    closed /\ (\A k \in Closers : closer[k] = "idle") => writer = NoConn
===========================================================================
