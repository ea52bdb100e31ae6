--------------------------- MODULE AioConnection ---------------------------
(***************************************************************************)
(* aio::Connection (src/aio/connection.rs), the tokio mirror of            *)
(* blocking::Connection.  The control flow is the same and the steps of    *)
(* BlockingConnection are reused where the code is; what differs is        *)
(*   - a future may be dropped at any await (CallCancel, OpenCancel,       *)
(*     CloseCancel), leaving a frame half written, a pending entry behind  *)
(*     or a close half done;                                               *)
(*   - a writer that is closed or dropped only half-closes its socket: the *)
(*     reader goes on until the server hangs up;                           *)
(*   - open() installs the writer and spawns the reader without an await   *)
(*     in between.                                                         *)
(* A step is a task's run between two awaits, or a critical section of a   *)
(* tokio mutex.                                                            *)
(***************************************************************************)
EXTENDS BlockingConnection

CONSTANT MayCancel       \* may callers drop the futures they hold?

ASSUME MayCancelOK == MayCancel \in BOOLEAN

VARIABLES
    torn,        \* connections whose stream ends in a part of a frame
    garbled      \* requests written whole behind such a part

aioVars == <<torn, garbled>>
allVars == <<vars, aioVars>>

(* Every variable has its type. *)
AioTypeOK ==
    /\ closed \in BOOLEAN
    /\ writer \in Conns \cup {NoConn}
    /\ pending \subseteq Requests
    /\ initType \in Conns \cup {NoConn}
    /\ chan \in [Requests -> Messages \cup {"empty"}]
    /\ call \in [Requests -> CallStates]
    /\ outcome \in [Requests -> Outcomes \cup {"none", "Cancelled"}]
    /\ opener \in [Openers -> {"idle", "reset", "connect", "install"}]
    /\ stream \in [Openers -> Conns \cup {NoConn}]
    /\ \A o \in Openers : opener[o] = "install" => stream[o] # NoConn
    /\ closer \in [Closers -> {"idle", "takeWriter", "wakeAll"}]
    /\ reader \in [Conns -> {"none", "reading", "lockPending", "takeWriter", "dead"}]
    /\ socket \in [Conns -> {"unused", "up", "half", "down"}]
    /\ inflight \in [Conns -> SUBSET Requests]
    /\ replies \in [Conns -> SUBSET Requests]
    /\ served \subseteq Requests
    /\ torn \subseteq Conns
    /\ garbled \subseteq Requests

AioInit == Init /\ torn = {} /\ garbled = {}

(* shutdown() or drop of an OwnedWriteHalf: FIN goes out, reading goes on. *)
HalfClose(w) ==
    socket' = [c \in Conns |-> IF c = w /\ socket[c] = "up" THEN "half" ELSE socket[c]]

---------------------------------------------------------------------------
(* send_command                                                            *)

AioCallWrite(r) ==
    /\ CallWrite(r)
    /\ garbled' = IF writer \in torn THEN garbled \cup {r} ELSE garbled
    /\ UNCHANGED torn

(* The rest is the same code up to .await. *)
AioCallStep(r) ==
    \/ AioCallWrite(r)
    \/ /\ \/ CallClosed(r) \/ CallNotEncodable(r) \/ CallEncode(r) \/ CallInsert(r)
          \/ CallLockWriter(r) \/ CallNotConnected(r) \/ CallWriteError(r)
          \/ CallWriteFailed(r) \/ CallReceive(r) \/ CallTimedOut(r)
       /\ UNCHANGED aioVars

(* Another task is about to hold the pending mutex for a moment, or the    *)
(* mutex is already assigned to it: try_lock may fail.                     *)
PendingContended(r) ==
    \/ \E q \in Requests \ {r} : call[q] \in {"insert", "unpend", "writeFailed", "timedOut"}
    \/ \E k \in Closers : closer[k] = "wakeAll"
    \/ \E c \in Conns : \/ reader[c] = "lockPending"
                        \/ reader[c] = "reading" /\ replies[c] # {}

(* PendingCleanup::drop: remove the entry if try_lock gets the mutex. *)
PendingCleanup(r) ==
    \/ PendingFree /\ pending' = pending \ {r}
    \/ ~PendingFree /\ UNCHANGED pending
    \/ PendingContended(r) /\ UNCHANGED pending

(* The caller drops the future (select!, an outer timeout, abort) at one   *)
(* of its awaits.  Within the write some bytes may be out already.         *)
CallCancel(r) ==
    /\ MayCancel
    /\ call[r] \in CallStates \ {"idle", "check", "done"}
    /\ Return(r, "Cancelled")
    /\ PendingCleanup(r)
    /\ torn' \in {torn} \cup (IF call[r] = "write" THEN {torn \cup {writer}} ELSE {})
    /\ UNCHANGED <<closed, writer, openVars, closer, reader, netVars, garbled>>

---------------------------------------------------------------------------
(* open                                                                    *)

AioOpenInstall(o) ==
    /\ opener[o] = "install"
    /\ WriterFree
    /\ writer' = stream[o]
    /\ HalfClose(writer)
    /\ reader' = [reader EXCEPT ![stream[o]] = "reading"]
    /\ stream' = [stream EXCEPT ![o] = NoConn]
    /\ opener' = [opener EXCEPT ![o] = "idle"]
    /\ UNCHANGED <<closed, pending, callVars, initType, closer, inflight, replies, served, aioVars>>

(* Dropped while it waits for the writer mutex; earlier awaits end like a  *)
(* failed connect.                                                         *)
OpenCancel(o) ==
    /\ MayCancel
    /\ opener[o] = "install"
    /\ socket' = [socket EXCEPT ![stream[o]] = "down"]
    /\ stream' = [stream EXCEPT ![o] = NoConn]
    /\ opener' = [opener EXCEPT ![o] = "idle"]
    /\ UNCHANGED <<closed, writer, pending, callVars, initType, closer, reader,
                   inflight, replies, served, aioVars>>

AioOpenStep(o) ==
    \/ AioOpenInstall(o)
    \/ (OpenReset(o) \/ OpenFail(o) \/ OpenConnect(o)) /\ UNCHANGED aioVars

---------------------------------------------------------------------------
(* close                                                                   *)

AioCloseTakeWriter(k) ==
    /\ closer[k] = "takeWriter"
    /\ WriterFree
    /\ writer' = NoConn
    /\ HalfClose(writer)
    /\ closer' = [closer EXCEPT ![k] = "wakeAll"]
    /\ UNCHANGED <<closed, pending, callVars, openVars, reader, inflight, replies, served, aioVars>>

CloseCancel(k) ==
    /\ MayCancel
    /\ closer[k] # "idle"
    /\ closer' = [closer EXCEPT ![k] = "idle"]
    /\ UNCHANGED <<closed, writer, pending, callVars, openVars, reader, netVars, aioVars>>

AioCloseStep(k) == AioCloseTakeWriter(k) \/ (CloseWakeAll(k) /\ UNCHANGED aioVars)

---------------------------------------------------------------------------
(* read_loop                                                               *)

(* Seeded fault: the error path leaves the dead connection installed. *)
AioReaderTakeNothing(c) ==
    /\ reader[c] = "takeWriter"
    /\ WriterFree
    /\ reader' = [reader EXCEPT ![c] = "dead"]
    /\ UNCHANGED <<closed, writer, pending, callVars, openVars, closer, netVars, aioVars>>

(* Taking the writer drops it, and so half-closes what it belongs to. *)
AioReaderTakeWriter(c) ==
    /\ reader[c] = "takeWriter"
    /\ WriterFree
    /\ writer' = NoConn
    /\ HalfClose(writer)
    /\ reader' = [reader EXCEPT ![c] = "dead"]
    /\ UNCHANGED <<closed, pending, callVars, openVars, closer, inflight, replies, served, aioVars>>

AioReaderStep(c) ==
    \/ AioReaderTakeWriter(c)
    \/ /\ ReaderDeliver(c) \/ ReaderFail(c) \/ ReaderDrain(c) \/ ReaderExtraFail(c)
       /\ UNCHANGED aioVars

---------------------------------------------------------------------------
(* The slock server and the network (external)                             *)

(* A half-closed connection still carries answers.  What follows a part of *)
(* a frame is not understood: the server takes its first bytes for the     *)
(* rest of that frame.  What it makes of the two together is none of       *)
(* Requests, and answered, if at all, to an id that nobody waits for.      *)
AioServe(c) ==
    /\ socket[c] \in {"up", "half"}
    /\ \E r \in inflight[c] \ garbled :
        /\ inflight' = [inflight EXCEPT ![c] = @ \ {r}]
        /\ replies' = [replies EXCEPT ![c] = @ \cup {r}]
        /\ served' = served \cup {r}
    /\ UNCHANGED <<closed, writer, pending, callVars, openVars, closer, reader, socket, aioVars>>

AioConnectionLost(c) ==
    /\ socket[c] \in {"up", "half"}
    /\ socket' = [socket EXCEPT ![c] = "down"]
    /\ UNCHANGED <<closed, writer, pending, callVars, openVars, closer, reader,
                   inflight, replies, served, aioVars>>

---------------------------------------------------------------------------
AioNext ==
    \/ \E r \in Requests :
        \/ AioCallStep(r) \/ CallCancel(r)
        \/ (CallStart(r) \/ CallTimeout(r)) /\ UNCHANGED aioVars
    \/ \E o \in Openers :
        \/ AioOpenStep(o) \/ OpenCancel(o)
        \/ OpenCheck(o) /\ UNCHANGED aioVars
    \/ \E k \in Closers :
        \/ AioCloseStep(k) \/ CloseCancel(k)
        \/ CloseStart(k) /\ UNCHANGED aioVars
    \/ \E c \in Conns : AioReaderStep(c) \/ AioServe(c) \/ AioConnectionLost(c)

AioSpec == AioInit /\ [][AioNext]_allVars

(* The peer need not read: write_all has no timeout and comes before the   *)
(* timer is set (153-170). It ends once the peer reads, the connection is  *)
(* lost or the caller drops it.                                            *)
AioCallOwnStep(r) == AioCallStep(r) /\ (call[r] = "write" => socket[writer] = "down")

(* The runtime polls every task that can make progress; timers fire.       *)
(* Nobody need cancel, read a frame, answer, not even an INIT, or hang up. *)
AioFairSpec ==
    /\ AioSpec
    /\ \A r \in Requests : /\ WF_allVars(AioCallOwnStep(r))
                           /\ WF_allVars(CallTimeout(r) /\ UNCHANGED aioVars)
    /\ \A o \in Openers : WF_allVars(AioOpenInstall(o) \/ (OpenReset(o) /\ UNCHANGED aioVars))
    /\ \A k \in Closers : WF_allVars(AioCloseStep(k))
    /\ \A c \in Conns : WF_allVars(AioReaderStep(c))

---------------------------------------------------------------------------
(* Properties                                                              *)

(* A registered call is owed one message, in pending or in its channel,    *)
(* even while others are cancelled around it; and an entry without a call  *)
(* was left by a cancelled one.                                            *)
AioWakeToken ==
    /\ \A r \in Registered : r \in pending <=> chan[r] = "empty"
    /\ \A r \in pending \ Registered : outcome[r] = "Cancelled"

(* The implementation of the abstract send_command, where a dropped future *)
(* is one more way for the call to end: nothing goes out after it.         *)
AioRRSpec == RR!Spec

(* A call comes back, with an answer, by its timer or dropped by its       *)
(* caller, unless a write that the peer does not take lasts for ever: its  *)
(* own, which no timer ends, or one that keeps the writer from it and from *)
(* the reader that should wake it. (open() keeps no mutex while it waits.) *)
AioCallReturns ==
    \/ <>[](\E q \in Requests : call[q] = "write" /\ socket[writer] # "down")
    \/ \A r \in Requests : call[r] = "check" ~> call[r] = "done"

---------------------------------------------------------------------------
(* What docs/Architecture.md says and a run of this module refutes         *)

(* Frames are written whole, one after the other (docs/Architecture.md,    *)
(* 13): the connection commands go out on never ends in a part of one.     *)
FramesWhole == writer \notin torn
===========================================================================
