------------------------------ MODULE AioReplset ------------------------------
(***************************************************************************)
(* The aio ReplsetClient (src/aio/replset.rs): Replset, whose calls are    *)
(* futures that their owner may drop at any await. A future that is        *)
(* dropped inside client.open(), client.send_command() or client.close()   *)
(* leaves that client half way, in a write even with a part of a frame in  *)
(* its stream; nothing in the replica set cleans up after it.              *)
(***************************************************************************)
EXTENDS Replset

(* A call that was dropped: it never returns, and its locals are gone. *)
Dropped(r) == pc[r] = "done" /\ outcome[r] = "none"

Drop(r) ==
    /\ Forget(r)
    /\ answer' = [answer EXCEPT ![r] = "none"]
    /\ UNCHANGED <<now, faults, up, leader, active, queueVars, openVars, closeVars>>

(* client.open() was dropped before it had an answer to INIT, or after it  *)
(* stored what INIT says, but without a writer.                            *)
OpenHalfWay(n) ==
    /\ \/ UNCHANGED initLeader
       \/ up[n] /\ initLeader' = [initLeader EXCEPT ![n] = (leader = n)]
    /\ UNCHANGED <<conn, closed, orphan, torn>>

(* client.close() was dropped: closed is set, the writer is taken or not,  *)
(* and the calls that wait on it are not woken.                            *)
CloseHalfWay(n) ==
    /\ \/ UNCHANGED <<conn, torn>>
       \/ /\ WriterFree(n)
          /\ conn' = [conn EXCEPT ![n] = FALSE]
          /\ torn' = torn \ {n}
    /\ UNCHANGED <<closed, initLeader, orphan>>

CallDroppedInOpen(r) ==
    /\ \/ AtNode(r) /\ UNCHANGED clientVars
       \/ pc[r] \in {"resolve", "connect", "init"} /\ OpenHalfWay(At(r))
    /\ Drop(r)
    /\ UNCHANGED executed

(* Before the command is written, or behind: then the server may yet       *)
(* execute it.                                                             *)
CallDroppedInSend(r) ==
    /\ pc[r] \in {"send", "lock", "write", "wait"}
    /\ \/ UNCHANGED executed
       \/ /\ pc[r] \in {"write", "wait"} /\ answer[r] = "none"
          /\ leader = At(r) /\ At(r) \notin torn /\ r \notin garbled
          /\ executed' = [executed EXCEPT ![r] = @ + 1]
    /\ Drop(r)
    /\ UNCHANGED clientVars

(* Within its write: the writer stays installed, and its stream ends in a  *)
(* part of a frame.                                                        *)
CallTorn(r) ==
    /\ pc[r] = "write"
    /\ conn[At(r)]
    /\ torn' = torn \cup {At(r)}
    /\ Drop(r)
    /\ UNCHANGED <<executed, conn, closed, initLeader, orphan>>

CallDroppedInClose(r) ==
    /\ pc[r] = "close"
    /\ CloseHalfWay(At(r))
    /\ Drop(r)
    /\ UNCHANGED executed

CallDroppedAsleep(r) ==
    /\ pc[r] = "sleep"
    /\ Drop(r)
    /\ UNCHANGED <<executed, clientVars>>

(* open() and close() of the user are dropped at one of the clients; the   *)
(* active index stays.                                                     *)
OpenDropped ==
    /\ opener \in Nodes
    /\ IF opening THEN OpenHalfWay(opener) ELSE UNCHANGED clientVars
    /\ opener' = N + 1
    /\ opening' = FALSE
    /\ firstLive' = NoNode /\ foundLeader' = NoNode
    /\ UNCHANGED <<now, faults, serverVars, active, callVars, closeVars>>

CloseDropped ==
    /\ closer \in Nodes
    /\ IF closing THEN CloseHalfWay(closer) ELSE UNCHANGED clientVars
    /\ closer' = N + 1
    /\ closing' = FALSE
    /\ UNCHANGED <<now, faults, serverVars, active, callVars, openVars>>

(* The server reads on from a writer that was shut down and answers, or    *)
(* hangs up, and then the reader wakes whoever waits.                      *)
HalfClosed(r) == pc[r] = "wait" /\ answer[r] = "none" /\ ~conn[At(r)]

ServeHalfClosed(r) == HalfClosed(r) /\ Answered(r)

HangUp(r) ==
    /\ HalfClosed(r) /\ ~closed[At(r)]
    /\ answer' = Woken(At(r), "Io")
    /\ UNCHANGED <<envVars, clientVars, active, pc, passVars, timeVars, garbled, outcome,
                   queueVars>>

(* A connection that an open() replaced ends when the server hangs up, and *)
(* its reader takes the writer of the new one.                             *)
OrphanHangUp(n) ==
    /\ orphan[n] = "alive"
    /\ orphan' = [orphan EXCEPT ![n] = "gone"]
    /\ IF closed[n] THEN UNCHANGED <<conn, torn, answer>>
       ELSE /\ WriterFree(n)
            /\ conn' = [conn EXCEPT ![n] = FALSE]
            /\ torn' = torn \ {n}
            /\ answer' = Woken(n, "Io")
    /\ UNCHANGED <<envVars, closed, initLeader, active, pc, passVars, timeVars, garbled, outcome,
                   queueVars>>

---------------------------------------------------------------------------
CallDropped(r) ==
    \/ CallDroppedInOpen(r) \/ CallDroppedInSend(r) \/ CallTorn(r)
    \/ CallDroppedInClose(r) \/ CallDroppedAsleep(r)

(* The steps of the futures that Replset has as steps of threads. *)
AioCallStep(r) == CallOwnStep(r)

AioNext ==
    \/ Next
    \/ \E r \in Requests : CallDropped(r) \/ ServeHalfClosed(r) \/ HangUp(r)
    \/ \E n \in Nodes : OrphanHangUp(n)
    \/ OpenDropped \/ CloseDropped

AioSpec == Init /\ [][AioNext]_vars

(* Calls are polled and time passes; where nodes are not silent, they      *)
(* accept, read and answer. Nothing is asked of those who open and close:  *)
(* a call does not depend on them.                                         *)
AioFairSpec ==
    /\ AioSpec
    /\ \A r \in Requests : WF_vars(AioCallStep(r))
    /\ \A r \in Requests : WF_vars(PeerStep(r) /\ "silence" \notin faults)
    /\ WF_vars(Tick)

---------------------------------------------------------------------------
(* Properties                                                              *)

(* pending_commands holds the running calls, each once and in the order    *)
(* they began, and besides them exactly the calls that were dropped: these *)
(* stay for the life of the client, and no other entry does. A call that   *)
(* sleeps is marked Pending and is woken as such.                          *)
QueueAccounted ==
    /\ {queue[i].id : i \in DOMAIN queue} = {r \in Requests : pc[r] \in Running \/ Dropped(r)}
    /\ \A i, j \in DOMAIN queue : i < j => ticket[queue[i].id] < ticket[queue[j].id]
    /\ \A i \in DOMAIN queue : pc[queue[i].id] \in Running =>
        (pc[queue[i].id] = "sleep" <=> queue[i].retry = "Pending")

(* ExecutedAsReported, as long as no two open() of one client meet: the    *)
(* connection that the second replaces is half-closed, and when the server *)
(* hangs up on it, its reader fails the calls of the new one.              *)
AioExecutedAsReported ==
    (\A n \in Nodes : orphan[n] = "none") => ExecutedAsReported

(* A pass that begins under a leader that stays ends at that leader, or    *)
(* where its owner drops it, or with a timeout behind a part of a frame    *)
(* that another call left when it was dropped in its write; unless two     *)
(* open() of one client meet.                                              *)
AioLeaderAccepts ==
    \A r \in Requests, n \in Nodes :
        []((pc[r] = "pass" /\ [](leader = n /\ \A m \in Nodes : orphan[m] = "none"))
            => <>(\/ outcome[r] = "Ok"
                  \/ Dropped(r)
                  \/ outcome[r] = "CommandTimeout" /\ r \in garbled))
============================================================================
