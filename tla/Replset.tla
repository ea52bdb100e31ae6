------------------------------ MODULE Replset ------------------------------
(***************************************************************************)
(* ReplsetClient (src/blocking/replset.rs; src/aio/replset.rs is the same  *)
(* code with awaits): commands are sent to the node believed to lead, and  *)
(* retried over all nodes, pass after pass, until a node accepts or the    *)
(* command's deadline has passed.                                          *)
(*                                                                         *)
(* The clients of the nodes are taken at the level of RequestReply: what   *)
(* happens within an open, a close or a wait is BlockingConnection's.  But *)
(* what can take time here takes time: the resolver, the connect, the      *)
(* exchange of INIT, the write of the command, the wait for its answer,    *)
(* the wait for a writer that another call's write holds, and the sleep    *)
(* between passes. Computation takes none. One tick is                     *)
(* REPLSET_RETRY_INTERVAL.                                                 *)
(***************************************************************************)
EXTENDS Retain

CONSTANTS
    N,             \* number of nodes
    Requests,      \* calls of ReplsetClient::send_command
    Budget,        \* Budget[r]: encoded.timeout of r's command and command_timeout_grace
    ConnectTimeout,\* options.connect_timeout
    ConnectError,  \* what a connect that times out is reported as
    MaxTime,       \* the clock stops here
    MaxHeld,       \* bound: ticks that a call sits in untimed waits of one pass
    Environments   \* what may happen in a behaviour: sets of faults, see below

ASSUME NAssumption == N \in Nat \ {0}
ASSUME TimeAssumption ==
    /\ Budget \in [Requests -> Nat]
    /\ ConnectTimeout \in Nat /\ MaxTime \in Nat /\ MaxHeld \in Nat
ASSUME ConnectErrorAssumption ==
    ConnectError \in {"Io",              \* std's connect_timeout
                      "CommandTimeout"}  \* the aio client
ASSUME EnvironmentsAssumption ==
    Environments \subseteq SUBSET
        {"loss",    \* connections break, nodes go down and come back
         "elect",   \* the leader changes
         "silence", \* a node does not accept, read, or answer
         "garble",  \* a node refuses INIT, or sends what does not decode
         "open",    \* the user calls open(), or ping() and it fails
         "close",   \* the user calls close()
         "overlap"} \* open() and close() run at the same time

Nodes  == 0 .. (N - 1)
NoNode == N        \* Option::None of an index

VARIABLES
    now,           \* the clock
    faults,        \* what may happen in this behaviour
    up,            \* up[n]: node n accepts connections
    leader,        \* the node that accepts lock commands, or NoNode
    conn,          \* conn[n]: client n has a connection
    closed,        \* closed[n]: client n was closed
    initLeader,    \* initLeader[n]: IS_LEADER in client n's last INIT response
    orphan,        \* orphan[n]: the connection that an open() of client n replaced
    torn,          \* clients whose connection ends in a part of a frame (AioReplset)
    active,        \* ReplsetClient.active_index
    queue,         \* ReplsetClient.pending_commands
    pc,            \* pc[r]: where the thread in send_pending_command is
    start, offset, \* its position in the pass over the clients
    stateError,    \* last_state_error.is_some()
    lastError,     \* last_error
    deadline,      \* pending.deadline
    until,         \* end of the connect, of the wait for an answer or of the sleep
    answer,        \* what the client's send_command is about to return
    garbled,       \* calls whose frame went out behind a part of one
    executed,      \* executed[r]: how often a leader executed r
    outcome,       \* what send_command returned
    opener,        \* open(): the next client, -1 before and N + 1 after
    opening,       \* it connects or waits for INIT there
    firstLive, foundLeader,     \* its locals
    closer,        \* close(): the next client, -1 before and N + 1 after
    closing,       \* it has marked that client, and waits for its writer
    begun, ticket, \* history: calls begun so far; ticket[r]: r was the so-many-th
    tried,         \* history: nodes that failed r in this pass
    held           \* history: ticks r sat in untimed waits in this pass

clientVars  == <<conn, closed, initLeader, orphan, torn>>
passVars    == <<start, offset, stateError, lastError, tried>>
timeVars    == <<deadline, until, held>>
queueVars   == <<queue, begun, ticket>>
serverVars  == <<up, leader, executed>>
openVars    == <<opener, opening, firstLive, foundLeader>>
closeVars   == <<closer, closing>>
callVars    == <<pc, passVars, timeVars, answer, garbled, outcome, queueVars>>
vars == <<now, faults, serverVars, clientVars, active, callVars, openVars, closeVars>>

(* Seeded fault: an unreadable answer counts as a transport error. *)
RetryableWithProtocol == {"Io", "NotConnected", "ClientClosed", "Protocol"}

Retryable  == {"Io", "NotConnected", "ClientClosed"}
Answers    == Retryable \cup {"Ok", "StateError", "CommandTimeout", "Protocol"}
OpenErrors == {"Io", "CommandTimeout", "Server", "Protocol"}
RetryType  == {"Origin", "Redirected", "Pending", "Woken"}
Running    == {"pass", "open", "resolve", "connect", "init", "send", "lock", "write", "wait",
               "close", "sleep", "finish"}

(* Every variable has its type. *)
TypeOK ==
    /\ now \in 0 .. MaxTime
    /\ faults \in Environments
    /\ up \in [Nodes -> BOOLEAN]
    /\ leader \in Nodes \cup {NoNode}
    /\ conn \in [Nodes -> BOOLEAN]
    /\ closed \in [Nodes -> BOOLEAN]
    /\ initLeader \in [Nodes -> BOOLEAN]
    /\ orphan \in [Nodes -> {"none", "alive", "gone"}]
    /\ torn \subseteq Nodes
    /\ active \in Nodes \cup {NoNode}
    /\ queue \in Seq([id : Requests, retry : RetryType])
    /\ pc \in [Requests -> Running \cup {"idle", "done"}]
    /\ start \in [Requests -> Nodes]
    /\ offset \in [Requests -> 0 .. N]
    /\ stateError \in [Requests -> BOOLEAN]
    /\ lastError \in [Requests -> Retryable \cup OpenErrors \cup {"none"}]
    /\ deadline \in [Requests -> Nat]
    /\ until \in [Requests -> Nat]
    /\ answer \in [Requests -> Answers \cup {"none"}]
    /\ garbled \subseteq Requests
    /\ executed \in [Requests -> Nat]
    /\ outcome \in [Requests -> Answers \cup OpenErrors \cup {"none", "LockData"}]
    /\ opener \in -1 .. (N + 1)
    /\ opening \in BOOLEAN
    /\ firstLive \in Nodes \cup {NoNode}
    /\ foundLeader \in Nodes \cup {NoNode}
    /\ closer \in -1 .. (N + 1)
    /\ closing \in BOOLEAN
    /\ begun \in Nat
    /\ ticket \in [Requests -> 0 .. begun]
    /\ tried \in [Requests -> SUBSET Nodes]
    /\ held \in [Requests -> 0 .. MaxHeld]

Init ==
    /\ now = 0
    /\ faults \in Environments
    /\ up = [n \in Nodes |-> TRUE]
    /\ leader \in Nodes
    /\ conn = [n \in Nodes |-> FALSE]
    /\ closed = [n \in Nodes |-> FALSE]
    /\ initLeader = [n \in Nodes |-> FALSE]
    /\ orphan = [n \in Nodes |-> "none"]
    /\ torn = {}
    /\ active = NoNode
    /\ queue = << >>
    /\ pc = [r \in Requests |-> "idle"]
    /\ start = [r \in Requests |-> 0]
    /\ offset = [r \in Requests |-> 0]
    /\ stateError = [r \in Requests |-> FALSE]
    /\ lastError = [r \in Requests |-> "none"]
    /\ deadline = [r \in Requests |-> 0]
    /\ until = [r \in Requests |-> 0]
    /\ answer = [r \in Requests |-> "none"]
    /\ garbled = {}
    /\ executed = [r \in Requests |-> 0]
    /\ outcome = [r \in Requests |-> "none"]
    /\ opener = -1 /\ opening = FALSE /\ firstLive = NoNode /\ foundLeader = NoNode
    /\ closer = -1 /\ closing = FALSE
    /\ begun = 0
    /\ ticket = [r \in Requests |-> 0]
    /\ tried = [r \in Requests |-> {}]
    /\ held = [r \in Requests |-> 0]

---------------------------------------------------------------------------
(* The client of one node                                                  *)

(* Seeded fault: the pass does not wrap around to the first clients. *)
AtLast(r) == IF start[r] + offset[r] < N THEN start[r] + offset[r] ELSE N - 1

At(r) == (start[r] + offset[r]) % N

(* The writer of a client is locked during a write, and by nobody else for *)
(* any time.                                                               *)
WriterFree(n) == \A r \in Requests : pc[r] = "write" => At(r) # n

(* open() finds no connection: it clears closed and connects. *)
ClientResets(n) ==
    /\ ~conn[n]
    /\ WriterFree(n)
    /\ closed' = [closed EXCEPT ![n] = FALSE]
    /\ UNCHANGED <<conn, initLeader, orphan, torn>>

(* INIT is answered: open() notes whether the node leads and stores the    *)
(* writer, closed or not by now, in place of one that another open() has   *)
(* stored meanwhile: that connection lives on as long as its reader.       *)
ClientInstalls(n) ==
    /\ up[n]
    /\ WriterFree(n)
    /\ conn' = [conn EXCEPT ![n] = TRUE]
    /\ initLeader' = [initLeader EXCEPT ![n] = (leader = n)]
    /\ orphan' = [orphan EXCEPT ![n] = IF conn[n] THEN "alive" ELSE @]
    /\ torn' = torn \ {n}
    /\ UNCHANGED closed

(* The calls that client n has registered get an error.  An answer still   *)
(* on its way is lost with the connection.                                 *)
Woken(n, error) ==
    [q \in Requests |->
        IF /\ pc[q] \in {"lock", "write", "wait"} /\ At(q) = n
           /\ answer[q] \in {"none", "Ok", "StateError", "Protocol"}
        THEN error ELSE answer[q]]

(* close(), first part: closed is set. *)
ClientMarks(n) ==
    /\ closed' = [closed EXCEPT ![n] = TRUE]
    /\ UNCHANGED <<conn, initLeader, orphan, torn>>

(* close(), second part: the writer is taken, whichever is there by now. *)
ClientCloses(n) ==
    /\ WriterFree(n)
    /\ conn' = [conn EXCEPT ![n] = FALSE]
    /\ torn' = torn \ {n}
    /\ answer' = Woken(n, "ClientClosed")
    /\ UNCHANGED <<closed, initLeader, orphan>>

---------------------------------------------------------------------------
(* send_command                                                            *)

envVars == <<now, faults, serverVars, openVars, closeVars>>

(* update_pending_retry_type *)
SetRetry(r, retry) ==
    queue' = [i \in DOMAIN queue |->
                 IF queue[i].id = r THEN [queue[i] EXCEPT !.retry = retry] ELSE queue[i]]

(* Bound: calls begin early enough for the clock to see them end, at worst *)
(* after a last pass, begun at the deadline, in which every node uses up   *)
(* both its timeouts.                                                      *)
StartBy(r) == MaxTime - (Budget[r] + (ConnectTimeout + Budget[r]) * N + MaxHeld)

Begin(r) ==
    /\ pc[r] = "idle"
    /\ now <= StartBy(r)
    /\ pc' = [pc EXCEPT ![r] = "pass"]
    /\ deadline' = [deadline EXCEPT ![r] = now + Budget[r]]
    /\ queue' = Append(queue, [id |-> r, retry |-> "Origin"])
    /\ begun' = begun + 1
    /\ ticket' = [ticket EXCEPT ![r] = begun + 1]
    /\ UNCHANGED <<envVars, clientVars, active, passVars, until, held, answer, garbled, outcome>>

(* PendingCommand::new(..)? before anything is queued *)
BeginNotEncodable(r) ==
    /\ pc[r] = "idle"
    /\ pc' = [pc EXCEPT ![r] = "done"]
    /\ outcome' = [outcome EXCEPT ![r] = "LockData"]
    /\ UNCHANGED <<envVars, clientVars, active, passVars, timeVars, answer, garbled, queueVars>>

PassStart(r) ==
    /\ pc[r] = "pass"
    /\ pc' = [pc EXCEPT ![r] = "open"]
    /\ start' = [start EXCEPT ![r] = IF active = NoNode THEN 0 ELSE active]
    /\ offset' = [offset EXCEPT ![r] = 0]
    /\ stateError' = [stateError EXCEPT ![r] = FALSE]
    /\ tried' = [tried EXCEPT ![r] = {}]
    /\ held' = [held EXCEPT ![r] = 0]
    /\ UNCHANGED <<envVars, clientVars, active, lastError, deadline, until, answer, garbled,
                   outcome, queueVars>>

AtNode(r) == pc[r] = "open" /\ offset[r] < N

(* client.open() finds a connection. *)
FindOpen(r) ==
    /\ AtNode(r)
    /\ conn[At(r)] /\ WriterFree(At(r))
    /\ pc' = [pc EXCEPT ![r] = "send"]
    /\ UNCHANGED <<envVars, clientVars, active, passVars, timeVars, answer, garbled, outcome,
                   queueVars>>

StartOpen(r) ==
    /\ AtNode(r)
    /\ ClientResets(At(r))
    /\ pc' = [pc EXCEPT ![r] = "resolve"]
    /\ UNCHANGED <<envVars, active, passVars, timeVars, answer, garbled, outcome, queueVars>>

Connect(r) ==
    /\ pc[r] = "resolve"
    /\ pc' = [pc EXCEPT ![r] = "connect"]
    /\ until' = [until EXCEPT ![r] = now + ConnectTimeout]
    /\ UNCHANGED <<envVars, clientVars, active, passVars, deadline, held, answer, garbled,
                   outcome, queueVars>>

Connected(r) ==
    /\ pc[r] = "connect"
    /\ up[At(r)]
    /\ pc' = [pc EXCEPT ![r] = "init"]
    /\ until' = [until EXCEPT ![r] = 0]
    /\ UNCHANGED <<envVars, clientVars, active, passVars, deadline, held, answer, garbled,
                   outcome, queueVars>>

InitAnswered(r) ==
    /\ pc[r] = "init"
    /\ ClientInstalls(At(r))
    /\ pc' = [pc EXCEPT ![r] = "send"]
    /\ UNCHANGED <<envVars, active, passVars, timeVars, answer, garbled, outcome, queueVars>>

(* Seeded fault: a node that cannot be opened is counted twice. *)
OpenFailsTwice(r, error) ==
    /\ lastError' = [lastError EXCEPT ![r] = error]
    /\ offset' = [offset EXCEPT ![r] = @ + 2]
    /\ tried' = [tried EXCEPT ![r] = @ \cup {At(r)}]
    /\ pc' = [pc EXCEPT ![r] = "open"]
    /\ until' = [until EXCEPT ![r] = 0]

OpenFails(r, error) ==
    /\ lastError' = [lastError EXCEPT ![r] = error]
    /\ offset' = [offset EXCEPT ![r] = @ + 1]
    /\ tried' = [tried EXCEPT ![r] = @ \cup {At(r)}]
    /\ pc' = [pc EXCEPT ![r] = "open"]
    /\ until' = [until EXCEPT ![r] = 0]

(* Nobody listens, or answers in time, or the node goes down before INIT. *)
SkipNode(r) ==
    /\ \/ pc[r] \in {"connect", "init"} /\ ~up[At(r)] /\ OpenFails(r, "Io")
       \/ pc[r] = "connect" /\ now >= until[r] /\ OpenFails(r, ConnectError)
    /\ UNCHANGED <<envVars, clientVars, active, start, stateError, deadline, held, answer,
                   garbled, outcome, queueVars>>

(* Its name does not resolve or has no address, or the node hangs up       *)
(* before INIT, refuses it, or answers something else.                     *)
OpenRefused(r) ==
    /\ \/ "garble" \in faults /\ pc[r] = "resolve" /\ OpenFails(r, "Protocol")
       \/ "loss" \in faults /\ pc[r] \in {"resolve", "init"} /\ OpenFails(r, "Io")
       \/ "garble" \in faults /\ pc[r] = "init"
            /\ \E error \in {"Server", "Protocol"} : OpenFails(r, error)
    /\ UNCHANGED <<envVars, clientVars, active, start, stateError, deadline, held, answer,
                   garbled, outcome, queueVars>>

(* client.send_command: refused at once, or registered. *)
Refused(r) ==
    /\ pc[r] = "send"
    /\ closed[At(r)]
    /\ pc' = [pc EXCEPT ![r] = "wait"]
    /\ answer' = [answer EXCEPT ![r] = "ClientClosed"]
    /\ UNCHANGED <<envVars, clientVars, active, passVars, timeVars, garbled, outcome, queueVars>>

Register(r) ==
    /\ pc[r] = "send"
    /\ ~closed[At(r)]
    /\ pc' = [pc EXCEPT ![r] = "lock"]
    /\ UNCHANGED <<envVars, clientVars, active, passVars, timeVars, answer, garbled, outcome,
                   queueVars>>

LockWriter(r) ==
    /\ pc[r] = "lock"
    /\ conn[At(r)] /\ WriterFree(At(r))
    /\ pc' = [pc EXCEPT ![r] = "write"]
    /\ UNCHANGED <<envVars, clientVars, active, passVars, timeVars, answer, garbled, outcome,
                   queueVars>>

NotConnected(r) ==
    /\ pc[r] = "lock"
    /\ ~conn[At(r)] /\ WriterFree(At(r))
    /\ pc' = [pc EXCEPT ![r] = "wait"]
    /\ answer' = [answer EXCEPT ![r] = "NotConnected"]
    /\ UNCHANGED <<envVars, clientVars, active, passVars, timeVars, garbled, outcome, queueVars>>

(* The frame is out, behind whatever the stream ended in; the timer runs   *)
(* from here. The call may have been woken meanwhile.                      *)
Written(r) ==
    /\ pc[r] = "write"
    /\ conn[At(r)]
    /\ pc' = [pc EXCEPT ![r] = "wait"]
    /\ until' = [until EXCEPT ![r] = now + Budget[r]]
    /\ garbled' = IF At(r) \in torn THEN garbled \cup {r} ELSE garbled
    /\ UNCHANGED <<envVars, clientVars, active, passVars, deadline, held, answer, outcome,
                   queueVars>>

WriteFails(r) ==
    /\ pc[r] = "write"
    /\ ~conn[At(r)] \/ ~up[At(r)]
    /\ pc' = [pc EXCEPT ![r] = "wait"]
    /\ answer' = [answer EXCEPT ![r] = "Io"]
    /\ UNCHANGED <<envVars, clientVars, active, passVars, timeVars, garbled, outcome, queueVars>>

SendTimesOut(r) ==
    /\ pc[r] = "wait"
    /\ answer[r] = "none"
    /\ now >= until[r]
    /\ answer' = [answer EXCEPT ![r] = "CommandTimeout"]
    /\ UNCHANGED <<envVars, clientVars, active, pc, passVars, timeVars, garbled, outcome,
                   queueVars>>

Finish(r, result) ==
    /\ pc' = [pc EXCEPT ![r] = "finish"]
    /\ outcome' = [outcome EXCEPT ![r] = result]
    /\ answer' = [answer EXCEPT ![r] = "none"]
    /\ until' = [until EXCEPT ![r] = 0]
    /\ UNCHANGED <<envVars, clientVars, passVars, deadline, held, garbled, queueVars>>

Accepted(r) == answer[r] = "Ok" \/ (answer[r] = "StateError" /\ N = 1)

NextNode(r) ==
    /\ pc' = [pc EXCEPT ![r] = "open"]
    /\ offset' = [offset EXCEPT ![r] = @ + 1]
    /\ tried' = [tried EXCEPT ![r] = @ \cup {At(r)}]
    /\ until' = [until EXCEPT ![r] = 0]
    /\ garbled' = garbled \ {r}
    /\ SetRetry(r, "Redirected")
    /\ UNCHANGED <<envVars, start, deadline, held, outcome, begun, ticket>>

(* Seeded fault: the pass goes on after a node has accepted. *)
ResultOkIgnored(r) ==
    /\ pc[r] = "wait"
    /\ Accepted(r)
    /\ active' = At(r)
    /\ answer' = [answer EXCEPT ![r] = "none"]
    /\ NextNode(r)
    /\ UNCHANGED <<clientVars, stateError, lastError>>

ResultOk(r) ==
    /\ pc[r] = "wait"
    /\ Accepted(r)
    /\ active' = At(r)
    /\ Finish(r, answer[r])

ResultStateError(r) ==
    /\ pc[r] = "wait"
    /\ answer[r] = "StateError" /\ N > 1
    /\ stateError' = [stateError EXCEPT ![r] = TRUE]
    /\ answer' = [answer EXCEPT ![r] = "none"]
    /\ NextNode(r)
    /\ UNCHANGED <<clientVars, active, lastError>>

(* The client is closed, whatever connection it has by now and whoever     *)
(* else waits on it.                                                       *)
ResultRetry(r) ==
    /\ pc[r] = "wait"
    /\ answer[r] \in Retryable /\ N > 1
    /\ lastError' = [lastError EXCEPT ![r] = answer[r]]
    /\ ClientMarks(At(r))
    /\ pc' = [pc EXCEPT ![r] = "close"]
    /\ answer' = [answer EXCEPT ![r] = "none"]
    /\ until' = [until EXCEPT ![r] = 0]
    /\ UNCHANGED <<envVars, active, start, offset, stateError, tried, deadline, held, garbled,
                   outcome, queueVars>>

CloseClient(r) ==
    /\ pc[r] = "close"
    /\ ClientCloses(At(r))
    /\ NextNode(r)
    /\ UNCHANGED <<active, stateError, lastError>>

ResultError(r) ==
    /\ pc[r] = "wait"
    /\ \/ answer[r] \in {"CommandTimeout", "Protocol"}
       \/ answer[r] \in Retryable /\ N = 1
    /\ Finish(r, answer[r])
    /\ UNCHANGED active

PassDone(r) == pc[r] = "open" /\ offset[r] = N

PassReportsStateError(r) ==
    /\ PassDone(r)
    /\ stateError[r]
    /\ Finish(r, "StateError")
    /\ UNCHANGED active

(* Seeded fault: the deadline is not looked at. *)
PassGivesUpNever(r) == FALSE

PassGivesUp(r) ==
    /\ PassDone(r)
    /\ ~stateError[r]
    /\ now >= deadline[r]
    /\ Finish(r, IF lastError[r] = "none" THEN "NotConnected" ELSE lastError[r])
    /\ UNCHANGED active

Sleep(r, time) ==
    /\ PassDone(r)
    /\ ~stateError[r]
    /\ now < deadline[r]
    /\ pc' = [pc EXCEPT ![r] = "sleep"]
    /\ until' = [until EXCEPT ![r] = now + time]
    /\ SetRetry(r, "Pending")
    /\ UNCHANGED <<envVars, clientVars, active, passVars, deadline, held, answer, garbled,
                   outcome, begun, ticket>>

(* Seeded fault: the sleep is as long as the command may take. *)
PassSleepsLong(r) == Sleep(r, Budget[r] + 1)

(* Sleep for the retry interval, or for what is left to the deadline. *)
PassSleeps(r) == Sleep(r, 1)

Wake(r) ==
    /\ pc[r] = "sleep"
    /\ now >= until[r]
    /\ pc' = [pc EXCEPT ![r] = "pass"]
    /\ until' = [until EXCEPT ![r] = 0]
    /\ SetRetry(r, "Woken")
    /\ UNCHANGED <<envVars, clientVars, active, passVars, deadline, held, answer, garbled,
                   outcome, begun, ticket>>

(* The locals go out of scope. *)
Forget(r) ==
    /\ pc' = [pc EXCEPT ![r] = "done"]
    /\ start' = [start EXCEPT ![r] = 0]
    /\ offset' = [offset EXCEPT ![r] = 0]
    /\ stateError' = [stateError EXCEPT ![r] = FALSE]
    /\ lastError' = [lastError EXCEPT ![r] = "none"]
    /\ tried' = [tried EXCEPT ![r] = {}]
    /\ deadline' = [deadline EXCEPT ![r] = 0]
    /\ until' = [until EXCEPT ![r] = 0]
    /\ held' = [held EXCEPT ![r] = 0]
    /\ garbled' = garbled \ {r}
    /\ UNCHANGED outcome

(* Seeded fault: only accepted commands leave the queue. *)
UnqueueOk(r) ==
    /\ pc[r] = "finish"
    /\ Forget(r)
    /\ queue' = IF outcome[r] = "Ok" THEN Without(queue, r) ELSE queue
    /\ UNCHANGED <<envVars, clientVars, active, answer, begun, ticket>>

(* remove_pending_command *)
Unqueue(r) ==
    /\ pc[r] = "finish"
    /\ Forget(r)
    /\ queue' = Without(queue, r)
    /\ UNCHANGED <<envVars, clientVars, active, answer, begun, ticket>>

---------------------------------------------------------------------------
(* open and close of the user; ping() ends in open() when it fails         *)

(* Bound: open() is called once. *)
OpenStart ==
    /\ "open" \in faults
    /\ opener = -1 /\ ("overlap" \in faults \/ closer \in {-1, N + 1})
    /\ opener' = 0
    /\ UNCHANGED <<now, faults, serverVars, clientVars, active, callVars, opening, firstLive,
                   foundLeader, closeVars>>

OpenConnects ==
    /\ opener \in Nodes /\ ~opening
    /\ ClientResets(opener)
    /\ opening' = TRUE
    /\ UNCHANGED <<now, faults, serverVars, active, callVars, opener, firstLive, foundLeader,
                   closeVars>>

(* client.open() found a connection, or has stored one. *)
OpenNode ==
    /\ opener \in Nodes
    /\ IF opening THEN ClientInstalls(opener)
       ELSE conn[opener] /\ WriterFree(opener) /\ UNCHANGED clientVars
    /\ firstLive' = IF firstLive = NoNode THEN opener ELSE firstLive
    /\ foundLeader' = IF initLeader'[opener] THEN opener ELSE foundLeader
    /\ opener' = opener + 1
    /\ opening' = FALSE
    /\ UNCHANGED <<now, faults, serverVars, active, callVars, closeVars>>

OpenSkipsNode ==
    /\ opener \in Nodes /\ opening
    /\ ~up[opener] \/ faults \cap {"silence", "loss", "garble"} # {}
    /\ opener' = opener + 1
    /\ opening' = FALSE
    /\ UNCHANGED <<now, faults, serverVars, clientVars, active, callVars, firstLive, foundLeader,
                   closeVars>>

(* active_index is left alone when no client could be opened. *)
OpenEnd ==
    /\ opener = N
    /\ opener' = N + 1
    /\ active' = IF foundLeader # NoNode THEN foundLeader
                 ELSE IF firstLive # NoNode THEN firstLive ELSE active
    /\ firstLive' = NoNode /\ foundLeader' = NoNode
    /\ UNCHANGED <<now, faults, serverVars, clientVars, callVars, opening, closeVars>>

(* Bound: close() is called once. *)
CloseStart ==
    /\ "close" \in faults
    /\ closer = -1 /\ ("overlap" \in faults \/ opener \in {-1, N + 1})
    /\ closer' = 0
    /\ UNCHANGED <<now, faults, serverVars, clientVars, active, callVars, openVars, closing>>

CloseMarks ==
    /\ closer \in Nodes /\ ~closing
    /\ ClientMarks(closer)
    /\ closing' = TRUE
    /\ UNCHANGED <<now, faults, serverVars, active, callVars, openVars, closer>>

CloseNode ==
    /\ closer \in Nodes /\ closing
    /\ ClientCloses(closer)
    /\ closer' = closer + 1
    /\ closing' = FALSE
    /\ UNCHANGED <<now, faults, serverVars, active, pc, passVars, timeVars, garbled, outcome,
                   queueVars, openVars>>

CloseEnd ==
    /\ closer = N
    /\ active' = NoNode
    /\ closer' = N + 1
    /\ UNCHANGED <<now, faults, serverVars, clientVars, callVars, openVars, closing>>

---------------------------------------------------------------------------
(* Servers, network and clock (external)                                   *)

(* The leader executes a lock command; a follower answers STATE_ERROR. The *)
(* answer of either may be unreadable.                                     *)
Answered(r) ==
    /\ answer[r] = "none" /\ r \notin garbled
    /\ \E spoilt \in {FALSE} \cup {"garble" \in faults} :
        answer' = [answer EXCEPT ![r] = IF spoilt THEN "Protocol"
                                        ELSE IF leader = At(r) THEN "Ok" ELSE "StateError"]
    /\ executed' = [executed EXCEPT ![r] = IF leader = At(r) THEN @ + 1 ELSE @]
    /\ UNCHANGED <<now, faults, up, leader, clientVars, active, pc, passVars, timeVars, garbled,
                   outcome, queueVars, openVars, closeVars>>

Serve(r) == pc[r] = "wait" /\ conn[At(r)] /\ up[At(r)] /\ Answered(r)

(* The connection to n breaks; the node is gone, or is back at once. The   *)
(* reader of a client that is closed leaves the rest to close().           *)
Lose(n) ==
    /\ "loss" \in faults
    /\ conn[n] /\ ~closed[n]
    /\ conn' = [conn EXCEPT ![n] = FALSE]
    /\ torn' = torn \ {n}
    /\ up' \in {up, [up EXCEPT ![n] = FALSE]}
    /\ answer' = Woken(n, "Io")
    /\ UNCHANGED <<now, faults, leader, executed, closed, initLeader, orphan, active, pc, passVars,
                   timeVars, garbled, outcome, queueVars, openVars, closeVars>>

GoDown(n) ==
    /\ "loss" \in faults
    /\ up[n] /\ (conn[n] => closed[n])
    /\ up' = [up EXCEPT ![n] = FALSE]
    /\ UNCHANGED <<now, faults, leader, executed, clientVars, active, callVars, openVars,
                   closeVars>>

ComeUp(n) ==
    /\ ~up[n]
    /\ up' = [up EXCEPT ![n] = TRUE]
    /\ UNCHANGED <<now, faults, leader, executed, clientVars, active, callVars, openVars,
                   closeVars>>

Elect(n) ==
    /\ "elect" \in faults
    /\ n # leader
    /\ leader' = n
    /\ UNCHANGED <<now, faults, up, executed, clientVars, active, callVars, openVars, closeVars>>

(* A call waits for what has no timeout: the resolver, the exchange of     *)
(* INIT, its write, or a writer that another write holds.                  *)
Held(r) ==
    \/ pc[r] \in {"resolve", "init", "write"}
    \/ (AtNode(r) \/ pc[r] \in {"lock", "close"}) /\ ~WriterFree(At(r))

(* Nodes may keep silent, or stay away while they come and go. *)
Unsure == faults \cap {"silence", "loss"} # {}

(* A call waits for a timeout. *)
Timed(r) ==
    /\ now < until[r]
    /\ \/ pc[r] = "sleep"
       \/ pc[r] = "connect" /\ Unsure
       \/ /\ pc[r] = "wait" /\ answer[r] = "none"
          /\ Unsure \/ r \in garbled \/ ~conn[At(r)]

(* The clock moves when every running call waits for it or for a silent    *)
(* node. When none runs it does not matter.                                *)
Tick ==
    /\ now < MaxTime
    /\ \E r \in Requests : pc[r] \in Running
    /\ \A r \in Requests :
        \/ pc[r] \in {"idle", "done"} \/ Timed(r)
        \/ Held(r) /\ "silence" \in faults /\ held[r] < MaxHeld
    /\ now' = now + 1
    /\ held' = [r \in Requests |-> IF Held(r) THEN held[r] + 1 ELSE held[r]]
    /\ UNCHANGED <<faults, serverVars, clientVars, active, pc, passVars, deadline, until, answer,
                   garbled, outcome, queueVars, openVars, closeVars>>

---------------------------------------------------------------------------
(* The steps a thread takes by itself, and those it waits for others in. *)
CallOwnStep(r) ==
    \/ PassStart(r) \/ FindOpen(r) \/ StartOpen(r) \/ SkipNode(r)
    \/ Refused(r) \/ Register(r) \/ LockWriter(r) \/ NotConnected(r) \/ WriteFails(r)
    \/ SendTimesOut(r) \/ ResultOk(r) \/ ResultStateError(r) \/ ResultRetry(r) \/ CloseClient(r)
    \/ ResultError(r) \/ PassReportsStateError(r) \/ PassGivesUp(r) \/ PassSleeps(r) \/ Wake(r)
    \/ Unqueue(r)

PeerStep(r) == Connect(r) \/ Connected(r) \/ InitAnswered(r) \/ Written(r) \/ Serve(r)

OpenStep == OpenConnects \/ OpenNode \/ OpenSkipsNode \/ OpenEnd

CloseStep == CloseMarks \/ CloseNode \/ CloseEnd

Next ==
    \/ \E r \in Requests :
        Begin(r) \/ BeginNotEncodable(r) \/ CallOwnStep(r) \/ PeerStep(r) \/ OpenRefused(r)
    \/ OpenStart \/ OpenStep
    \/ CloseStart \/ CloseStep
    \/ \E n \in Nodes : Lose(n) \/ GoDown(n) \/ ComeUp(n)
    \/ \E n \in Nodes \cup {NoNode} : Elect(n)
    \/ Tick

Spec == Init /\ [][Next]_vars

---------------------------------------------------------------------------
(* Properties                                                              *)

(* With several nodes a transport error or STATE_ERROR is reported only    *)
(* after a pass in which every node has failed the call, whatever node the *)
(* pass began at and whoever moved active_index meanwhile.                 *)
EveryNodeTried ==
    \A r \in Requests :
        N > 1 /\ pc[r] = "finish" /\ outcome[r] \in Retryable \cup {"StateError", "Server"}
            => tried[r] = Nodes

(* The deadline is looked at between passes, so a call may run on behind   *)
(* it, but never longer than one pass takes in which every node uses up    *)
(* the connect timeout and the command's own: sleeps are cut at the        *)
(* deadline, and no pass begins after it. The code bounds nothing else:    *)
(* what a call sits in the resolver, in INIT, in its write or before the   *)
(* writer of another comes on top.                                         *)
OverrunBounded ==
    \A r \in Requests :
        /\ pc[r] = "pass" => now <= deadline[r]
        /\ pc[r] \in Running =>
            now <= deadline[r] + (ConnectTimeout + Budget[r]) * N + held[r]

(* Every call returns, whatever the leader and other users of the replica  *)
(* set do, unless it waits for ever for what has no timeout: a name that   *)
(* does not resolve, a node that accepts the connection and answers no     *)
(* INIT, or one that reads nothing.                                        *)
CallsReturn == \A r \in Requests : (pc[r] = "pass" ~> pc[r] = "done") \/ <>[]Held(r)

(* A behaviour in which connections hold and nobody closes the client. *)
Calm == faults \cap {"loss", "close"} = {}

(* As long as connections hold and nobody closes the client, retrying is   *)
(* safe: a command is executed at most once, its success means just that,  *)
(* and STATE_ERROR means that nobody executed it. (With losses neither     *)
(* holds: a command whose answer is lost is sent again.)                   *)
ExecutedAsReported ==
    Calm =>
      \A r \in Requests :
        /\ executed[r] <= 1
        /\ outcome[r] = "Ok" => executed[r] = 1
        /\ outcome[r] = "StateError" => executed[r] = 0

(* A call that no other has joined closes only clients that have lost      *)
(* their connection or were closed. (With a second call or open() it need  *)
(* not be so: the error of one may be acted on when the other has          *)
(* connected again.)                                                       *)
LiveClientKept ==
    [][\A r \in Requests :
        ResultRetry(r) /\ opener = -1 /\ (\A q \in Requests \ {r} : pc[q] = "idle")
            => ~conn[At(r)] \/ closed[At(r)]]_vars

============================================================================
