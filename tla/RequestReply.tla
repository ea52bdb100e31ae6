--------------------------- MODULE RequestReply ---------------------------
(***************************************************************************)
(* What one transport connection of ruslock promises the callers of        *)
(* send_command, whatever happens to sockets, readers, timers and closes:  *)
(* a call is begun, its request goes on the wire at most once and only     *)
(* while the call is running, the server executes it at most once, and the *)
(* call returns exactly one outcome, which tells the caller as much about  *)
(* the fate of the request as it can be trusted for.                       *)
(*                                                                         *)
(* BlockingConnection and AioConnection are shown to implement it.         *)
(***************************************************************************)

CONSTANT Requests     \* the calls of send_command; one request id each

VARIABLES
    status,           \* status[r]: "idle", "active" or "done"
    result,           \* result[r]: what the call returned, "none" before
    sent,             \* requests written to a socket in full
    served            \* requests the server has executed and answered

vars == <<status, result, sent, served>>

(* SlockError variants of the transport, and Ok(_).  Cancelled stands for  *)
(* a future of the aio client that is dropped before it returns.           *)
Answered  == {"Ok", "Protocol"}          \* made from a response frame
NeverSent == {"NotConnected", "LockData"}
Outcomes  == Answered \cup NeverSent
                \cup {"Io", "ClientClosed", "CommandTimeout", "Cancelled"}

TypeOK ==
    /\ status \in [Requests -> {"idle", "active", "done"}]
    /\ result \in [Requests -> Outcomes \cup {"none"}]
    /\ sent \subseteq Requests
    /\ served \subseteq Requests

Init ==
    /\ status = [r \in Requests |-> "idle"]
    /\ result = [r \in Requests |-> "none"]
    /\ sent = {}
    /\ served = {}

Begin(r) ==
    /\ status[r] = "idle"
    /\ status' = [status EXCEPT ![r] = "active"]
    /\ UNCHANGED <<result, sent, served>>

(* Seeded fault: the request may go out after the call has returned. *)
SendLate(r) ==
    /\ status[r] # "idle"
    /\ r \notin sent
    /\ sent' = sent \cup {r}
    /\ UNCHANGED <<status, result, served>>

Send(r) ==
    /\ status[r] = "active"
    /\ r \notin sent
    /\ sent' = sent \cup {r}
    /\ UNCHANGED <<status, result, served>>

Serve(r) ==
    /\ r \in sent \ served
    /\ served' = served \cup {r}
    /\ UNCHANGED <<status, result, sent>>

(* The contract of the outcome: an answer was made by the server; the      *)
(* errors of NeverSent leave no trace of the request anywhere; a timeout   *)
(* is reported only for a request that went out.                           *)
Return(r, o) ==
    /\ status[r] = "active"
    /\ o \in Answered => r \in served
    /\ o \in NeverSent => r \notin sent
    /\ o = "CommandTimeout" => r \in sent
    /\ status' = [status EXCEPT ![r] = "done"]
    /\ result' = [result EXCEPT ![r] = o]
    /\ UNCHANGED <<sent, served>>

Next ==
    \E r \in Requests :
        \/ Begin(r)
        \/ Send(r)
        \/ Serve(r)
        \/ \E o \in Outcomes : Return(r, o)

Spec == Init /\ [][Next]_vars

---------------------------------------------------------------------------
(* A caller may rely on the outcome for ever: the guards of Return are     *)
(* about the moment the call returns, and this is what stays true          *)
(* afterwards.  In particular a request reported NotConnected or LockData  *)
(* can be issued again without being executed twice (design.md, 9.5).      *)
OutcomeStable ==
    \A r \in Requests :
        /\ result[r] \in Answered => r \in served
        /\ result[r] \in NeverSent => r \notin sent
        /\ result[r] = "CommandTimeout" => r \in sent
        /\ r \in sent => status[r] # "idle"
===========================================================================
