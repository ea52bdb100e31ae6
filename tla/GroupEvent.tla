------------------------------ MODULE GroupEvent ------------------------------
(***************************************************************************)
(* GroupEvent of src/src/blocking/primitives.rs: an event whose waiters    *)
(* are woken together, each once per wakeup. A member keeps the version it *)
(* has heard of; its lock ids carry it. The server keeps the event unset   *)
(* by a lock whose id is the current version: gate, or Free when it is set.*)
(*                                                                         *)
(* The server's part (external) is what test_group_event of                *)
(* tests/java_parity_blocking.rs and docs/Architecture.md, 9.5, show of    *)
(* it: a lock command whose version is below that of the lock succeeds at  *)
(* once, with the id of that lock in its answer; a wakeup leaves the event *)
(* locked one version higher and answers with the new id.                  *)
(***************************************************************************)
EXTENDS Integers, FiniteSetsExt

CONSTANTS
  Members,         \* the GroupEvent objects on one key; each has a client id of its own
  Versions,        \* the versions a member may be made with
  MaxAsks,         \* bound: operations per member
  MaxAsksTogether, \* bound: operations of all members together
  MaxMisses        \* bound: commands given up by their client

ASSUME GroupAssumption ==
  Versions \subseteq Nat /\ {MaxAsks, MaxAsksTogether, MaxMisses} \subseteq Nat

VARIABLES
  version,        \* of each member: version_id
  ask, told,      \* of each member: the command it waits for, and the answer
  asks,           \* of each member: operations begun
  gate,           \* the version of the event's lock at the server, or Free
  lateAsks, misses, \* commands given up that the server may yet execute; how many were
  wakes, epoch,   \* wakeups executed; clears that found the event set
  mark            \* of each member: epoch and wakes when its version was last that of the lock

groupVars == <<version, ask, told, asks, gate, lateAsks, misses, wakes, epoch, mark>>

Free == -1
NoAsk == [op |-> "none"]
NoTold == [result |-> "none"]

GroupOps == {"is_set", "set", "clear", "wakeup", "wait"}

\* encode_group_event_lock_id
GroupLockId(client, v) == <<client, v>>
ZeroLockId == GroupLockId(0, 0)

GroupInit ==
  /\ version \in [Members -> Versions]
  /\ ask = [m \in Members |-> NoAsk]
  /\ told = [m \in Members |-> NoTold]
  /\ asks = [m \in Members |-> 0]
  /\ gate = Free
  /\ lateAsks = {} /\ misses = 0
  /\ wakes = 0 /\ epoch = 0
  /\ mark = [m \in Members |-> [epoch |-> -1, wakes |-> 0]]

(***************************************************************************)
(* A member's operations: a command, with what is known when it is sent,   *)
(* and what its answer does.                                               *)
(***************************************************************************)
\* Seeded fault: wait asks for the version after the next one.
WaitVersionAhead(m) == version[m] + 1
WaitVersion(m) == version[m]

\* the lock id of the command: is_set has a fresh one, set and wakeup the zero id
AskId(m, op) ==
  CASE op = "wait"  -> GroupLockId(m, WaitVersion(m))
    [] op = "clear" -> GroupLockId(0, version[m])
    [] OTHER        -> ZeroLockId

GroupBegin(m, op) ==
  /\ ask[m] = NoAsk
  /\ asks[m] < MaxAsks /\ MapThenSumSet(LAMBDA n : asks[n], Members) < MaxAsksTogether
  /\ asks' = [asks EXCEPT ![m] = @ + 1]
  /\ ask' = [ask EXCEPT ![m] = [op |-> op, id |-> AskId(m, op), began |-> wakes]]
  /\ UNCHANGED <<version, told, gate, lateAsks, misses, wakes, epoch, mark>>

\* is_set, set and clear keep nothing of their answer; wait and wakeup keep the
\* version in the lock id that a successful answer names, if it is not the one
\* they sent
TakesVersionOfWakeup(m) ==  \* Seeded fault: wait keeps the version it had.
  ask[m].op = "wakeup" /\ told[m].result = "succed" /\ told[m].id # ZeroLockId
TakesVersion(m) ==
  /\ told[m].result = "succed"
  /\ \/ ask[m].op = "wakeup" /\ told[m].id # ZeroLockId
     \/ ask[m].op = "wait" /\ told[m].id # ask[m].id

\* the answer names the event's lock to a member that waits or wakes
HeardOf(m) ==
  ask[m].op \in {"wait", "wakeup"} /\ told[m].result = "succed" /\ told[m].id # ask[m].id

GroupReturn(m) ==
  /\ told[m] # NoTold
  /\ version' = IF TakesVersion(m) THEN [version EXCEPT ![m] = told[m].id[2]] ELSE version
  /\ mark' = IF HeardOf(m) THEN [mark EXCEPT ![m] = told[m].mark] ELSE mark
  /\ ask' = [ask EXCEPT ![m] = NoAsk]
  /\ told' = [told EXCEPT ![m] = NoTold]
  /\ UNCHANGED <<asks, gate, lateAsks, misses, wakes, epoch>>

(***************************************************************************)
(* The server and the network (external). A clear of a set event that      *)
(* takes hold makes the members whose version it has know where they are.  *)
(***************************************************************************)
GateAfter(a) ==
  CASE a.op = "set"                    -> Free
    [] a.op = "clear" /\ gate = Free   -> a.id[2]
    [] a.op = "wakeup" /\ gate # Free  -> gate + 1
    [] OTHER                           -> gate

Effect(a) ==
  /\ gate' = GateAfter(a)
  /\ wakes' = IF a.op = "wakeup" /\ gate # Free THEN wakes + 1 ELSE wakes
  /\ IF a.op = "clear" /\ gate = Free
     THEN /\ epoch' = epoch + 1
          /\ mark' = [m \in Members |->
                        IF version[m] = a.id[2] THEN [epoch |-> epoch + 1, wakes |-> wakes]
                                                ELSE mark[m]]
     ELSE UNCHANGED <<epoch, mark>>

Says(result, id) == [result |-> result, id |-> id, mark |-> [epoch |-> epoch', wakes |-> wakes']]

\* a command with the id of a version succeeds at once where the event is set or its
\* lock is newer; otherwise it waits, until its timeout
AnswerWithVersion(a) ==
  IF gate = Free THEN Says("succed", a.id)
  ELSE IF gate > a.id[2] THEN Says("succed", GroupLockId(0, gate))
  ELSE Says(IF a.op = "clear" /\ gate = a.id[2] THEN "locked" ELSE "timeout", a.id)

AnswerTo(a) ==
  CASE a.op \in {"wait", "clear"} -> AnswerWithVersion(a)
    [] a.op = "is_set" -> Says(IF gate = Free THEN "succed" ELSE "timeout", a.id)
    [] a.op = "set"    -> IF gate = Free THEN Says("unlock_error", a.id)
                                         ELSE Says("succed", GroupLockId(0, gate))
    [] a.op = "wakeup" -> IF gate = Free THEN Says("unlock_error", a.id)
                                         ELSE Says("succed", GroupLockId(0, gate'))

GroupExecute(m) ==
  /\ ask[m] # NoAsk /\ told[m] = NoTold
  /\ Effect(ask[m])
  /\ told' = [told EXCEPT ![m] = AnswerTo(ask[m])]
  /\ UNCHANGED <<version, ask, asks, lateAsks, misses>>

GroupGiveUp(m) ==
  /\ ask[m] # NoAsk /\ told[m] = NoTold /\ misses < MaxMisses
  /\ misses' = misses + 1
  /\ lateAsks' = lateAsks \cup {[n |-> misses, ask |-> ask[m]]}
  /\ told' = [told EXCEPT ![m] = [result |-> "error"]]
  /\ UNCHANGED <<version, ask, asks, gate, wakes, epoch, mark>>

GroupExecuteLate ==
  \E a \in lateAsks :
    /\ Effect(a.ask)
    /\ lateAsks' = lateAsks \ {a}
    /\ UNCHANGED <<version, ask, told, asks, misses>>

\* the event's lock expires
GroupExpire ==
  /\ gate # Free /\ misses < MaxMisses
  /\ gate' = Free
  /\ misses' = misses + 1
  /\ UNCHANGED <<version, ask, told, asks, lateAsks, wakes, epoch, mark>>

MemberStep(m) ==
  \/ \E op \in GroupOps : GroupBegin(m, op)
  \/ GroupReturn(m) \/ GroupExecute(m) \/ GroupGiveUp(m)

GroupNext == (\E m \in Members : MemberStep(m)) \/ GroupExecuteLate \/ GroupExpire

GroupSpec == GroupInit /\ [][GroupNext]_groupVars

(***************************************************************************)
(* Properties.                                                             *)
(***************************************************************************)

\* what the member has heard was said since the event was last cleared, or that
\* clear was of its version
Current(m) == mark[m].epoch = epoch

\* No wakeup is missed: a wait that the server let run into its timeout began with
\* every wakeup seen that was executed by then; so a wakeup that comes between two
\* waits, or between the answer of a wait and its return, ends the next wait at
\* once. It is promised only to a member whose version is one that was said since
\* the event was last cleared: a clear names the version of its own member, and may
\* set the event back to one below what others have seen.
NoWakeupMissed ==
  \A m \in Members :
    ask[m].op = "wait" /\ told[m].result = "timeout" /\ Current(m)
      => ask[m].began =< mark[m].wakes

\* No wakeup is taken twice: a wait that ends while the event is unset was woken by
\* a wakeup executed after the one its member saw last.
OneWaitPerWakeup ==
  \A m \in Members :
    ask[m].op = "wait" /\ HeardOf(m) /\ told[m].mark.epoch = mark[m].epoch
      => told[m].mark.wakes > mark[m].wakes
=============================================================================
