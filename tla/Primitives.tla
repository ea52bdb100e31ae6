------------------------------ MODULE Primitives ------------------------------
(***************************************************************************)
(* The synchronisation primitives of src/src/blocking/primitives.rs over   *)
(* an external lock server: Lock and PriorityLock, ReentrantLock,          *)
(* MaxConcurrentFlow, TokenBucketFlow, Semaphore, ReadWriteLock, Event and *)
(* the leaves of a TreeLock.  A handle is one object of one of these       *)
(* types, used by one caller at a time (its methods take &mut self).  An   *)
(* operation is one lock command, or, for a leaf of a tree, up to five; a  *)
(* command is sent, executed by the server at any later moment (which is   *)
(* also how it waits for its timeout) and answered.  Or the client gives   *)
(* it up (a timeout, a lost connection), and the server may execute it     *)
(* later or never.                                                         *)
(***************************************************************************)
EXTENDS LockServer, FiniteSets, FiniteSetsExt

CONSTANTS
  Handles,      \* the handles
  Mixes,        \* the sets of roles that may meet on the same keys; "group" has a
                \* module of its own
  Sizes,        \* the counts a semaphore or a flow may be made with
  MaxCount,     \* u16::MAX
  MaxRCount,    \* 0xff, the r_count of a ReentrantLock
  MaxCalls,     \* bound: operations per handle
  MaxTogether,  \* bound: operations of all handles together
  MaxLosses,    \* bound: commands whose answer is lost
  MaxExpiries   \* bound: locks that expire

Roles == {"lock", "reentrant", "flow", "token", "semaphore", "rw",
          "eventSet", "eventUnset", "group",
          "childLeaf", "rootLeaf", "rootLock", "childLock"}

ASSUME PrimitivesAssumption ==
  /\ \A mix \in Mixes : mix \subseteq Roles
  \* a semaphore releases whoever is first at its key, and the lock of an event is
  \* its state: they share their key with their like only
  /\ \A mix \in Mixes : \A own \in {"semaphore", "eventSet", "eventUnset"} :
       own \in mix => mix = {own}
  /\ Sizes \subseteq Nat /\ 0 \in Sizes
  /\ {MaxCount, MaxRCount, MaxCalls, MaxTogether, MaxLosses, MaxExpiries} \subseteq Nat

VARIABLES
  role, size,          \* what the handles are; the count of semaphores and flows
  at, req, reply,      \* of each handle: its place, the command it waits for, the answer
  calls,               \* of each handle: operations begun, which numbers its fresh lock ids
  held,                \* of each handle: acquires minus releases that returned Ok
  read_locks,          \* of each handle: ReadWriteLock.read_locks
  holders,             \* of each key: the holders at the server
  late,                \* the commands given up by their client, which the server may yet execute
  losses, lostAt,      \* how many were given up, and where in an operation
  shed, expiries,      \* ids that lost a hold unknown to their client; locks expired
  won,                 \* the leaves whose acquire ever succeeded
  truth, alone, asked, answer \* what is known of an event, and the answers of is_set

clientVars == <<at, req, reply, calls, held, read_locks>>
eventVars == <<truth, alone, asked, answer>>
serverVars == <<holders, late, losses, lostAt, shed, expiries>>
vars == <<role, size, clientVars, serverVars, won, eventVars>>

Keys == {"key", "root", "child"}

\* ids that handles make up are not made of a key, nor zero
ASSUME HandlesAssumption == IsFiniteSet(Handles) /\ Handles \cap (Keys \cup {"zero"}) = {}

NoReq == [cmd |-> "none"]

(***************************************************************************)
(* Lock ids: the id a handle keeps, a fresh one per operation, the ids     *)
(* made of a key (event lock, tree links), and zero.                       *)
(***************************************************************************)
OwnId(h) == <<h, 0>>
FreshId(h) == <<h, calls[h] + 1>>
KeyId(k) == <<k, 0>>
ZeroId == <<"zero", 0>>

KeyOf(h) == CASE role[h] \in {"childLeaf", "childLock"} -> "child"
              [] role[h] \in {"rootLeaf", "rootLock"}   -> "root"
              [] OTHER                                  -> "key"

Less(n) == IF n = 0 THEN 0 ELSE n - 1

\* count.saturating_sub(1)
LessOneWraps(n) == IF n = 0 THEN MaxCount ELSE n - 1 \* Seeded fault: wraps around.
LessOne(n) == Less(n)

\* the count and the r_count the constructors give the lock a handle keeps;
\* an r_count that is a priority does not make a lock reentrant
CountOf(h) == CASE role[h] \in {"flow", "token", "semaphore"} -> LessOne(size)
                [] role[h] \in {"childLeaf", "rootLeaf"}      -> MaxCount
                [] OTHER                                      -> 0
RCountOf(h) == IF role[h] = "reentrant" THEN MaxRCount ELSE 0

Request(cmd, key, id, count, rcount, mode) ==
  [cmd |-> cmd, key |-> key, id |-> id, count |-> count, rcount |-> rcount, mode |-> mode]
OwnRequest(h, cmd, mode) ==
  Request(cmd, KeyOf(h), OwnId(h), CountOf(h), RCountOf(h), mode)

Init ==
  /\ \E mix \in Mixes : role \in [Handles -> mix]
  /\ size \in Sizes
  /\ (\E h \in Handles : role[h] \in {"flow", "token", "semaphore"}) \/ size = 0
  /\ at = [h \in Handles |-> "idle"]
  /\ req = [h \in Handles |-> NoReq]
  /\ reply = [h \in Handles |-> "none"]
  /\ calls = [h \in Handles |-> 0]
  /\ held = [h \in Handles |-> 0]
  /\ read_locks = [h \in Handles |-> << >>]
  /\ holders = [k \in Keys |-> << >>]
  /\ late = {} /\ losses = 0 /\ lostAt = {} /\ shed = {} /\ expiries = 0
  /\ won = {}
  /\ truth = IF \E h \in Handles : role[h] = "eventSet" THEN "set" ELSE "unset"
  /\ alone = {}
  /\ asked = [h \in Handles |-> "unknown"]
  /\ answer = [h \in Handles |-> "none"]

(***************************************************************************)
(* Sending a command and taking its answer.                                *)
(***************************************************************************)
Send(h, place, r) ==
  /\ at' = [at EXCEPT ![h] = place]
  /\ req' = [req EXCEPT ![h] = r]
  /\ reply' = [reply EXCEPT ![h] = "none"]
  /\ UNCHANGED <<role, size, serverVars>>

Begin(h, place, r) ==
  /\ at[h] = "idle"
  /\ calls[h] < MaxCalls /\ MapThenSumSet(LAMBDA g : calls[g], Handles) < MaxTogether
  /\ calls' = [calls EXCEPT ![h] = @ + 1]
  /\ Send(h, place, r)

Answered(h, place) == at[h] = place /\ reply[h] # "none"

Return(h) ==
  /\ at' = [at EXCEPT ![h] = "idle"]
  /\ req' = [req EXCEPT ![h] = NoReq]
  /\ reply' = [reply EXCEPT ![h] = "none"]
  /\ UNCHANGED <<role, size, calls, serverVars>>

\* apply_result: the operation is Ok when the server said so
Succeeded(h) == reply[h] = "succed"

(***************************************************************************)
(* The primitives that keep one lock: Lock, PriorityLock, ReentrantLock,   *)
(* MaxConcurrentFlow, TokenBucketFlow, and the write lock of ReadWriteLock.*)
(***************************************************************************)
OneLock == {"lock", "reentrant", "flow", "token", "rootLock", "childLock", "rw"}

Acquire(h) ==
  /\ role[h] \in OneLock
  /\ Begin(h, "acquire", OwnRequest(h, "lock", "keep"))
  /\ UNCHANGED <<held, read_locks, won, eventVars>>

AcquireReturn(h) ==
  /\ Answered(h, "acquire")
  /\ Return(h)
  /\ held' = [held EXCEPT ![h] = IF Succeeded(h) THEN @ + 1 ELSE @]
  /\ UNCHANGED <<read_locks, won, eventVars>>

\* a caller releases what it has, or what an acquire that failed may have left;
\* TokenBucketFlow has no release
Release(h) ==
  /\ role[h] \in OneLock \ {"token"}
  /\ Begin(h, "release", OwnRequest(h, "unlock", "own"))
  /\ UNCHANGED <<held, read_locks, won, eventVars>>

ReleaseReturn(h) ==
  /\ Answered(h, "release")
  /\ Return(h)
  /\ held' = [held EXCEPT ![h] = IF Succeeded(h) THEN Less(@) ELSE @]
  /\ UNCHANGED <<read_locks, won, eventVars>>

(***************************************************************************)
(* Semaphore: a fresh id per acquire, and a release that names no id but   *)
(* takes the first holder, whoever that is.                                *)
(***************************************************************************)
SemaphoreAcquire(h) ==
  /\ role[h] = "semaphore"
  /\ Begin(h, "acquire", Request("lock", "key", FreshId(h), CountOf(h), 0, "keep"))
  /\ UNCHANGED <<held, read_locks, won, eventVars>>

\* a caller releases only a permit it has
SemaphoreRelease(h) ==
  /\ role[h] = "semaphore" /\ held[h] > 0
  /\ Begin(h, "release", Request("unlock", "key", ZeroId, CountOf(h), 0, "first"))
  /\ UNCHANGED <<held, read_locks, won, eventVars>>

(***************************************************************************)
(* ReadWriteLock: a fresh lock per acquire_read, kept in read_locks; the   *)
(* latest is taken out before its release is sent, and stays out.          *)
(***************************************************************************)
AcquireRead(h) ==
  /\ role[h] = "rw"
  /\ Begin(h, "acquireRead", Request("lock", "key", FreshId(h), MaxCount, 0, "keep"))
  /\ UNCHANGED <<held, read_locks, won, eventVars>>

\* Seeded fault: the lock is kept whatever the server said.
AcquireReadReturnAlways(h) ==
  /\ Answered(h, "acquireRead")
  /\ Return(h)
  /\ read_locks' = [read_locks EXCEPT ![h] = Append(@, req[h].id)]
  /\ UNCHANGED <<held, won, eventVars>>

\* Seeded fault: the lock is not kept.
AcquireReadReturnNever(h) ==
  /\ Answered(h, "acquireRead")
  /\ Return(h)
  /\ UNCHANGED <<held, read_locks, won, eventVars>>

\* Seeded fault: the lock is kept twice.
AcquireReadReturnTwice(h) ==
  /\ Answered(h, "acquireRead")
  /\ Return(h)
  /\ read_locks' = [read_locks EXCEPT ![h] = @ \o <<req[h].id, req[h].id>>]
  /\ UNCHANGED <<held, won, eventVars>>

AcquireReadReturn(h) ==
  /\ Answered(h, "acquireRead")
  /\ Return(h)
  /\ read_locks' = [read_locks EXCEPT ![h] = IF Succeeded(h) THEN Append(@, req[h].id) ELSE @]
  /\ UNCHANGED <<held, won, eventVars>>

ReleaseRead(h) ==
  /\ role[h] = "rw" /\ read_locks[h] # << >>
  /\ LET n == Len(read_locks[h])
     IN  /\ Begin(h, "releaseRead",
                  Request("unlock", "key", read_locks[h][n], MaxCount, 0, "own"))
         /\ read_locks' = [read_locks EXCEPT ![h] = SubSeq(@, 1, n - 1)]
  /\ UNCHANGED <<held, won, eventVars>>

ReleaseReadReturn(h) ==
  /\ Answered(h, "releaseRead")
  /\ Return(h)
  /\ UNCHANGED <<held, read_locks, won, eventVars>>

(***************************************************************************)
(* TreeLeafLock: a leaf of the child puts two links, the key of the parent *)
(* as a lock id on the child and the key of the child on the parent, then  *)
(* takes its own lock.  A leaf of the root has no parent.  A failure       *)
(* releases the links again, whoever put them, and ignores the answers.    *)
(***************************************************************************)
ChildLink(cmd) == Request(cmd, "child", KeyId("root"), MaxCount, 0,
                          IF cmd = "lock" THEN "keep" ELSE "own")
ParentLink(cmd) == Request(cmd, "root", KeyId("child"), MaxCount, 0,
                           IF cmd = "lock" THEN "keep" ELSE "own")
Linked(h) == reply[h] \in {"succed", "locked"}

LeafAcquire(h) ==
  /\ \/ role[h] = "childLeaf" /\ Begin(h, "childCheck", ChildLink("lock"))
     \/ role[h] = "rootLeaf" /\ Begin(h, "leaf", OwnRequest(h, "lock", "keep"))
  /\ UNCHANGED <<held, read_locks, won, eventVars>>

LeafChildChecked(h) ==
  /\ Answered(h, "childCheck")
  /\ IF Linked(h)
     THEN Send(h, "parentCheck", ParentLink("lock")) /\ UNCHANGED calls
     ELSE Return(h)
  /\ UNCHANGED <<held, read_locks, won, eventVars>>

\* Seeded fault: the link on the child stays when the link on the parent fails.
LeafParentCheckedLeaks(h) ==
  /\ Answered(h, "parentCheck")
  /\ IF Linked(h)
     THEN Send(h, "leaf", OwnRequest(h, "lock", "keep")) /\ UNCHANGED calls
     ELSE Return(h)
  /\ UNCHANGED <<held, read_locks, won, eventVars>>

LeafParentChecked(h) ==
  /\ Answered(h, "parentCheck")
  /\ IF Linked(h)
     THEN Send(h, "leaf", OwnRequest(h, "lock", "keep"))
     ELSE Send(h, "undoChildOnly", ChildLink("unlock"))
  /\ UNCHANGED <<calls, held, read_locks, won, eventVars>>

LeafAcquired(h) ==
  /\ Answered(h, "leaf") /\ Succeeded(h)
  /\ Return(h)
  /\ held' = [held EXCEPT ![h] = @ + 1]
  /\ won' = won \cup {h}
  /\ UNCHANGED <<read_locks, eventVars>>

LeafFailed(h) ==
  /\ Answered(h, "leaf") /\ ~Succeeded(h)
  /\ IF role[h] = "childLeaf"
     THEN Send(h, "undoChild", ChildLink("unlock")) /\ UNCHANGED calls
     ELSE Return(h)
  /\ UNCHANGED <<held, read_locks, won, eventVars>>

LeafUndoParent(h) ==
  /\ Answered(h, "undoChild")
  /\ Send(h, "undoParent", ParentLink("unlock"))
  /\ UNCHANGED <<calls, held, read_locks, won, eventVars>>

LeafUndone(h) ==
  /\ Answered(h, "undoParent") \/ Answered(h, "undoChildOnly")
  /\ Return(h)
  /\ UNCHANGED <<held, read_locks, won, eventVars>>

LeafRelease(h) ==
  /\ role[h] \in {"childLeaf", "rootLeaf"} /\ held[h] > 0
  /\ Begin(h, "release", OwnRequest(h, "unlock", "tree"))
  /\ UNCHANGED <<held, read_locks, won, eventVars>>

(***************************************************************************)
(* Event: the lock whose id is the key says that the event is unset        *)
(* (default_set) or set.  set and clear lock it or unlock it and accept    *)
(* that it already was; is_set and wait ask with a lock that keeps nothing.*)
(***************************************************************************)
EventRoles == {"eventSet", "eventUnset"}
EventLock(h) == Request("lock", "key", KeyId("key"),
                        IF role[h] = "eventSet" THEN 0 ELSE 1, 0, "keep")
EventUnlock(h) == [EventLock(h) EXCEPT !.cmd = "unlock", !.mode = "own"]
EventCommand(h, op) ==
  IF (op = "set") = (role[h] = "eventSet") THEN EventUnlock(h) ELSE EventLock(h)
\* Seeded fault: the probe of an event that starts unset does not wait for its lock.
EventProbeAny(h) ==
  Request("lock", "key", FreshId(h), IF role[h] = "eventSet" THEN 0 ELSE 1, 0, "probe")

EventProbe(h) ==
  IF role[h] = "eventSet" THEN Request("lock", "key", FreshId(h), 0, 0, "probe")
                          ELSE Request("lock", "key", FreshId(h), 1, 0, "probeLocked")

\* nothing is known of an event while it may change
Unsettle == truth' = "unknown" /\ asked' = [h \in Handles |-> "unknown"]

EventChange(h, op) ==
  /\ role[h] \in EventRoles
  /\ Begin(h, op, EventCommand(h, op))
  /\ Unsettle
  /\ alone' = IF \E x \in Handles : at[x] \in {"set", "clear"} THEN {} ELSE {h}
  /\ UNCHANGED <<held, read_locks, won, answer>>

EventChanged(h) ==
  LET ok == reply[h] \in {"succed", IF req[h].cmd = "lock" THEN "locked" ELSE "unlock_error"}
  IN  /\ Answered(h, "set") \/ Answered(h, "clear")
      /\ Return(h)
      /\ truth' = IF ok /\ h \in alone THEN (IF at[h] = "set" THEN "set" ELSE "unset")
                                       ELSE truth
      /\ alone' = alone \ {h}
      /\ UNCHANGED <<held, read_locks, won, asked, answer>>

IsSet(h) ==
  /\ role[h] \in EventRoles
  /\ Begin(h, "isSet", EventProbe(h))
  /\ asked' = [asked EXCEPT ![h] = truth]
  /\ answer' = [answer EXCEPT ![h] = "none"]
  /\ UNCHANGED <<held, read_locks, won, truth, alone>>

\* is_set, and wait, which differs in that "unset" is an error to its caller
IsSetReturn(h) ==
  /\ Answered(h, "isSet")
  /\ Return(h)
  /\ answer' = [answer EXCEPT ![h] =
                  CASE reply[h] = "succed"                    -> "set"
                    [] reply[h] \in {"timeout", "unown_error"} -> "unset"
                    [] OTHER                                  -> "none"]
  /\ UNCHANGED <<held, read_locks, won, truth, alone, asked>>

(***************************************************************************)
(* The server and the network (external).  An unlock of a leaf goes on to  *)
(* the parent when it leaves nothing but the link on the child.            *)
(***************************************************************************)
Executed(r) ==
  LET hs == AfterOf(holders[r.key], r)
  IN  IF r.mode = "tree" /\ r.key = "child" /\ Len(hs) = 1 /\ Holds(hs, KeyId("root"))
      THEN [holders EXCEPT !["child"] = << >>,
                           !["root"] = Without(@, KeyId("child"))]
      ELSE [holders EXCEPT ![r.key] = hs]

Execute(h) ==
  /\ req[h] # NoReq /\ reply[h] = "none"
  /\ holders' = Executed(req[h])
  /\ reply' = [reply EXCEPT ![h] = ResultOf(holders[req[h].key], req[h])]
  /\ UNCHANGED <<role, size, at, req, calls, held, read_locks,
                 late, losses, lostAt, shed, expiries, won, eventVars>>

GiveUp(h) ==
  /\ req[h] # NoReq /\ reply[h] = "none"
  /\ losses < MaxLosses
  /\ losses' = losses + 1
  /\ late' = late \cup {[n |-> losses, req |-> req[h]]}
  /\ lostAt' = lostAt \cup {at[h]}
  /\ reply' = [reply EXCEPT ![h] = "error"]
  /\ UNCHANGED <<role, size, at, req, calls, held, read_locks,
                 holders, shed, expiries, won, eventVars>>

ExecuteLate ==
  \E x \in late :
    LET hs == holders[x.req.key]
        taken == x.req.cmd = "unlock" /\ UnlockResult(hs, x.req) = "succed"
    IN  /\ late' = late \ {x}
        /\ holders' = Executed(x.req)
        /\ shed' = IF taken THEN shed \cup {Victim(hs, x.req)} ELSE shed
        /\ Unsettle /\ alone' = {}
        /\ UNCHANGED <<role, size, clientVars, losses, lostAt, expiries, won, answer>>

Expire ==
  /\ expiries < MaxExpiries
  /\ \E k \in Keys : \E i \in DOMAIN holders[k] :
       /\ holders' = [holders EXCEPT ![k] = Without(@, @[i].id)]
       /\ shed' = shed \cup {holders[k][i].id}
  /\ expiries' = expiries + 1
  /\ Unsettle /\ alone' = {}
  /\ UNCHANGED <<role, size, clientVars, late, losses, lostAt, won, answer>>

HandleStep(h) ==
  \/ Acquire(h) \/ AcquireReturn(h) \/ Release(h) \/ ReleaseReturn(h)
  \/ SemaphoreAcquire(h) \/ SemaphoreRelease(h)
  \/ AcquireRead(h) \/ AcquireReadReturn(h) \/ ReleaseRead(h) \/ ReleaseReadReturn(h)
  \/ LeafAcquire(h) \/ LeafChildChecked(h) \/ LeafParentChecked(h)
  \/ LeafAcquired(h) \/ LeafFailed(h) \/ LeafUndoParent(h) \/ LeafUndone(h)
  \/ LeafRelease(h)
  \/ (\E op \in {"set", "clear"} : EventChange(h, op)) \/ EventChanged(h)
  \/ IsSet(h) \/ IsSetReturn(h)

ServerStep == (\E h \in Handles : Execute(h) \/ GiveUp(h)) \/ ExecuteLate \/ Expire

Next == (\E h \in Handles : HandleStep(h)) \/ ServerStep

Spec == Init /\ [][Next]_vars

(***************************************************************************)
(* Properties.                                                             *)
(***************************************************************************)

\* Places, commands and lock ids stay what the code can produce, and the queue of
\* read locks and the counts are within what the calls allow.
PrimTypeOK ==
  /\ at \in [Handles -> {"idle", "acquire", "release", "acquireRead", "releaseRead",
                         "childCheck", "parentCheck", "leaf", "undoChild", "undoParent",
                         "undoChildOnly", "set", "clear", "isSet"}]
  /\ reply \in [Handles -> {"none", "succed", "locked", "timeout", "unlock_error",
                            "unown_error", "error"}]
  /\ \A h \in Handles : (at[h] = "idle") = (req[h] = NoReq)
  /\ held \in [Handles -> 0..MaxCalls]
  /\ \A h \in Handles : Len(read_locks[h]) =< calls[h]
  /\ losses =< MaxLosses /\ Cardinality(late) =< losses

\* the acquisitions a caller relies on: those it has not begun to release
Relied(h) == IF at[h] = "release" THEN Less(held[h]) ELSE held[h]

\* the places at a key that callers rely on
Places(h) ==
  Len(read_locks[h]) +
  (IF role[h] = "semaphore" THEN Relied(h) ELSE IF Relied(h) > 0 THEN 1 ELSE 0)

PlacesAt(k) ==
  Cardinality(UNION {{h} \X (1 .. Places(h)) : h \in {g \in Handles : KeyOf(g) = k}})

\* how many callers may share a key with one who uses it as h does
Shares(h) == CASE role[h] \in {"flow", "token", "semaphore"} -> IF size = 0 THEN 1 ELSE size
               [] role[h] \in {"childLeaf", "rootLeaf"}      -> Cardinality(Handles)
               [] OTHER                                      -> 1

\* Whoever relies on a lock made with a count shares its key with no more callers
\* than that count: a write lock with nobody, a semaphore of n with n - 1 others.
\* Each hold of the others that was dropped unknown to its client (it expired, or an
\* unlock that was given up was executed after all, perhaps next to its retry) costs
\* one place and never more.
PlacesBounded ==
  \A h \in Handles :
    Relied(h) > 0 /\ OwnId(h) \notin shed
      => PlacesAt(KeyOf(h)) =< Shares(h) + Cardinality(shed)

Entered(k, id, n) == \E i \in DOMAIN holders[k] : holders[k][i].id = id /\ holders[k][i].depth >= n

\* What a caller relies on is there: the server has its lock, entered as often as
\* it counts; it has every lock in read_locks; and it has a permit for every permit
\* of a semaphore, though any release takes the first. The exceptions are the holds
\* dropped unknown to their client, one each.
PlacesBacked ==
  /\ \A h \in Handles :
       /\ role[h] # "semaphore" /\ Relied(h) > 0 /\ OwnId(h) \notin shed
            => Entered(KeyOf(h), OwnId(h), Relied(h))
       /\ \A i \in DOMAIN read_locks[h] :
            read_locks[h][i] \in shed \/ Entered("key", read_locks[h][i], 1)
  /\ (\A h \in Handles : role[h] = "semaphore")
       => PlacesAt("key") =< Len(holders["key"]) + Cardinality(shed)

\* No lock is left at the server that no caller can release: when no operation is
\* under way, there are no more holders than callers count on, plus one for each
\* command that was given up (release_read forgets its lock before it knows).
NothingLeaks ==
  (\A h \in Handles : at[h] = "idle" /\ role[h] \notin EventRoles)
    => Len(holders["key"]) =< PlacesAt("key") + losses

\* A leaf that fails to acquire takes both of its links away again, at whichever
\* of its steps it failed: as long as no leaf has succeeded, none remains. Given
\* up links or unlocks of links are the exception.
FailedLeafUnlinks ==
  (/\ \A h \in Handles : at[h] = "idle"
   /\ won = {}
   /\ lostAt \subseteq {"leaf", "acquire", "release"})
    => ~Holds(holders["child"], KeyId("root")) /\ ~Holds(holders["root"], KeyId("child"))

\* is_set and wait tell what the last completed set or clear left, if nothing
\* touched the event since then: also when that set found the event set already.
IsSetTruthful ==
  \A h \in Handles :
    at[h] = "idle" /\ answer[h] # "none" /\ asked[h] # "unknown" => answer[h] = asked[h]

\* While a leaf of the child is held, the root is locked, as the tree lock test
\* expects (tests/java_parity_flow_tree.rs); violated, see the README.
LeafLocksRoot ==
  \A h \in Handles :
    role[h] = "childLeaf" /\ Relied(h) > 0 /\ shed = {} /\ lostAt = {}
      => holders["root"] # << >>
=============================================================================
