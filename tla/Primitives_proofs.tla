-------------------------- MODULE Primitives_proofs ---------------------------
(***************************************************************************)
(* What the primitives promise, for any number of handles, any sizes, any  *)
(* number of operations and lost commands, by an invariant in five parts:  *)
(*                                                                         *)
(*   ClientInv, ServerInv  a caller waits for the command of its place;    *)
(*                         the server keeps the locks of a key apart       *)
(*   BackedInv, PermitInv  a place a handle relies on is a lock of its own *)
(*                         at the server, or a permit nobody took back     *)
(*   LinkInv               a link of a tree is there for a leaf that has   *)
(*                         yet to undo it                                  *)
(*   EventInv              the lock of an event is the state it is in      *)
(*   PlainLeak,            a lock nobody relies on was left by a command   *)
(*   PermitSlack           that was given up                               *)
(***************************************************************************)
EXTENDS Primitives, Retain_proofs, SequenceTheorems

Spots == {"idle", "acquire", "release", "acquireRead", "releaseRead", "childCheck",
          "parentCheck", "leaf", "undoChild", "undoParent", "undoChildOnly", "set", "clear",
          "isSet"}
ReplyCodes == {"succed", "locked", "timeout", "unlock_error", "unown_error", "error"}
LockIds == (Handles \cup Keys \cup {"zero"}) \X Nat
Modes == {"keep", "probe", "probeLocked", "own", "first", "tree"}
LockCommands == [cmd : {"lock", "unlock"}, key : Keys, id : LockIds, count : Nat, rcount : Nat,
             mode : Modes]
Holders == [id : LockIds, count : Nat, depth : Int]

CallerType ==
  role \in [Handles -> Roles] /\ size \in Nat /\ calls \in [Handles -> 0 .. MaxCalls]

ClientType ==
  /\ CallerType
  /\ at \in [Handles -> Spots]
  /\ req \in [Handles -> LockCommands \cup {NoReq}]
  /\ reply \in [Handles -> ReplyCodes \cup {"none"}]
  /\ held \in [Handles -> Nat]
  /\ read_locks \in [Handles -> Seq(LockIds)]

(* The command a handle waits for at each place of an operation.           *)
LockWaits(h, place, r) ==
  \/ place = "acquire" /\ role[h] \in OneLock /\ r = OwnRequest(h, "lock", "keep")
  \/ place = "release" /\ role[h] \in OneLock /\ r = OwnRequest(h, "unlock", "own")
SemaphoreWaits(h, place, r) ==
  /\ role[h] = "semaphore"
  /\ \/ place = "acquire" /\ r = Request("lock", "key", <<h, calls[h]>>, CountOf(h), 0, "keep")
     \/ place = "release" /\ r = Request("unlock", "key", ZeroId, CountOf(h), 0, "first")
ReadWaits(h, place, r) ==
  /\ role[h] = "rw"
  /\ \/ place = "acquireRead" /\ r = Request("lock", "key", <<h, calls[h]>>, MaxCount, 0, "keep")
     \/ /\ place = "releaseRead"
        /\ \E id \in LockIds : r = Request("unlock", "key", id, MaxCount, 0, "own")
LeafWaits(h, place, r) ==
  \/ /\ role[h] = "childLeaf"
     /\ \/ place = "childCheck" /\ r = ChildLink("lock")
        \/ place = "parentCheck" /\ r = ParentLink("lock")
        \/ place \in {"undoChild", "undoChildOnly"} /\ r = ChildLink("unlock")
        \/ place = "undoParent" /\ r = ParentLink("unlock")
  \/ /\ role[h] \in {"childLeaf", "rootLeaf"}
     /\ \/ place = "leaf" /\ r = OwnRequest(h, "lock", "keep")
        \/ place = "release" /\ r = OwnRequest(h, "unlock", "tree")
EventWaits(h, place, r) ==
  /\ role[h] \in EventRoles
  /\ \/ place \in {"set", "clear"} /\ r = EventCommand(h, place)
     \/ place = "isSet" /\ r = [EventProbe(h) EXCEPT !.id = <<h, calls[h]>>]
Waits(h, place, r) ==
  \/ LockWaits(h, place, r) \/ SemaphoreWaits(h, place, r) \/ ReadWaits(h, place, r)
  \/ LeafWaits(h, place, r) \/ EventWaits(h, place, r)

Asked(h) ==
  IF at[h] = "idle" THEN req[h] = NoReq /\ reply[h] = "none"
  ELSE req[h] # NoReq /\ Waits(h, at[h], req[h])

(* An operation under way is one more than those that were of use.         *)
Counted(h) ==
  /\ held[h] =< calls[h] /\ Len(read_locks[h]) =< calls[h]
  /\ at[h] # "idle" => held[h] < calls[h] /\ Len(read_locks[h]) < calls[h]

ClientInv == ClientType /\ \A h \in Handles : Asked(h) /\ Counted(h)

(* What callers wait for are commands of their own kind.                   *)
WaitsTyped ==
  CallerType => \A h \in Handles, place \in Spots : \A r :
                  Waits(h, place, r) => r \in LockCommands /\ r # NoReq

LEMMA WaitsType == WaitsTyped
  <1> SUFFICES ASSUME CallerType, NEW h \in Handles, NEW place \in Spots, NEW r,
                      Waits(h, place, r)
               PROVE  r \in LockCommands /\ r # NoReq
    BY DEF WaitsTyped
  <1>1. KeyOf(h) \in Keys /\ CountOf(h) \in Nat /\ RCountOf(h) \in Nat /\ calls[h] \in Nat
    BY PrimitivesAssumption DEF CallerType, KeyOf, Keys, CountOf, RCountOf, LessOne, Less
  <1>2. /\ OwnId(h) \in LockIds /\ ZeroId \in LockIds /\ <<h, calls[h]>> \in LockIds
        /\ \A k \in Keys : KeyId(k) \in LockIds
        /\ MaxCount \in Nat /\ {"key", "root", "child"} \subseteq Keys
    BY <1>1, PrimitivesAssumption DEF OwnId, ZeroId, KeyId, LockIds, Keys
  <1>3. \A cmd \in {"lock", "unlock"}, k \in Keys, id \in LockIds, count \in Nat,
           rcount \in Nat, mode \in Modes :
          Request(cmd, k, id, count, rcount, mode) \in LockCommands
    BY DEF Request, LockCommands
  <1>4. \A cmd \in {"lock", "unlock"} :
          ChildLink(cmd) \in LockCommands /\ ParentLink(cmd) \in LockCommands
    BY <1>2, <1>3 DEF ChildLink, ParentLink, Modes
  <1>5. \A cmd \in {"lock", "unlock"}, mode \in Modes : OwnRequest(h, cmd, mode) \in LockCommands
    BY <1>1, <1>2, <1>3 DEF OwnRequest
  <1>6. EventLock(h) \in LockCommands /\ EventUnlock(h) \in LockCommands
    <2>1. EventLock(h) \in LockCommands
      BY <1>2, <1>3 DEF EventLock, Modes
    <2> QED  BY <2>1 DEF EventUnlock, LockCommands, Modes
  <1>7. ASSUME NEW id \in LockIds
        PROVE  [EventProbe(h) EXCEPT !.id = id] \in LockCommands
    BY <1>2 DEF EventProbe, Request, LockCommands, Modes
  <1>8. r \in LockCommands
    BY <1>1, <1>2, <1>3, <1>4, <1>5, <1>6, <1>7 DEF Waits, LockWaits, SemaphoreWaits, ReadWaits, LeafWaits,
      EventWaits, Modes, EventCommand
  <1>9. r.cmd # "none"
    BY <1>8 DEF LockCommands
  <1> QED  BY <1>8, <1>9 DEF NoReq
LEMMA WaitsTypeNext == WaitsTyped'
  BY WaitsType, PTL

(* Nothing of the other handles changes. *)
Only(h) ==
  \A q \in Handles \ {h} :
    /\ at'[q] = at[q] /\ req'[q] = req[q] /\ reply'[q] = reply[q] /\ calls'[q] = calls[q]
    /\ held'[q] = held[q] /\ read_locks'[q] = read_locks[q]

(* What a handle shows of its place, its command and the answer after it   *)
(* sent r from place.                                                      *)
Sent(h, place, r) == at'[h] = place /\ req'[h] = r /\ reply'[h] = "none"

LEMMA SendFacts ==
  ASSUME ClientType, NEW h \in Handles, NEW place \in Spots, NEW r, r \in LockCommands,
         Send(h, place, r)
  PROVE  /\ at' \in [Handles -> Spots] /\ req' \in [Handles -> LockCommands \cup {NoReq}]
         /\ reply' \in [Handles -> ReplyCodes \cup {"none"}]
         /\ Sent(h, place, r)
         /\ \A q \in Handles \ {h} : at'[q] = at[q] /\ req'[q] = req[q] /\ reply'[q] = reply[q]
  BY DEF ClientType, Send, Sent

LEMMA BeginFacts ==
  ASSUME ClientType, NEW h \in Handles, NEW place, NEW r, Begin(h, place, r)
  PROVE  /\ at[h] = "idle" /\ Send(h, place, r)
         /\ calls' \in [Handles -> 0 .. MaxCalls] /\ calls'[h] = calls[h] + 1
         /\ \A q \in Handles \ {h} : calls'[q] = calls[q]
  BY PrimitivesAssumption DEF ClientType, CallerType, Begin

LEMMA ReturnFacts ==
  ASSUME ClientType, NEW h \in Handles, Return(h)
  PROVE  /\ at' \in [Handles -> Spots] /\ req' \in [Handles -> LockCommands \cup {NoReq}]
         /\ reply' \in [Handles -> ReplyCodes \cup {"none"}] /\ calls' = calls
         /\ Sent(h, "idle", NoReq)
         /\ \A q \in Handles \ {h} : at'[q] = at[q] /\ req'[q] = req[q] /\ reply'[q] = reply[q]
  BY DEF ClientType, CallerType, Return, Sent, Spots

(* What a handle waits for does not depend on the others.                  *)
LEMMA WaitsSame ==
  ASSUME NEW q \in Handles, role' = role, size' = size, calls'[q] = calls[q], NEW place, NEW r
  PROVE  Waits(q, place, r)' <=> Waits(q, place, r)
  <1>1. KeyOf(q)' = KeyOf(q) /\ CountOf(q)' = CountOf(q) /\ RCountOf(q)' = RCountOf(q)
    BY DEF KeyOf, CountOf, RCountOf, LessOne
  <1>2. EventLock(q)' = EventLock(q) /\ EventUnlock(q)' = EventUnlock(q)
        /\ EventProbe(q)' = EventProbe(q)
    BY DEF EventLock, EventUnlock, EventProbe, FreshId
  <1>3. \A cmd, mode : OwnRequest(q, cmd, mode)' = OwnRequest(q, cmd, mode)
    BY <1>1 DEF OwnRequest, Request
  <1>4. \A op : EventCommand(q, op)' = EventCommand(q, op)
    BY <1>2 DEF EventCommand
  <1>5. LockWaits(q, place, r)' <=> LockWaits(q, place, r)
    BY <1>3 DEF LockWaits
  <1>6. SemaphoreWaits(q, place, r)' <=> SemaphoreWaits(q, place, r)
    BY <1>1 DEF SemaphoreWaits, Request, ZeroId
  <1>7. ReadWaits(q, place, r)' <=> ReadWaits(q, place, r)
    BY DEF ReadWaits, Request
  <1>8. LeafWaits(q, place, r)' <=> LeafWaits(q, place, r)
    BY <1>3 DEF LeafWaits, ChildLink, ParentLink, Request, KeyId
  <1>9. EventWaits(q, place, r)' <=> EventWaits(q, place, r)
    BY <1>2, <1>4 DEF EventWaits
  <1> QED  BY <1>5, <1>6, <1>7, <1>8, <1>9 DEF Waits

LEMMA OthersInv ==
  ASSUME ClientInv, NEW h \in Handles, Only(h), role' = role, size' = size, NEW q \in Handles,
         q # h
  PROVE  (Asked(q) /\ Counted(q))'
  <1>1. /\ at'[q] = at[q] /\ req'[q] = req[q] /\ reply'[q] = reply[q] /\ calls'[q] = calls[q]
        /\ held'[q] = held[q] /\ read_locks'[q] = read_locks[q] /\ Asked(q) /\ Counted(q)
    BY DEF Only, ClientInv
  <1>2. \A place, r : Waits(q, place, r)' <=> Waits(q, place, r)
    BY <1>1, WaitsSame
  <1> QED  BY <1>1, <1>2 DEF Asked, Counted
(* Operations that begin. *)
LEMMA BegunInv ==
  ASSUME ClientInv, NEW h \in Handles, NEW place \in Spots \ {"idle"}, NEW r,
         Begin(h, place, r), Waits(h, place, r)', held' = held,
         read_locks' \in [Handles -> Seq(LockIds)], Len(read_locks'[h]) =< Len(read_locks[h]),
         \A q \in Handles \ {h} : read_locks'[q] = read_locks[q]
  PROVE  ClientInv' /\ Only(h)
  <1>1. ClientType /\ Counted(h)
    BY DEF ClientInv
  <1>2. /\ at[h] = "idle" /\ Send(h, place, r) /\ role' = role /\ size' = size
        /\ calls' \in [Handles -> 0 .. MaxCalls] /\ calls'[h] = calls[h] + 1
        /\ \A q \in Handles \ {h} : calls'[q] = calls[q]
    BY <1>1, BeginFacts DEF Begin, Send
  <1>3. CallerType' /\ Waits(h, place, r)'
    BY <1>1, <1>2 DEF ClientType, CallerType
  <1>4. r \in LockCommands /\ r # NoReq
    BY <1>3, WaitsTypeNext DEF WaitsTyped
  <1>5. /\ at' \in [Handles -> Spots] /\ req' \in [Handles -> LockCommands \cup {NoReq}]
        /\ reply' \in [Handles -> ReplyCodes \cup {"none"}]
        /\ at'[h] = place /\ req'[h] = r /\ reply'[h] = "none"
        /\ \A q \in Handles \ {h} : at'[q] = at[q] /\ req'[q] = req[q] /\ reply'[q] = reply[q]
    BY <1>1, <1>2, <1>4, SendFacts DEF Sent
  <1>6. ClientType'
    BY <1>1, <1>3, <1>5 DEF ClientType
  <1>7. Only(h)
    BY <1>2, <1>5 DEF Only
  <1>8. Asked(h)'
    BY <1>4, <1>5 DEF Asked
  <1>9. Counted(h)'
    BY <1>1, <1>2, <1>5, <1>6 DEF Counted, ClientType, CallerType
  <1> QED  BY <1>2, <1>6, <1>7, <1>8, <1>9, OthersInv DEF ClientInv

(* Operations that go on to their next command. *)
LEMMA SentOnInv ==
  ASSUME ClientInv, NEW h \in Handles, NEW place \in Spots \ {"idle"}, NEW r,
         Send(h, place, r), Waits(h, place, r), at[h] # "idle",
         calls' = calls, held' = held, read_locks' = read_locks
  PROVE  ClientInv' /\ Only(h)
  <1>1. ClientType /\ Counted(h) /\ role' = role /\ size' = size
    BY DEF ClientInv, Send
  <1>2. r \in LockCommands /\ r # NoReq
    BY <1>1, WaitsType DEF WaitsTyped, ClientType
  <1>3. /\ at' \in [Handles -> Spots] /\ req' \in [Handles -> LockCommands \cup {NoReq}]
        /\ reply' \in [Handles -> ReplyCodes \cup {"none"}]
        /\ at'[h] = place /\ req'[h] = r /\ reply'[h] = "none"
        /\ \A q \in Handles \ {h} : at'[q] = at[q] /\ req'[q] = req[q] /\ reply'[q] = reply[q]
    BY <1>1, <1>2, SendFacts DEF Sent
  <1>4. ClientType'
    BY <1>1, <1>3 DEF ClientType, CallerType
  <1>5. Only(h)
    BY <1>3 DEF Only
  <1>6. Waits(h, place, r)'
    BY <1>1, WaitsSame
  <1>7. Asked(h)'
    BY <1>2, <1>3, <1>6 DEF Asked
  <1>8. Counted(h)'
    BY <1>1, <1>3 DEF Counted
  <1> QED  BY <1>1, <1>4, <1>5, <1>7, <1>8, OthersInv DEF ClientInv

(* Operations that end. *)
LEMMA EndedInv ==
  ASSUME ClientInv, NEW h \in Handles, Return(h), at[h] # "idle",
         held' \in [Handles -> Nat], held'[h] =< held[h] + 1,
         \A q \in Handles \ {h} : held'[q] = held[q],
         read_locks' \in [Handles -> Seq(LockIds)],
         Len(read_locks'[h]) =< Len(read_locks[h]) + 1,
         \A q \in Handles \ {h} : read_locks'[q] = read_locks[q]
  PROVE  ClientInv' /\ Only(h)
  <1>1. ClientType /\ Counted(h) /\ role' = role /\ size' = size /\ calls' = calls
    BY DEF ClientInv, Return
  <1>2. /\ at' \in [Handles -> Spots] /\ req' \in [Handles -> LockCommands \cup {NoReq}]
        /\ reply' \in [Handles -> ReplyCodes \cup {"none"}]
        /\ at'[h] = "idle" /\ req'[h] = NoReq /\ reply'[h] = "none"
        /\ \A q \in Handles \ {h} : at'[q] = at[q] /\ req'[q] = req[q] /\ reply'[q] = reply[q]
    BY <1>1, ReturnFacts DEF Sent
  <1>3. ClientType'
    BY <1>1, <1>2 DEF ClientType, CallerType
  <1>4. Only(h)
    BY <1>1, <1>2 DEF Only
  <1>5. Asked(h)'
    BY <1>2 DEF Asked
  <1>6. Counted(h)'
    <2>1. calls[h] \in Nat /\ held[h] \in Nat /\ held'[h] \in Nat
          /\ Len(read_locks[h]) \in Nat /\ Len(read_locks'[h]) \in Nat
      BY <1>1 DEF ClientType, CallerType
    <2> QED  BY <1>1, <1>2, <2>1 DEF Counted
  <1> QED  BY <1>1, <1>3, <1>4, <1>5, <1>6, OthersInv DEF ClientInv


(* The commands of an operation that begins, told from the new number of   *)
(* operations.                                                             *)
LEMMA BegunWaits ==
  ASSUME NEW h \in Handles, role' = role, size' = size, calls'[h] = calls[h] + 1
  PROVE  /\ \A cmd, mode : OwnRequest(h, cmd, mode)' = OwnRequest(h, cmd, mode)
         /\ CountOf(h)' = CountOf(h)
         /\ \A op : EventCommand(h, op)' = EventCommand(h, op)
         /\ [EventProbe(h) EXCEPT !.id = <<h, calls[h]>>]' = EventProbe(h)
         /\ <<h, calls'[h]>> = FreshId(h)
  <1>1. KeyOf(h)' = KeyOf(h) /\ CountOf(h)' = CountOf(h) /\ RCountOf(h)' = RCountOf(h)
    BY DEF KeyOf, CountOf, RCountOf, LessOne
  <1>2. \A cmd, mode : OwnRequest(h, cmd, mode)' = OwnRequest(h, cmd, mode)
    BY <1>1 DEF OwnRequest, Request
  <1>3. EventLock(h)' = EventLock(h) /\ EventUnlock(h)' = EventUnlock(h)
    BY DEF EventLock, EventUnlock
  <1>4. \A op : EventCommand(h, op)' = EventCommand(h, op)
    BY <1>3 DEF EventCommand
  <1>5. [EventProbe(h) EXCEPT !.id = <<h, calls[h]>>]' = EventProbe(h)
    BY DEF EventProbe, FreshId, Request
  <1> QED  BY <1>1, <1>2, <1>4, <1>5 DEF FreshId

(* What callers wait for, and how much they may count, holds in every step *)
(* of a handle.                                                            *)
LEMMA ClientStep ==
  ASSUME ClientInv, NEW h \in Handles, HandleStep(h)
  PROVE  ClientInv' /\ Only(h)
  <1>0. /\ ClientType /\ Counted(h) /\ Asked(h)
        /\ read_locks \in [Handles -> Seq(LockIds)] /\ read_locks[h] \in Seq(LockIds)
        /\ Len(read_locks[h]) \in Nat /\ held \in [Handles -> Nat]
    BY DEF ClientInv, ClientType
  <1>a. ASSUME NEW place, NEW r, Begin(h, place, r)
        PROVE  role' = role /\ size' = size /\ calls'[h] = calls[h] + 1
    BY <1>0, <1>a, BeginFacts DEF Begin, Send
  <1>1. CASE Acquire(h) \/ Release(h)
    <2>1. held' = held /\ read_locks' = read_locks
      BY <1>1 DEF Acquire, Release
    <2>2. \E place \in Spots \ {"idle"} : \E r : Begin(h, place, r) /\ LockWaits(h, place, r)'
      BY <1>1, <1>a, BegunWaits DEF Acquire, Release, LockWaits, Spots
    <2> QED  BY <1>0, <2>1, <2>2, BegunInv DEF Waits
  <1>2. CASE SemaphoreAcquire(h) \/ SemaphoreRelease(h)
    <2>1. held' = held /\ read_locks' = read_locks
      BY <1>2 DEF SemaphoreAcquire, SemaphoreRelease
    <2>2. \E place \in Spots \ {"idle"} : \E r : Begin(h, place, r) /\ SemaphoreWaits(h, place, r)'
      BY <1>2, <1>a, BegunWaits
      DEF SemaphoreAcquire, SemaphoreRelease, SemaphoreWaits, Spots, Request, ZeroId
    <2> QED  BY <1>0, <2>1, <2>2, BegunInv DEF Waits
  <1>3. CASE AcquireRead(h)
    <2>1. held' = held /\ read_locks' = read_locks
      BY <1>3 DEF AcquireRead
    <2>2. \E place \in Spots \ {"idle"} : \E r : Begin(h, place, r) /\ ReadWaits(h, place, r)'
      BY <1>3, <1>a, BegunWaits DEF AcquireRead, ReadWaits, Spots, Request
    <2> QED  BY <1>0, <2>1, <2>2, BegunInv DEF Waits
  <1>4. CASE ReleaseRead(h)
    <2> DEFINE n == Len(read_locks[h])
    <2>1. n \in Nat \ {0} /\ read_locks[h][n] \in LockIds
          /\ SubSeq(read_locks[h], 1, n - 1) \in Seq(LockIds)
          /\ Len(SubSeq(read_locks[h], 1, n - 1)) = n - 1
      <3>1. n \in Nat \ {0} /\ \A i \in 1 .. n : read_locks[h][i] \in LockIds
        BY <1>0, <1>4 DEF ReleaseRead
      <3> HIDE DEF n
      <3>2. 1 \in Int /\ n - 1 \in Int /\ \A i \in 1 .. n - 1 : read_locks[h][i] \in LockIds
        BY <3>1
      <3>3. /\ SubSeq(read_locks[h], 1, n - 1) \in Seq(LockIds)
            /\ Len(SubSeq(read_locks[h], 1, n - 1))
                  = IF 1 =< n - 1 THEN (n - 1) - 1 + 1 ELSE 0
        BY <3>2, SubSeqProperties
      <3> QED  BY <3>1, <3>3
    <2>2. /\ held' = held /\ role[h] = "rw"
          /\ read_locks' = [read_locks EXCEPT ![h] = SubSeq(@, 1, n - 1)]
      BY <1>4 DEF ReleaseRead
    <2>3. \E place \in Spots \ {"idle"} : \E r : Begin(h, place, r) /\ ReadWaits(h, place, r)'
      BY <1>4, <1>a, <2>1, <2>2 DEF ReleaseRead, ReadWaits, Spots, Request
    <2>4. /\ read_locks' \in [Handles -> Seq(LockIds)]
          /\ Len(read_locks'[h]) =< Len(read_locks[h])
          /\ \A q \in Handles \ {h} : read_locks'[q] = read_locks[q]
      BY <1>0, <2>1, <2>2
    <2> QED  BY <1>0, <2>2, <2>3, <2>4, BegunInv DEF Waits
  <1>5. CASE LeafAcquire(h) \/ LeafRelease(h)
    <2>1. held' = held /\ read_locks' = read_locks
      BY <1>5 DEF LeafAcquire, LeafRelease
    <2>2. \E place \in Spots \ {"idle"} : \E r : Begin(h, place, r) /\ LeafWaits(h, place, r)'
      BY <1>5, <1>a, BegunWaits
      DEF LeafAcquire, LeafRelease, LeafWaits, Spots, ChildLink, Request, KeyId
    <2> QED  BY <1>0, <2>1, <2>2, BegunInv DEF Waits
  <1>6. CASE (\E op \in {"set", "clear"} : EventChange(h, op)) \/ IsSet(h)
    <2>1. held' = held /\ read_locks' = read_locks
      BY <1>6 DEF EventChange, IsSet
    <2>2. \E place \in Spots \ {"idle"} : \E r : Begin(h, place, r) /\ EventWaits(h, place, r)'
      BY <1>6, <1>a, BegunWaits DEF EventChange, IsSet, EventWaits, Spots
    <2> QED  BY <1>0, <2>1, <2>2, BegunInv DEF Waits
  <1>7. CASE AcquireReturn(h) \/ ReleaseReturn(h) \/ ReleaseReadReturn(h) \/ EventChanged(h)
             \/ IsSetReturn(h) \/ LeafAcquired(h) \/ LeafUndone(h)
    <2>1. Return(h) /\ at[h] # "idle" /\ read_locks' = read_locks
      BY <1>7 DEF AcquireReturn, ReleaseReturn, ReleaseReadReturn, EventChanged, IsSetReturn,
                  LeafAcquired, LeafUndone, Answered
    <2>2. \E n \in {held[h], held[h] + 1, Less(held[h])} : held' = [held EXCEPT ![h] = n]
      BY <1>0, <1>7 DEF AcquireReturn, ReleaseReturn, ReleaseReadReturn, EventChanged,
                         IsSetReturn, LeafAcquired, LeafUndone
    <2>3. /\ held' \in [Handles -> Nat] /\ held'[h] =< held[h] + 1
          /\ \A q \in Handles \ {h} : held'[q] = held[q]
      <3>1. \A n \in {held[h], held[h] + 1, Less(held[h])} : n \in Nat /\ n =< held[h] + 1
        BY <1>0 DEF Less
      <3> QED  BY <1>0, <2>2, <3>1
    <2> QED  BY <1>0, <2>1, <2>3, EndedInv
  <1>8. CASE AcquireReadReturn(h)
    <2>1. Return(h) /\ at[h] = "acquireRead" /\ held' = held
      BY <1>8 DEF AcquireReadReturn, Answered
    <2>2. req[h].id \in LockIds
      BY <1>0, <2>1 DEF Asked, ClientType, LockCommands
    <2> DEFINE longer == Append(read_locks[h], req[h].id)
    <2>4. longer \in Seq(LockIds) /\ Len(longer) = Len(read_locks[h]) + 1
      BY <1>0, <2>2, AppendProperties
    <2>5. \/ read_locks' = [read_locks EXCEPT ![h] = longer]
          \/ read_locks' = [read_locks EXCEPT ![h] = read_locks[h]]
      BY <1>8 DEF AcquireReadReturn
    <2> HIDE DEF longer
    <2>3. /\ read_locks' \in [Handles -> Seq(LockIds)]
          /\ Len(read_locks'[h]) =< Len(read_locks[h]) + 1
          /\ \A q \in Handles \ {h} : read_locks'[q] = read_locks[q]
      <3>1. CASE read_locks' = [read_locks EXCEPT ![h] = longer]
        BY <1>0, <2>4, <3>1
      <3>2. CASE read_locks' = [read_locks EXCEPT ![h] = read_locks[h]]
        BY <1>0, <3>2
      <3> QED  BY <2>5, <3>1, <3>2
    <2>6. held' \in [Handles -> Nat] /\ held'[h] =< held[h] + 1 /\ held' = held
      BY <1>0, <2>1
    <2> QED  BY <1>0, <2>1, <2>3, <2>6, EndedInv
  <1>9. CASE LeafChildChecked(h) \/ LeafParentChecked(h) \/ LeafFailed(h) \/ LeafUndoParent(h)
    <2>1. held' = held /\ read_locks' = read_locks /\ at[h] # "idle"
      BY <1>9 DEF LeafChildChecked, LeafParentChecked, LeafFailed, LeafUndoParent, Answered
    <2>2. \/ Return(h)
          \/ calls' = calls
             /\ \E place \in Spots \ {"idle"} : \E r : Send(h, place, r) /\ LeafWaits(h, place, r)
      <3>1. role[h] \in {"childLeaf", "rootLeaf"} /\ (at[h] # "leaf" => role[h] = "childLeaf")
        BY <1>0, <1>9
        DEF LeafChildChecked, LeafParentChecked, LeafFailed, LeafUndoParent, Answered, Asked,
            Waits, LockWaits, SemaphoreWaits, ReadWaits, LeafWaits, EventWaits
      <3> QED  BY <1>9, <3>1
               DEF LeafChildChecked, LeafParentChecked, LeafFailed, LeafUndoParent, LeafWaits,
                   Spots, Answered
    <2>3. CASE Return(h)
      BY <1>0, <2>1, <2>3, EndedInv
    <2>4. CASE calls' = calls
             /\ \E place \in Spots \ {"idle"} : \E r : Send(h, place, r) /\ LeafWaits(h, place, r)
      BY <2>1, <2>4, SentOnInv DEF Waits
    <2> QED  BY <2>2, <2>3, <2>4
  <1> QED  BY <1>1, <1>2, <1>3, <1>4, <1>5, <1>6, <1>7, <1>8, <1>9 DEF HandleStep

-----------------------------------------------------------------------------
(* The server's operators. *)

LEMMA DeepenFacts ==
  ASSUME NEW hs \in Seq(Holders), NEW id, NEW d \in Int
  PROVE  /\ Deepen(hs, id, d) \in Seq(Holders)
         /\ DOMAIN Deepen(hs, id, d) = DOMAIN hs /\ Len(Deepen(hs, id, d)) = Len(hs)
         /\ \A i \in DOMAIN hs :
              /\ Deepen(hs, id, d)[i].id = hs[i].id
              /\ Deepen(hs, id, d)[i].count = hs[i].count
              /\ Deepen(hs, id, d)[i].depth = IF hs[i].id = id THEN hs[i].depth + d
                                                               ELSE hs[i].depth
  <1>1. Len(hs) \in Nat /\ DOMAIN hs = 1 .. Len(hs)
        /\ \A i \in 1 .. Len(hs) : hs[i] \in Holders
    OBVIOUS
  <1>2. Deepen(hs, id, d) = [i \in 1 .. Len(hs) |->
                               IF hs[i].id = id THEN [hs[i] EXCEPT !.depth = @ + d] ELSE hs[i]]
    BY <1>1 DEF Deepen
  <1>3. \A i \in 1 .. Len(hs) :
          /\ Deepen(hs, id, d)[i] \in Holders
          /\ Deepen(hs, id, d)[i].id = hs[i].id
          /\ Deepen(hs, id, d)[i].count = hs[i].count
          /\ Deepen(hs, id, d)[i].depth = IF hs[i].id = id THEN hs[i].depth + d ELSE hs[i].depth
    <2> SUFFICES ASSUME NEW i \in 1 .. Len(hs)
                 PROVE  /\ Deepen(hs, id, d)[i] \in Holders
                        /\ Deepen(hs, id, d)[i].id = hs[i].id
                        /\ Deepen(hs, id, d)[i].count = hs[i].count
                        /\ Deepen(hs, id, d)[i].depth
                              = IF hs[i].id = id THEN hs[i].depth + d ELSE hs[i].depth
      OBVIOUS
    <2>1. ASSUME NEW x \in Holders
          PROVE  /\ [x EXCEPT !.depth = @ + d] \in Holders
                 /\ [x EXCEPT !.depth = @ + d].id = x.id
                 /\ [x EXCEPT !.depth = @ + d].count = x.count
                 /\ [x EXCEPT !.depth = @ + d].depth = x.depth + d
      <3>1. x.depth \in Int /\ x.depth + d \in Int
        BY DEF Holders
      <3> DEFINE e == x.depth + d
      <3>2. [x EXCEPT !.depth = e] \in Holders /\ [x EXCEPT !.depth = e].id = x.id
            /\ [x EXCEPT !.depth = e].count = x.count /\ [x EXCEPT !.depth = e].depth = e
        <4> HIDE DEF e
        <4>1. e \in Int
          BY <3>1 DEF e
        <4> QED  BY <4>1 DEF Holders
      <3> QED  BY <3>2
    <2>2. Deepen(hs, id, d)[i]
             = IF hs[i].id = id THEN [hs[i] EXCEPT !.depth = @ + d] ELSE hs[i]
      BY <1>2
    <2>3. hs[i] \in Holders
      BY <1>1
    <2> QED  BY <2>1, <2>2, <2>3
  <1>4. Deepen(hs, id, d) \in Seq(Holders)
    BY <1>1, <1>2, <1>3
  <1>5. DOMAIN Deepen(hs, id, d) = 1 .. Len(hs)
    BY <1>2
  <1> QED  BY <1>1, <1>3, <1>4, <1>5

(* Taking an id out of a queue of holders. *)
LEMMA OutFacts ==
  ASSUME NEW hs \in Seq(Holders), NEW id
  PROVE  /\ Without(hs, id) \in Seq(Holders)
         /\ Len(Without(hs, id)) \in Nat /\ Len(Without(hs, id)) =< Len(hs)
         /\ \A i \in DOMAIN Without(hs, id) :
              Without(hs, id)[i].id # id /\ \E j \in DOMAIN hs : hs[j] = Without(hs, id)[i]
         /\ \A j \in DOMAIN hs : hs[j].id # id =>
              \E i \in DOMAIN Without(hs, id) : Without(hs, id)[i] = hs[j]
  <1>1. /\ Without(hs, id) \in Seq(Holders) /\ Len(Without(hs, id)) =< Len(hs)
        /\ \E from \in [DOMAIN Without(hs, id) -> DOMAIN hs] :
             /\ \A k \in DOMAIN Without(hs, id) :
                   Without(hs, id)[k] = hs[from[k]] /\ hs[from[k]].id # id
             /\ \A j, k \in DOMAIN Without(hs, id) : j < k => from[j] < from[k]
             /\ \A i \in DOMAIN hs :
                   hs[i].id # id => \E k \in DOMAIN Without(hs, id) : from[k] = i
    BY WithoutFacts
  <1>2. PICK from \in [DOMAIN Without(hs, id) -> DOMAIN hs] :
             /\ \A k \in DOMAIN Without(hs, id) :
                   Without(hs, id)[k] = hs[from[k]] /\ hs[from[k]].id # id
             /\ \A i \in DOMAIN hs :
                   hs[i].id # id => \E k \in DOMAIN Without(hs, id) : from[k] = i
    BY <1>1
  <1>3. Len(Without(hs, id)) \in Nat
    BY <1>1
  <1>4. \A i \in DOMAIN Without(hs, id) :
              Without(hs, id)[i].id # id /\ \E j \in DOMAIN hs : hs[j] = Without(hs, id)[i]
    BY <1>2
  <1>5. \A j \in DOMAIN hs : hs[j].id # id =>
              \E i \in DOMAIN Without(hs, id) : Without(hs, id)[i] = hs[j]
    BY <1>2
  <1> QED  BY <1>1, <1>3, <1>4, <1>5

(* A lock command does nothing, enters deeper, or is let in at the end.    *)
LEMMA LockCases ==
  ASSUME NEW hs \in Seq(Holders), NEW r \in LockCommands
  PROVE  /\ AfterLock(hs, r) \in Seq(Holders)
         /\ \/ AfterLock(hs, r) = hs /\ (LockResult(hs, r) # "succed" \/ r.mode # "keep")
            \/ /\ LockResult(hs, r) = "succed" /\ r.mode = "keep" /\ Holds(hs, r.id)
               /\ AfterLock(hs, r) = Deepen(hs, r.id, 1)
            \/ /\ LockResult(hs, r) = "succed" /\ r.mode = "keep" /\ ~Holds(hs, r.id)
               /\ Admits(hs, r)
               /\ AfterLock(hs, r) = Append(hs, [id |-> r.id, count |-> r.count, depth |-> 1])
  <1>1. [id |-> r.id, count |-> r.count, depth |-> 1] \in Holders
    BY DEF LockCommands, Holders
  <1>2. Append(hs, [id |-> r.id, count |-> r.count, depth |-> 1]) \in Seq(Holders)
    BY <1>1, AppendProperties
  <1>3. Deepen(hs, r.id, 1) \in Seq(Holders)
    BY DeepenFacts
  <1>4. ~Holds(hs, r.id) => ~Reenters(hs, r)
    BY DEF Holds, Reenters
  <1>5. LockResult(hs, r) = "succed" => Admits(hs, r) \/ Reenters(hs, r)
    BY DEF LockResult
  <1> QED  BY <1>2, <1>3, <1>4, <1>5 DEF AfterLock

(* An unlock does nothing, leaves once, or takes its victim out.           *)
LEMMA UnlockCases ==
  ASSUME NEW hs \in Seq(Holders), NEW r \in LockCommands
  PROVE  /\ AfterUnlock(hs, r) \in Seq(Holders)
         /\ \/ AfterUnlock(hs, r) = hs /\ UnlockResult(hs, r) # "succed"
            \/ /\ UnlockResult(hs, r) = "succed"
               /\ \E i \in DOMAIN hs : hs[i].id = Victim(hs, r) /\ hs[i].depth > 1
               /\ AfterUnlock(hs, r) = Deepen(hs, Victim(hs, r), -1)
            \/ /\ UnlockResult(hs, r) = "succed"
               /\ ~\E i \in DOMAIN hs : hs[i].id = Victim(hs, r) /\ hs[i].depth > 1
               /\ AfterUnlock(hs, r) = Without(hs, Victim(hs, r))
         /\ UnlockResult(hs, r) = "succed" =>
              /\ r.mode # "first" \/ Holds(hs, r.id) => Victim(hs, r) = r.id
              /\ \E i \in DOMAIN hs : hs[i].id = Victim(hs, r)
  <1>1. Deepen(hs, Victim(hs, r), -1) \in Seq(Holders)
    BY DeepenFacts
  <1>2. Without(hs, Victim(hs, r)) \in Seq(Holders)
    BY OutFacts
  <1>3. UnlockResult(hs, r) = "succed" => Holds(hs, r.id) \/ (r.mode = "first" /\ hs # << >>)
    BY DEF UnlockResult
  <1>4. hs # << >> => 1 \in DOMAIN hs
    OBVIOUS
  <1> QED  BY <1>1, <1>2, <1>3, <1>4 DEF AfterUnlock, Victim, Holds

(* What the server answers, and what it keeps. *)
LEMMA ServerType ==
  ASSUME NEW hs \in Seq(Holders), NEW r \in LockCommands
  PROVE  ResultOf(hs, r) \in ReplyCodes \ {"error"} /\ AfterOf(hs, r) \in Seq(Holders)
  BY LockCases, UnlockCases DEF ResultOf, LockResult, UnlockResult, AfterOf, ReplyCodes

(* What the server keeps of a key: nobody is in the queue twice, everybody *)
(* in it entered, and everybody's count admits all that are there.         *)
Sane(hs) ==
  /\ \A i \in DOMAIN hs : hs[i].depth >= 1 /\ Len(hs) =< hs[i].count + 1
  /\ \A i, j \in DOMAIN hs : hs[i].id = hs[j].id => i = j

(* Only the lock a handle keeps is entered again, and it has one count.    *)
OwnIds == {OwnId(h) : h \in Handles}
Fits(r) ==
  r.cmd = "lock" => /\ r.id \notin OwnIds => r.rcount = 0
                    /\ \A h \in Handles : r.id = OwnId(h) => r.count = CountOf(h)
FitsIn(x) ==
  /\ x.id \notin OwnIds => x.depth = 1
  /\ \A h \in Handles : x.id = OwnId(h) => x.count = CountOf(h)
Orderly(hs) == Sane(hs) /\ \A i \in DOMAIN hs : FitsIn(hs[i])

LEMMA EntryFacts ==
  ASSUME NEW hs \in Seq(Holders)
  PROVE  /\ Len(hs) \in Nat /\ DOMAIN hs = 1 .. Len(hs)
         /\ \A i \in DOMAIN hs : /\ hs[i] \in Holders /\ hs[i].id \in LockIds
                                 /\ hs[i].count \in Nat /\ hs[i].depth \in Int
  <1>1. Len(hs) \in Nat /\ DOMAIN hs = 1 .. Len(hs)
        /\ \A i \in 1 .. Len(hs) : hs[i] \in Holders
    OBVIOUS
  <1> QED  BY <1>1 DEF Holders

(* Taking somebody out. *)
LEMMA OutKeeps ==
  ASSUME NEW hs \in Seq(Holders), Orderly(hs), NEW id
  PROVE  Orderly(Without(hs, id))
  <1> DEFINE ws == Without(hs, id)
  <1>1. /\ ws \in Seq(Holders) /\ Len(ws) =< Len(hs)
        /\ \E from \in [DOMAIN ws -> DOMAIN hs] :
             /\ \A k \in DOMAIN ws : ws[k] = hs[from[k]] /\ hs[from[k]].id # id
             /\ \A j, k \in DOMAIN ws : j < k => from[j] < from[k]
             /\ \A i \in DOMAIN hs : hs[i].id # id => \E k \in DOMAIN ws : from[k] = i
    BY WithoutFacts
  <1> HIDE DEF ws
  <1>2. PICK from \in [DOMAIN ws -> DOMAIN hs] :
             /\ \A k \in DOMAIN ws : ws[k] = hs[from[k]]
             /\ \A j, k \in DOMAIN ws : j < k => from[j] < from[k]
    BY <1>1
  <1>3. /\ Len(ws) \in Nat /\ DOMAIN ws = 1 .. Len(ws) /\ Len(hs) \in Nat /\ DOMAIN hs \subseteq Nat
        /\ \A i \in DOMAIN hs : hs[i].count \in Nat
    BY <1>1, EntryFacts
  <1>4. \A k \in DOMAIN ws : ws[k].depth >= 1 /\ Len(ws) =< ws[k].count + 1
    <2> SUFFICES ASSUME NEW k \in DOMAIN ws
                 PROVE  ws[k].depth >= 1 /\ Len(ws) =< ws[k].count + 1
      OBVIOUS
    <2>1. from[k] \in DOMAIN hs /\ ws[k] = hs[from[k]]
      BY <1>2
    <2>2. hs[from[k]].depth >= 1 /\ Len(hs) =< hs[from[k]].count + 1
      BY <2>1 DEF Orderly, Sane
    <2> QED  BY <1>1, <1>3, <2>1, <2>2
  <1>5. ASSUME NEW j \in DOMAIN ws, NEW k \in DOMAIN ws, ws[j].id = ws[k].id
        PROVE  j = k
    <2>1. from[j] = from[k] /\ from[j] \in Nat
      BY <1>2, <1>3, <1>5 DEF Orderly, Sane
    <2>2. ~(j < k) /\ ~(k < j)
      BY <1>2, <2>1
    <2> QED  BY <1>3, <2>2
  <1>6. \A k \in DOMAIN ws : FitsIn(ws[k])
    BY <1>2 DEF Orderly
  <1> QED  BY <1>4, <1>5, <1>6 DEF Orderly, Sane, ws

(* Entering once more, or leaving once. *)
LEMMA DeepenKeeps ==
  ASSUME NEW hs \in Seq(Holders), Orderly(hs), NEW id, NEW d \in Int,
         \A i \in DOMAIN hs : hs[i].id = id => id \in OwnIds /\ hs[i].depth + d >= 1
  PROVE  Orderly(Deepen(hs, id, d))
  <1> DEFINE ds == Deepen(hs, id, d)
  <1>1. /\ DOMAIN ds = DOMAIN hs /\ Len(ds) = Len(hs)
        /\ \A i \in DOMAIN hs :
              /\ ds[i].id = hs[i].id /\ ds[i].count = hs[i].count
              /\ ds[i].depth = IF hs[i].id = id THEN hs[i].depth + d ELSE hs[i].depth
    BY DeepenFacts
  <1> HIDE DEF ds
  <1>2. Sane(ds)
    BY <1>1 DEF Orderly, Sane
  <1>3. \A i \in DOMAIN ds : FitsIn(ds[i])
    BY <1>1 DEF Orderly, FitsIn
  <1> QED  BY <1>2, <1>3 DEF Orderly, ds

(* Being let in. *)
LEMMA AdmitKeeps ==
  ASSUME NEW hs \in Seq(Holders), Orderly(hs), NEW r \in LockCommands, Fits(r), r.cmd = "lock",
         Admits(hs, r)
  PROVE  Orderly(Append(hs, [id |-> r.id, count |-> r.count, depth |-> 1]))
  <1> DEFINE new == [id |-> r.id, count |-> r.count, depth |-> 1]
             as == Append(hs, new)
  <1>1. new \in Holders
    BY DEF Holders, LockCommands
  <1>2. /\ new.id = r.id /\ new.count = r.count /\ new.depth = 1 /\ r.count \in Nat
    BY DEF LockCommands
  <1> HIDE DEF new
  <1>3. /\ Len(hs) \in Nat /\ DOMAIN hs = 1 .. Len(hs)
        /\ \A i \in DOMAIN hs : hs[i].count \in Nat
    BY EntryFacts
  <1>4. /\ Len(as) = Len(hs) + 1 /\ DOMAIN as = 1 .. Len(hs) + 1
        /\ \A i \in 1 .. Len(hs) : as[i] = hs[i]
        /\ as[Len(hs) + 1] = new
    BY <1>1, AppendProperties
  <1> HIDE DEF as
  <1>5. ASSUME NEW i \in DOMAIN as
        PROVE  as[i].depth >= 1 /\ Len(as) =< as[i].count + 1 /\ FitsIn(as[i])
    <2>1. CASE i = Len(hs) + 1
      <3>1. as[i] = new /\ Len(hs) =< r.count
        BY <1>4, <2>1 DEF Admits
      <3> QED  BY <1>2, <1>3, <1>4, <3>1 DEF FitsIn, Fits
    <2>2. CASE i # Len(hs) + 1
      <3>0. i \in 1 .. Len(hs)
        BY <1>3, <1>4, <2>2
      <3>1. i \in DOMAIN hs /\ as[i] = hs[i]
        BY <1>3, <1>4, <3>0
      <3>2. Len(hs) =< hs[i].count /\ hs[i].count \in Nat /\ hs[i].depth >= 1 /\ FitsIn(hs[i])
        BY <1>3, <3>1 DEF Admits, Orderly, Sane
      <3> QED  BY <1>3, <1>4, <3>1, <3>2
    <2> QED  BY <2>1, <2>2
  <1>6. ASSUME NEW i \in DOMAIN as, NEW j \in DOMAIN as, as[i].id = as[j].id
        PROVE  i = j
    <2>1. \A k \in DOMAIN hs : hs[k].id # r.id
      BY DEF Admits, Holds
    <2>2. i \in DOMAIN hs \/ i = Len(hs) + 1
      BY <1>3, <1>4
    <2>3. j \in DOMAIN hs \/ j = Len(hs) + 1
      BY <1>3, <1>4
    <2> QED  BY <1>2, <1>3, <1>4, <1>6, <2>1, <2>2, <2>3 DEF Orderly, Sane
  <1> QED  BY <1>5, <1>6 DEF Orderly, Sane, as, new

LEMMA FirstNumbers == \A n \in Nat : IsFiniteSet(1 .. n) /\ Cardinality(1 .. n) = n
  <1> SUFFICES ASSUME NEW n \in Nat PROVE IsFiniteSet(1 .. n) /\ Cardinality(1 .. n) = n
    OBVIOUS
  <1> QED  BY FS_Interval

LEMMA OutLen ==
  ASSUME NEW hs \in Seq(Holders), Orderly(hs), NEW i \in DOMAIN hs
  PROVE  Len(Without(hs, hs[i].id)) = Len(hs) - 1
  <1> DEFINE kept == Kept(hs, hs[i].id)
  <1>1. Len(hs) \in Nat /\ DOMAIN hs = 1 .. Len(hs)
    BY EntryFacts
  <1>2. kept = (1 .. Len(hs)) \ {i}
    BY <1>1 DEF Kept, Orderly, Sane
  <1>3. i \in 1 .. Len(hs)
    BY <1>1
  <1>4a. IsFiniteSet(1 .. Len(hs)) /\ Cardinality(1 .. Len(hs)) = Len(hs)
    BY <1>1, FirstNumbers
  <1>4. Cardinality((1 .. Len(hs)) \ {i}) = Len(hs) - 1
    BY <1>3, <1>4a, FS_RemoveElement
  <1>5. Cardinality(kept) = Len(hs) - 1 /\ Cardinality(kept) \in Nat
    BY <1>2, <1>4, KeptFinite
  <1>6. Without(hs, hs[i].id) = [k \in 1 .. Cardinality(kept) |-> hs[Nth(kept, k)]]
    BY DEF Without
  <1> HIDE DEF kept
  <1>7. Without(hs, hs[i].id) \in Seq(Holders)
    BY OutFacts
  <1>8. DOMAIN Without(hs, hs[i].id) = 1 .. Cardinality(kept)
    BY <1>6
  <1>9. DOMAIN Without(hs, hs[i].id) = 1 .. Len(Without(hs, hs[i].id))
        /\ Len(Without(hs, hs[i].id)) \in Nat
    BY <1>7, EntryFacts
  <1> QED  BY <1>5, <1>8, <1>9

(* Whoever has the lock, entered so often. *)
Holding(hs, id, n) == \E i \in DOMAIN hs : hs[i].id = id /\ hs[i].depth >= n

(* A lock is granted again only to an id that may enter again.             *)
LEMMA ReentersOwn ==
  ASSUME NEW hs \in Seq(Holders), Orderly(hs), NEW r \in LockCommands, Fits(r), r.cmd = "lock",
         LockResult(hs, r) = "succed", Holds(hs, r.id)
  PROVE  r.id \in OwnIds
  <1>1. Reenters(hs, r)
    BY DEF LockResult, Admits
  <1>2. PICK i \in DOMAIN hs : hs[i].id = r.id /\ hs[i].depth =< r.rcount
    BY <1>1 DEF Reenters
  <1>3. hs[i].depth >= 1 /\ hs[i].depth \in Int
    BY EntryFacts DEF Orderly, Sane
  <1>4. r.id \notin OwnIds => r.rcount = 0
    BY DEF Fits
  <1> QED  BY <1>2, <1>3, <1>4

(* What the server does to a key keeps it orderly. *)
LEMMA AfterOrderly ==
  ASSUME NEW hs \in Seq(Holders), Orderly(hs), NEW r \in LockCommands, Fits(r)
  PROVE  AfterOf(hs, r) \in Seq(Holders) /\ Orderly(AfterOf(hs, r))
  <1>1. AfterOf(hs, r) \in Seq(Holders)
    BY ServerType
  <1>2. CASE r.cmd = "lock"
    <2>1. AfterOf(hs, r) = AfterLock(hs, r)
      BY <1>2 DEF AfterOf
    <2>2. CASE AfterLock(hs, r) = hs
      BY <2>1, <2>2
    <2>3. CASE /\ LockResult(hs, r) = "succed" /\ Holds(hs, r.id)
               /\ AfterLock(hs, r) = Deepen(hs, r.id, 1)
      <3>1. r.id \in OwnIds
        BY <1>2, <2>3, ReentersOwn
      <3>2. \A i \in DOMAIN hs : hs[i].depth \in Int /\ hs[i].depth >= 1
        BY EntryFacts DEF Orderly, Sane
      <3>3. \A i \in DOMAIN hs : hs[i].id = r.id => r.id \in OwnIds /\ hs[i].depth + 1 >= 1
        BY <3>1, <3>2
      <3> QED  BY <2>1, <1>1, <2>3, <3>3, DeepenKeeps
    <2>4. CASE /\ Admits(hs, r)
               /\ AfterLock(hs, r) = Append(hs, [id |-> r.id, count |-> r.count, depth |-> 1])
      BY <1>2, <2>1, <1>1, <2>4, AdmitKeeps
    <2> QED  BY <2>2, <2>3, <2>4, LockCases
  <1>3. CASE r.cmd # "lock"
    <2>1. AfterOf(hs, r) = AfterUnlock(hs, r)
      BY <1>3 DEF AfterOf
    <2>2. CASE AfterUnlock(hs, r) = hs
      BY <2>1, <2>2
    <2>3. CASE /\ \E i \in DOMAIN hs : hs[i].id = Victim(hs, r) /\ hs[i].depth > 1
               /\ AfterUnlock(hs, r) = Deepen(hs, Victim(hs, r), -1)
      <3>1. PICK i \in DOMAIN hs : hs[i].id = Victim(hs, r) /\ hs[i].depth > 1
        BY <2>3
      <3>2. hs[i].id \in OwnIds /\ hs[i].depth \in Int
        BY <3>1, EntryFacts DEF Orderly, FitsIn
      <3>3. \A j \in DOMAIN hs : hs[j].id = Victim(hs, r) => j = i
        BY <3>1 DEF Orderly, Sane
      <3>4. \A j \in DOMAIN hs :
              hs[j].id = Victim(hs, r) => Victim(hs, r) \in OwnIds /\ hs[j].depth + (-1) >= 1
        BY <3>1, <3>2, <3>3
      <3> QED  BY <2>1, <1>1, <2>3, <3>4, DeepenKeeps
    <2>4. CASE AfterUnlock(hs, r) = Without(hs, Victim(hs, r))
      BY <2>1, <1>1, <2>4, OutKeeps
    <2> QED  BY <2>2, <2>3, <2>4, UnlockCases
  <1> QED  BY <1>1, <1>2, <1>3

(* What a lock command does to the holders. *)
LEMMA LockHolding ==
  ASSUME NEW hs \in Seq(Holders), NEW r \in LockCommands, r.cmd = "lock"
  PROVE  /\ \A id : \A n \in Int : Holding(hs, id, n) => Holding(AfterOf(hs, r), id, n)
         /\ r.mode = "keep" /\ ResultOf(hs, r) = "succed" =>
              /\ Holds(AfterOf(hs, r), r.id)
              /\ ~Holds(hs, r.id) => Len(AfterOf(hs, r)) = Len(hs) + 1
              /\ \A n \in Int : Holding(hs, r.id, n) => Holding(AfterOf(hs, r), r.id, n + 1)
         /\ r.mode # "keep" \/ ResultOf(hs, r) # "succed" => AfterOf(hs, r) = hs
         /\ Len(AfterOf(hs, r)) >= Len(hs)
         /\ \A i \in DOMAIN AfterOf(hs, r) :
              \/ \E j \in DOMAIN hs : /\ hs[j].id = AfterOf(hs, r)[i].id
                                      /\ hs[j].count = AfterOf(hs, r)[i].count
              \/ /\ AfterOf(hs, r)[i].id = r.id /\ AfterOf(hs, r)[i].count = r.count
                 /\ r.mode = "keep" /\ ResultOf(hs, r) = "succed"
  <1>0. AfterOf(hs, r) = AfterLock(hs, r) /\ ResultOf(hs, r) = LockResult(hs, r)
    BY DEF AfterOf, ResultOf
  <1>1. CASE AfterLock(hs, r) = hs /\ (LockResult(hs, r) # "succed" \/ r.mode # "keep")
    BY <1>0, <1>1
  <1>2. CASE /\ LockResult(hs, r) = "succed" /\ r.mode = "keep" /\ Holds(hs, r.id)
             /\ AfterLock(hs, r) = Deepen(hs, r.id, 1)
    <2> DEFINE ds == Deepen(hs, r.id, 1)
    <2>1. /\ DOMAIN ds = DOMAIN hs /\ Len(ds) = Len(hs) /\ Len(hs) \in Nat
          /\ \A i \in DOMAIN hs :
                /\ ds[i].id = hs[i].id /\ ds[i].count = hs[i].count /\ hs[i].depth \in Int
                /\ ds[i].depth = IF hs[i].id = r.id THEN hs[i].depth + 1 ELSE hs[i].depth
      BY DeepenFacts, EntryFacts
    <2> HIDE DEF ds
    <2>2. \A id : \A n \in Int : Holding(hs, id, n) => Holding(ds, id, n)
      BY <2>1 DEF Holding
    <2>3. \A n \in Int : Holding(hs, r.id, n) => Holding(ds, r.id, n + 1)
      BY <2>1 DEF Holding
    <2>4. Holds(ds, r.id)
      BY <1>2, <2>1 DEF Holds
    <2> QED  BY <1>0, <1>2, <2>1, <2>2, <2>3, <2>4 DEF ds
  <1>3. CASE /\ LockResult(hs, r) = "succed" /\ r.mode = "keep" /\ ~Holds(hs, r.id)
             /\ AfterLock(hs, r) = Append(hs, [id |-> r.id, count |-> r.count, depth |-> 1])
    <2> DEFINE new == [id |-> r.id, count |-> r.count, depth |-> 1]
               as == Append(hs, new)
    <2>1. new \in Holders
      BY DEF Holders, LockCommands
    <2>2. /\ new.id = r.id /\ new.count = r.count /\ new.depth = 1
      OBVIOUS
    <2> HIDE DEF new
    <2>3. /\ Len(as) = Len(hs) + 1 /\ DOMAIN as = 1 .. Len(hs) + 1
          /\ \A i \in 1 .. Len(hs) : as[i] = hs[i]
          /\ as[Len(hs) + 1] = new
      BY <2>1, AppendProperties
    <2> HIDE DEF as
    <2>4. Len(hs) \in Nat /\ DOMAIN hs = 1 .. Len(hs) /\ DOMAIN hs \subseteq DOMAIN as
      BY <2>3, EntryFacts
    <2>5. \A id : \A n \in Int : Holding(hs, id, n) => Holding(as, id, n)
      BY <2>3, <2>4 DEF Holding
    <2>6. Holds(as, r.id)
      <3>1. Len(hs) + 1 \in DOMAIN as
        BY <2>3, <2>4
      <3> QED  BY <2>2, <2>3, <3>1 DEF Holds
    <2>7. \A n \in Int : ~Holding(hs, r.id, n)
      BY <1>3 DEF Holding, Holds
    <2>8. \A i \in DOMAIN as :
              \/ \E j \in DOMAIN hs : hs[j].id = as[i].id /\ hs[j].count = as[i].count
              \/ as[i].id = r.id /\ as[i].count = r.count
      <3> SUFFICES ASSUME NEW i \in DOMAIN as
                   PROVE  \/ \E j \in DOMAIN hs : hs[j].id = as[i].id /\ hs[j].count = as[i].count
                          \/ as[i].id = r.id /\ as[i].count = r.count
        OBVIOUS
      <3>1. i \in DOMAIN hs \/ i = Len(hs) + 1
        BY <2>3, <2>4
      <3> QED  BY <2>2, <2>3, <2>4, <3>1
    <2> QED  BY <1>0, <1>3, <2>3, <2>4, <2>5, <2>6, <2>7, <2>8 DEF as, new
  <1> QED  BY <1>1, <1>2, <1>3, LockCases

(* What an unlock does to the holders. *)
LEMMA UnlockHolding ==
  ASSUME NEW hs \in Seq(Holders), Orderly(hs), NEW r \in LockCommands, r.cmd = "unlock"
  PROVE  /\ ResultOf(hs, r) # "succed" => AfterOf(hs, r) = hs
         /\ \A id : \A n \in Int :
              Holding(hs, id, n) /\ (ResultOf(hs, r) = "succed" => Victim(hs, r) # id)
                => Holding(AfterOf(hs, r), id, n)
         /\ \A id : \A n \in Int :
              Holding(hs, id, n + 1) /\ n >= 1 => Holding(AfterOf(hs, r), id, n)
         /\ ResultOf(hs, r) = "succed" => Holds(hs, Victim(hs, r))
         /\ ResultOf(hs, r) = "succed" /\ Victim(hs, r) \notin OwnIds =>
              /\ ~Holds(AfterOf(hs, r), Victim(hs, r))
              /\ Len(AfterOf(hs, r)) = Len(hs) - 1
         /\ \A i \in DOMAIN AfterOf(hs, r) :
              \E j \in DOMAIN hs : /\ hs[j].id = AfterOf(hs, r)[i].id
                                   /\ hs[j].count = AfterOf(hs, r)[i].count
  <1>0. AfterOf(hs, r) = AfterUnlock(hs, r) /\ ResultOf(hs, r) = UnlockResult(hs, r)
    BY DEF AfterOf, ResultOf
  <1>a. /\ Len(hs) \in Nat /\ DOMAIN hs = 1 .. Len(hs)
        /\ \A i \in DOMAIN hs : hs[i].depth \in Int
        /\ UnlockResult(hs, r) = "succed" => Holds(hs, Victim(hs, r))
    BY EntryFacts, UnlockCases DEF Holds
  <1>1. CASE AfterUnlock(hs, r) = hs /\ UnlockResult(hs, r) # "succed"
    <2>1. \A id : \A n \in Int : Holding(hs, id, n + 1) => Holding(hs, id, n)
      BY <1>a DEF Holding
    <2> QED  BY <1>0, <1>1, <2>1
  <1>2. CASE /\ UnlockResult(hs, r) = "succed"
             /\ \E i \in DOMAIN hs : hs[i].id = Victim(hs, r) /\ hs[i].depth > 1
             /\ AfterUnlock(hs, r) = Deepen(hs, Victim(hs, r), -1)
    <2> DEFINE v == Victim(hs, r)
               ds == Deepen(hs, v, -1)
    <2>1. /\ DOMAIN ds = DOMAIN hs /\ Len(ds) = Len(hs)
          /\ \A i \in DOMAIN hs :
                /\ ds[i].id = hs[i].id /\ ds[i].count = hs[i].count
                /\ ds[i].depth = IF hs[i].id = v THEN hs[i].depth + (-1) ELSE hs[i].depth
      BY DeepenFacts
    <2>2. v \in OwnIds
      BY <1>2, <1>a DEF Orderly, FitsIn
    <2> HIDE DEF ds, v
    <2>3. \A id : \A n \in Int : Holding(hs, id, n) /\ v # id => Holding(ds, id, n)
      BY <2>1 DEF Holding
    <2>4. \A id : \A n \in Int : Holding(hs, id, n + 1) => Holding(ds, id, n)
      BY <1>a, <2>1 DEF Holding
    <2> QED  BY <1>0, <1>2, <1>a, <2>1, <2>2, <2>3, <2>4 DEF ds, v
  <1>3. CASE /\ UnlockResult(hs, r) = "succed"
             /\ ~\E i \in DOMAIN hs : hs[i].id = Victim(hs, r) /\ hs[i].depth > 1
             /\ AfterUnlock(hs, r) = Without(hs, Victim(hs, r))
    <2> DEFINE v == Victim(hs, r)
               ws == Without(hs, v)
    <2>1. /\ \A i \in DOMAIN ws : ws[i].id # v /\ \E j \in DOMAIN hs : hs[j] = ws[i]
          /\ \A j \in DOMAIN hs : hs[j].id # v => \E i \in DOMAIN ws : ws[i] = hs[j]
      BY OutFacts
    <2>2. PICK i \in DOMAIN hs : hs[i].id = v
      BY <1>3, <1>a DEF Holds
    <2>3. Len(ws) = Len(hs) - 1
      BY <2>2, OutLen
    <2> HIDE DEF ws
    <2>4. ~Holds(ws, v)
      BY <2>1 DEF Holds
    <2>5. \A id : \A n \in Int : Holding(hs, id, n) /\ v # id => Holding(ws, id, n)
      BY <2>1 DEF Holding
    <2>6. \A n \in Int : n >= 1 => ~Holding(hs, v, n + 1)
      BY <1>3, <1>a DEF Holding
    <2>7. \A n \in Int : Holding(hs, v, n + 1) => n < 1
      BY <2>6
    <2>8. \A id : \A n \in Int : Holding(hs, id, n + 1) => Holding(hs, id, n)
      BY <1>a DEF Holding
    <2>9. \A id : \A n \in Int :
              Holding(hs, id, n + 1) /\ n >= 1 => Holding(ws, id, n)
      BY <2>5, <2>6, <2>8
    <2> QED  BY <1>0, <1>3, <1>a, <2>1, <2>3, <2>4, <2>5, <2>9 DEF ws
  <1> QED  BY <1>1, <1>2, <1>3, UnlockCases

-----------------------------------------------------------------------------
(* The keys at the server. *)
Queues == holders \in [Keys -> Seq(Holders)] /\ \A k \in Keys : Orderly(holders[k])

Links == {KeyId("root"), KeyId("child")}

LEMMA ExecutedCases ==
  ASSUME Queues, NEW r \in LockCommands
  PROVE  /\ r.key \in Keys
         /\ \/ Executed(r) = [holders EXCEPT ![r.key] = AfterOf(holders[r.key], r)]
            \/ /\ r.key = "child" /\ Len(AfterOf(holders["child"], r)) = 1
               /\ Holds(AfterOf(holders["child"], r), KeyId("root"))
               /\ Executed(r) = [holders EXCEPT !["child"] = << >>,
                                                !["root"] = Without(@, KeyId("child"))]
  <1>1. r.key \in Keys
    BY DEF LockCommands
  <1> QED  BY <1>1 DEF Executed, Queues

LEMMA ExecutedKeeps ==
  ASSUME Queues, NEW r \in LockCommands, Fits(r)
  PROVE  /\ Executed(r) \in [Keys -> Seq(Holders)]
         /\ \A k \in Keys : Orderly(Executed(r)[k])
         /\ Executed(r)["key"] = IF r.key = "key" THEN AfterOf(holders["key"], r)
                                                  ELSE holders["key"]
  <1>1. /\ r.key \in Keys /\ \A k \in Keys : holders[k] \in Seq(Holders) /\ Orderly(holders[k])
        /\ "key" \in Keys /\ "child" \in Keys /\ "root" \in Keys
        /\ holders \in [Keys -> Seq(Holders)]
    BY ExecutedCases DEF Queues, Keys
  <1>2. AfterOf(holders[r.key], r) \in Seq(Holders) /\ Orderly(AfterOf(holders[r.key], r))
    BY <1>1, AfterOrderly
  <1>3. << >> \in Seq(Holders) /\ Orderly(<< >>)
    BY DEF Orderly, Sane
  <1>4. /\ Without(holders["root"], KeyId("child")) \in Seq(Holders)
        /\ Orderly(Without(holders["root"], KeyId("child")))
    BY <1>1, OutFacts, OutKeeps
  <1>5. CASE Executed(r) = [holders EXCEPT ![r.key] = AfterOf(holders[r.key], r)]
    BY <1>1, <1>2, <1>5
  <1>6. CASE /\ r.key = "child"
             /\ Executed(r) = [holders EXCEPT !["child"] = << >>,
                                              !["root"] = Without(@, KeyId("child"))]
    <2> DEFINE ws == Without(holders["root"], KeyId("child"))
    <2>1. Executed(r) = [holders EXCEPT !["child"] = << >>, !["root"] = ws]
      BY <1>6
    <2> HIDE DEF ws
    <2>2. /\ Executed(r) \in [Keys -> Seq(Holders)] /\ Executed(r)["key"] = holders["key"]
          /\ Executed(r)["root"] = ws /\ Executed(r)["child"] = << >>
      BY <1>1, <1>3, <1>4, <2>1 DEF ws
    <2>3. \A k \in Keys : Orderly(Executed(r)[k])
      BY <1>1, <1>3, <1>4, <2>2 DEF ws, Keys
    <2> QED  BY <1>6, <2>2, <2>3
  <1> QED  BY <1>5, <1>6, ExecutedCases

(* A tree unlock takes nobody away with the links.                         *)
LEMMA ExecutedHolding ==
  ASSUME Queues, NEW r \in LockCommands, Fits(r), NEW k \in Keys, NEW id, id \notin Links,
         NEW n \in Int
  PROVE  /\ k # r.key /\ Holding(holders[k], id, n) => Holding(Executed(r)[k], id, n)
         /\ k = r.key /\ Holding(AfterOf(holders[k], r), id, n) => Holding(Executed(r)[k], id, n)
  <1>1. /\ r.key \in Keys /\ \A q \in Keys : holders[q] \in Seq(Holders)
        /\ "child" \in Keys /\ "root" \in Keys /\ holders \in [Keys -> Seq(Holders)]
    BY ExecutedCases DEF Queues, Keys
  <1>5. CASE Executed(r) = [holders EXCEPT ![r.key] = AfterOf(holders[r.key], r)]
    BY <1>1, <1>5
  <1>6. CASE /\ r.key = "child" /\ Len(AfterOf(holders["child"], r)) = 1
             /\ Holds(AfterOf(holders["child"], r), KeyId("root"))
             /\ Executed(r) = [holders EXCEPT !["child"] = << >>,
                                              !["root"] = Without(@, KeyId("child"))]
    <2> DEFINE ws == Without(holders["root"], KeyId("child"))
               hs == AfterOf(holders["child"], r)
    <2>1. Executed(r) = [holders EXCEPT !["child"] = << >>, !["root"] = ws]
      BY <1>6
    <2>2. hs \in Seq(Holders)
      BY <1>1, ServerType
    <2>3. DOMAIN hs = 1 .. 1
      BY <1>6, <2>2, EntryFacts
    <2> HIDE DEF hs
    <2>4. ~Holding(hs, id, n)
      <3>1. \A i \in DOMAIN hs : i = 1
        BY <2>3
      <3>2. PICK i \in DOMAIN hs : hs[i].id = KeyId("root")
        BY <1>6 DEF Holds, hs
      <3> QED  BY <3>1, <3>2 DEF Holding, Links
    <2>5. \A j \in DOMAIN holders["root"] : holders["root"][j].id # KeyId("child") =>
              \E i \in DOMAIN ws : ws[i] = holders["root"][j]
      <3> DEFINE rs == holders["root"]
                 link == KeyId("child")
      <3>1. rs \in Seq(Holders)
        BY <1>1
      <3> HIDE DEF rs, link
      <3>2. \A j \in DOMAIN rs : rs[j].id # link =>
              \E i \in DOMAIN Without(rs, link) : Without(rs, link)[i] = rs[j]
        BY <3>1, OutFacts
      <3> QED  BY <3>2 DEF rs, link
    <2> HIDE DEF ws
    <2>6. Executed(r)["root"] = ws /\ Executed(r)["key"] = holders["key"]
      <3>1. "key" \in Keys
        BY DEF Keys
      <3> QED  BY <1>1, <2>1, <3>1
    <2>7. Holding(holders["root"], id, n) => Holding(ws, id, n)
      BY <2>5 DEF Holding, Links
    <2>8. k = "child" \/ k = "root" \/ k = "key"
      BY DEF Keys
    <2> QED  BY <1>6, <2>4, <2>6, <2>7, <2>8 DEF hs
  <1> QED  BY <1>5, <1>6, ExecutedCases

(* Whom an executed command finds at a key it leaves there, unless it is   *)
(* an unlock that takes out just that one; and who entered twice is there  *)
(* still when he leaves once.                                              *)
LEMMA ExecutedLeaves ==
  ASSUME Queues, NEW r \in LockCommands, Fits(r), NEW k \in Keys, NEW id, id \notin Links
  PROVE  /\ \A n \in Int :
              /\ Holding(holders[k], id, n)
              /\ r.cmd = "unlock" /\ r.key = k /\ ResultOf(holders[k], r) = "succed" =>
                    Victim(holders[k], r) # id
              => Holding(Executed(r)[k], id, n)
         /\ \A n \in Int :
              Holding(holders[k], id, n + 1) /\ n >= 1 => Holding(Executed(r)[k], id, n)
         /\ r.cmd = "lock" /\ r.mode = "keep" /\ r.key = k /\ r.id = id
            /\ ResultOf(holders[k], r) = "succed" =>
              /\ Holding(Executed(r)[k], id, 1)
              /\ \A n \in Int : Holding(holders[k], id, n) => Holding(Executed(r)[k], id, n + 1)
  <1>1. /\ r.key \in Keys /\ holders[k] \in Seq(Holders) /\ Orderly(holders[k])
        /\ r.cmd \in {"lock", "unlock"}
    BY ExecutedCases DEF Queues, LockCommands
  <1>2. \A n \in Int : Holding(holders[k], id, n + 1) => Holding(holders[k], id, n)
    BY <1>1, EntryFacts DEF Holding
  <1>3. \A n \in Int :
          /\ k # r.key /\ Holding(holders[k], id, n) => Holding(Executed(r)[k], id, n)
          /\ k = r.key /\ Holding(AfterOf(holders[k], r), id, n) => Holding(Executed(r)[k], id, n)
    BY ExecutedHolding
  <1>4. \A n \in Int : n + 1 \in Int
    OBVIOUS
  <1>5. CASE k # r.key
    BY <1>2, <1>3, <1>4, <1>5
  <1>6. CASE k = r.key /\ r.cmd = "unlock"
    <2>1. /\ \A n \in Int :
              Holding(holders[k], id, n) /\ (ResultOf(holders[k], r) = "succed" => Victim(holders[k], r) # id)
                => Holding(AfterOf(holders[k], r), id, n)
          /\ \A n \in Int :
              Holding(holders[k], id, n + 1) /\ n >= 1 => Holding(AfterOf(holders[k], r), id, n)
      BY <1>1, <1>6, UnlockHolding
    <2> QED  BY <1>3, <1>6, <2>1
  <1>7. CASE k = r.key /\ r.cmd = "lock"
    <2>1. /\ \A n \in Int : Holding(holders[k], id, n) => Holding(AfterOf(holders[k], r), id, n)
          /\ r.mode = "keep" /\ ResultOf(holders[k], r) = "succed" =>
              /\ Holds(AfterOf(holders[k], r), r.id)
              /\ \A n \in Int :
                    Holding(holders[k], r.id, n) => Holding(AfterOf(holders[k], r), r.id, n + 1)
      BY <1>1, <1>7, LockHolding
    <2>2. Holds(AfterOf(holders[k], r), r.id) => Holding(AfterOf(holders[k], r), r.id, 1)
      <3>1. Orderly(AfterOf(holders[k], r))
        BY <1>1, AfterOrderly
      <3> QED  BY <3>1 DEF Holds, Holding, Orderly, Sane
    <2>3. 1 \in Int
      OBVIOUS
    <2> QED  BY <1>2, <1>3, <1>4, <1>7, <2>1, <2>2, <2>3
  <1> QED  BY <1>1, <1>5, <1>6, <1>7

-----------------------------------------------------------------------------
(* The steps of a handle: it begins an operation, ends one, or goes on to  *)
(* its next command.  The server sees nothing of them.                     *)

(* What a handle has as soon as its answer is there. *)
Backing(h) ==
  CASE at[h] \in {"acquire", "leaf"} /\ Succeeded(h) -> held[h] + 1
    [] at[h] = "release" /\ Succeeded(h)             -> Less(held[h])
    [] OTHER                                         -> held[h]
Readers(h) ==
  IF at[h] = "acquireRead" /\ Succeeded(h) THEN Append(read_locks[h], req[h].id)
                                           ELSE read_locks[h]

PopsReader(h) ==
  LET n == Len(read_locks[h])
  IN  /\ role[h] = "rw" /\ at'[h] = "releaseRead" /\ read_locks[h] # << >>
      /\ req'[h].id = read_locks[h][n] /\ read_locks'[h] = SubSeq(read_locks[h], 1, n - 1)
Begun(h) ==
  /\ at[h] = "idle" /\ reply[h] = "none" /\ reply'[h] = "none"
  /\ at'[h] \in {"acquire", "release", "acquireRead", "releaseRead", "childCheck", "leaf", "set",
                 "clear", "isSet"}
  /\ calls'[h] = calls[h] + 1 /\ held'[h] = held[h]
  /\ PopsReader(h) \/ (at'[h] # "releaseRead" /\ read_locks'[h] = read_locks[h])
  /\ role[h] = "semaphore" /\ at'[h] = "release" => held[h] > 0
  /\ at'[h] = "leaf" => role[h] = "rootLeaf"
Ended(h) ==
  /\ at[h] # "idle" /\ at'[h] = "idle" /\ reply'[h] = "none" /\ calls'[h] = calls[h]
  /\ held'[h] = Backing(h) /\ read_locks'[h] = Readers(h)
Passed(h) ==
  /\ at[h] \in {"childCheck", "parentCheck", "leaf", "undoChild"}
  /\ at'[h] \in {"parentCheck", "leaf", "undoChildOnly", "undoChild", "undoParent"}
  /\ at[h] = "leaf" => ~Succeeded(h)
  /\ reply'[h] = "none" /\ calls'[h] = calls[h]
  /\ held'[h] = held[h] /\ read_locks'[h] = read_locks[h]

LEMMA StepKinds ==
  ASSUME ClientInv, NEW h \in Handles, HandleStep(h)
  PROVE  UNCHANGED <<role, size, serverVars>> /\ (Begun(h) \/ Ended(h) \/ Passed(h))
  <1>0. /\ ClientType /\ Asked(h) /\ at \in [Handles -> Spots] /\ reply \in [Handles -> ReplyCodes \cup {"none"}]
        /\ held \in [Handles -> Nat] /\ calls \in [Handles -> 0 .. MaxCalls]
        /\ read_locks \in [Handles -> Seq(LockIds)]
        /\ req \in [Handles -> LockCommands \cup {NoReq}]
    BY DEF ClientInv, ClientType, CallerType
  <1>a. ASSUME NEW place, NEW r, Begin(h, place, r)
        PROVE  /\ UNCHANGED <<role, size, serverVars>>
               /\ at[h] = "idle" /\ reply[h] = "none" /\ reply'[h] = "none"
               /\ at'[h] = place /\ req'[h] = r /\ calls'[h] = calls[h] + 1
    BY <1>0, <1>a DEF Begin, Send, Asked
  <1>b. ASSUME Return(h)
        PROVE  /\ UNCHANGED <<role, size, serverVars>>
               /\ at'[h] = "idle" /\ reply'[h] = "none" /\ calls'[h] = calls[h]
    BY <1>0, <1>b DEF Return
  <1>c. ASSUME NEW place, NEW r, Send(h, place, r)
        PROVE  /\ UNCHANGED <<role, size, serverVars>>
               /\ at'[h] = place /\ reply'[h] = "none"
    BY <1>0, <1>c DEF Send
  <1>1. CASE \/ Acquire(h) \/ Release(h) \/ SemaphoreAcquire(h) \/ SemaphoreRelease(h)
             \/ AcquireRead(h) \/ LeafAcquire(h) \/ LeafRelease(h)
             \/ (\E op \in {"set", "clear"} : EventChange(h, op)) \/ IsSet(h)
    <2>1. held' = held /\ read_locks' = read_locks
      BY <1>1 DEF Acquire, Release, SemaphoreAcquire, SemaphoreRelease, AcquireRead, LeafAcquire,
                  LeafRelease, EventChange, IsSet
    <2>2. \E place \in {"acquire", "release", "acquireRead", "childCheck", "leaf", "set", "clear",
                        "isSet"} : \E r :
            /\ Begin(h, place, r) /\ (place = "leaf" => role[h] = "rootLeaf")
            /\ role[h] = "semaphore" /\ place = "release" => held[h] > 0
      BY <1>1 DEF Acquire, Release, SemaphoreAcquire, SemaphoreRelease, AcquireRead, LeafAcquire,
                  LeafRelease, EventChange, IsSet, OneLock
    <2> QED  BY <1>a, <2>1, <2>2 DEF Begun
  <1>2. CASE ReleaseRead(h)
    <2> DEFINE n == Len(read_locks[h])
    <2>1. /\ role[h] = "rw" /\ read_locks[h] # << >> /\ held' = held
          /\ \E r : Begin(h, "releaseRead", r) /\ r.id = read_locks[h][n]
          /\ read_locks' = [read_locks EXCEPT ![h] = SubSeq(@, 1, n - 1)]
      BY <1>2 DEF ReleaseRead, Request
    <2>2. read_locks'[h] = SubSeq(read_locks[h], 1, n - 1)
      BY <1>0, <2>1
    <2> QED  BY <1>a, <2>1, <2>2 DEF Begun, PopsReader
  <1>3. CASE \/ AcquireReturn(h) \/ ReleaseReturn(h) \/ LeafAcquired(h) \/ AcquireReadReturn(h)
    <2>1. Return(h) /\ at[h] # "idle"
      BY <1>3 DEF AcquireReturn, ReleaseReturn, LeafAcquired, AcquireReadReturn, Answered
    <2>2. held'[h] = Backing(h)
      BY <1>0, <1>3 DEF AcquireReturn, ReleaseReturn, LeafAcquired, AcquireReadReturn, Answered,
                        Backing, Succeeded
    <2>3. read_locks'[h] = Readers(h)
      BY <1>0, <1>3 DEF AcquireReturn, ReleaseReturn, LeafAcquired, AcquireReadReturn, Answered,
                        Readers, Succeeded
    <2> QED  BY <1>b, <2>1, <2>2, <2>3 DEF Ended
  <1>4. CASE ReleaseReadReturn(h) \/ EventChanged(h) \/ IsSetReturn(h) \/ LeafUndone(h)
    <2>1. /\ Return(h) /\ held' = held /\ read_locks' = read_locks
          /\ at[h] \in {"releaseRead", "set", "clear", "isSet", "undoParent", "undoChildOnly"}
      BY <1>4 DEF ReleaseReadReturn, EventChanged, IsSetReturn, LeafUndone, Answered
    <2> QED  BY <1>b, <2>1 DEF Ended, Backing, Readers
  <1>5. CASE LeafChildChecked(h) \/ LeafParentChecked(h) \/ LeafFailed(h) \/ LeafUndoParent(h)
    <2>1. /\ held' = held /\ read_locks' = read_locks
          /\ at[h] \in {"childCheck", "parentCheck", "leaf", "undoChild"}
          /\ at[h] = "leaf" => ~Succeeded(h)
      BY <1>5 DEF LeafChildChecked, LeafParentChecked, LeafFailed, LeafUndoParent, Answered
    <2>2. \/ Return(h)
          \/ calls' = calls
             /\ \E place \in {"parentCheck", "leaf", "undoChildOnly", "undoChild", "undoParent"} : \E r :
                   Send(h, place, r)
      BY <1>5 DEF LeafChildChecked, LeafParentChecked, LeafFailed, LeafUndoParent
    <2>3. CASE Return(h)
      BY <1>b, <2>1, <2>3 DEF Ended, Backing, Readers
    <2>4. CASE calls' = calls
             /\ \E place \in {"parentCheck", "leaf", "undoChildOnly", "undoChild", "undoParent"} : \E r :
                   Send(h, place, r)
      BY <1>c, <2>1, <2>4 DEF Passed
    <2> QED  BY <2>2, <2>3, <2>4
  <1> QED  BY <1>1, <1>2, <1>3, <1>4, <1>5 DEF HandleStep

-----------------------------------------------------------------------------
(* The types of the server's side. *)
ServerInv ==
  /\ Queues
  /\ \A x \in late : x.req \in LockCommands /\ Fits(x.req)
  /\ IsFiniteSet(late) /\ Cardinality(late) =< losses /\ losses \in 0 .. MaxLosses
  /\ shed \in SUBSET LockIds /\ IsFiniteSet(shed)

(* Ids made of a key, and fresh ones, are nobody's own. *)
LEMMA ForeignIds ==
  /\ \A k \in Keys : KeyId(k) \notin OwnIds
  /\ \A h, n : n # 0 => <<h, n>> \notin OwnIds
  /\ ZeroId \notin OwnIds
  /\ \A g, h \in Handles : OwnId(g) = OwnId(h) => g = h
  /\ \A h \in Handles : OwnId(h) \notin Links
  /\ \A h, n : n # 0 => <<h, n>> \notin Links
  BY HandlesAssumption DEF OwnIds, OwnId, KeyId, ZeroId, Links, Keys

LEMMA WaitsFit ==
  ASSUME ClientInv, NEW h \in Handles, at[h] # "idle"
  PROVE  req[h] \in LockCommands /\ req[h] # NoReq /\ Fits(req[h]) /\ calls[h] \in Nat \ {0}
  <1>1. /\ ClientType /\ Waits(h, at[h], req[h]) /\ CallerType /\ at[h] \in Spots
        /\ held[h] \in Nat /\ calls[h] \in Nat /\ held[h] < calls[h]
    BY DEF ClientInv, Asked, ClientType, CallerType, Counted
  <1>2. calls[h] # 0
    BY <1>1
  <1>3. req[h] \in LockCommands /\ req[h] # NoReq
    BY <1>1, WaitsType DEF WaitsTyped
  <1>4. \A r : r.cmd = "unlock" \/ (r.id \notin OwnIds /\ r.rcount = 0) => Fits(r)
    BY DEF Fits, OwnIds
  <1>a. \A cmd, k, id, count, rcount, mode :
          LET r == Request(cmd, k, id, count, rcount, mode)
          IN  r.cmd = cmd /\ r.id = id /\ r.count = count /\ r.rcount = rcount
    BY DEF Request
  <1>5. ASSUME NEW cmd, NEW mode
        PROVE  Fits(OwnRequest(h, cmd, mode))
    <2>1. OwnId(h) \in OwnIds /\ \A g \in Handles : OwnId(h) = OwnId(g) => g = h
      BY ForeignIds DEF OwnIds
    <2>2. OwnRequest(h, cmd, mode).id = OwnId(h) /\ OwnRequest(h, cmd, mode).count = CountOf(h)
      BY <1>a DEF OwnRequest
    <2> QED  BY <2>1, <2>2 DEF Fits
  <1>7. CASE LockWaits(h, at[h], req[h])
    BY <1>1, <1>2, <1>3, <1>5, <1>7 DEF LockWaits
  <1>8. CASE SemaphoreWaits(h, at[h], req[h]) \/ ReadWaits(h, at[h], req[h])
    <2>1. <<h, calls[h]>> \notin OwnIds
      BY <1>2, ForeignIds
    <2>2. req[h].cmd = "unlock" \/ (req[h].id = <<h, calls[h]>> /\ req[h].rcount = 0)
      BY <1>8, <1>a DEF SemaphoreWaits, ReadWaits
    <2> QED  BY <1>1, <1>2, <1>3, <1>4, <2>1, <2>2
  <1>9. CASE LeafWaits(h, at[h], req[h])
    <2>1. KeyId("root") \notin OwnIds /\ KeyId("child") \notin OwnIds
      BY ForeignIds DEF Keys
    <2>2. \A cmd : /\ ChildLink(cmd).id = KeyId("root") /\ ChildLink(cmd).rcount = 0
                   /\ ParentLink(cmd).id = KeyId("child") /\ ParentLink(cmd).rcount = 0
      BY <1>a DEF ChildLink, ParentLink
    <2>3. \A cmd : Fits(ChildLink(cmd)) /\ Fits(ParentLink(cmd))
      BY <1>4, <2>1, <2>2
    <2> QED  BY <1>1, <1>2, <1>3, <1>5, <1>9, <2>3 DEF LeafWaits
  <1>10. CASE EventWaits(h, at[h], req[h])
    <2>1. KeyId("key") \notin OwnIds /\ <<h, calls[h]>> \notin OwnIds
      BY <1>2, ForeignIds DEF Keys
    <2>2. EventLock(h).id = KeyId("key") /\ EventLock(h).rcount = 0
      BY <1>a DEF EventLock
    <2>3. EventUnlock(h).cmd = "unlock"
      BY DEF EventUnlock, EventLock, Request
    <2>4. ASSUME req[h] = [EventProbe(h) EXCEPT !.id = <<h, calls[h]>>]
          PROVE  req[h].id = <<h, calls[h]>> /\ req[h].rcount = 0
      BY <2>4 DEF EventProbe, Request
    <2> QED  BY <1>1, <1>2, <1>3, <1>4, <1>10, <2>1, <2>2, <2>3, <2>4 DEF EventWaits, EventCommand
  <1> QED  BY <1>1, <1>2, <1>3, <1>7, <1>8, <1>9, <1>10 DEF Waits

(* Who a handle is does not change, nor what fits. *)
LEMMA FitsSame ==
  ASSUME role' = role, size' = size
  PROVE  /\ \A h : CountOf(h)' = CountOf(h) /\ KeyOf(h)' = KeyOf(h)
         /\ \A r : Fits(r)' <=> Fits(r)
         /\ \A x : FitsIn(x)' <=> FitsIn(x)
  <1>1. \A h : CountOf(h)' = CountOf(h) /\ KeyOf(h)' = KeyOf(h)
    BY DEF CountOf, KeyOf, LessOne
  <1> QED  BY <1>1 DEF Fits, FitsIn

LEMMA QueuesBecome ==
  ASSUME role' = role, size' = size, holders' \in [Keys -> Seq(Holders)],
         \A k \in Keys : Orderly(holders'[k])
  PROVE  Queues'
  BY FitsSame DEF Queues, Orderly, Sane

LEMMA HandleServer ==
  ASSUME ServerInv, UNCHANGED <<role, size, serverVars>>
  PROVE  ServerInv'
  <1>1. Queues'
    BY QueuesBecome DEF ServerInv, Queues, serverVars
  <1> QED  BY <1>1, FitsSame DEF ServerInv, serverVars

LEMMA ExecutedServer ==
  ASSUME ServerInv, NEW r \in LockCommands, Fits(r), holders' = Executed(r),
         role' = role, size' = size
  PROVE  Queues'
  BY ExecutedKeeps, QueuesBecome DEF ServerInv

LEMMA ExecuteServer ==
  ASSUME ClientInv, ServerInv, NEW h \in Handles, Execute(h)
  PROVE  ServerInv'
  <1>1. at[h] # "idle"
    BY DEF ClientInv, Asked, Execute
  <1>2. Queues'
    BY <1>1, WaitsFit, ExecutedServer DEF Execute
  <1> QED  BY <1>2, FitsSame DEF ServerInv, Execute

(* A command that is given up is one more loss. *)
LEMMA LostServer ==
  ASSUME ServerInv, NEW r \in LockCommands, Fits(r), losses < MaxLosses, losses' = losses + 1,
         late' = late \cup {[n |-> losses, req |-> r]} \/ late' = late,
         UNCHANGED <<role, size, holders, shed>>
  PROVE  ServerInv'
  <1>1. Queues'
    BY QueuesBecome DEF ServerInv, Queues
  <1>2. IsFiniteSet(late) /\ Cardinality(late) \in Nat /\ Cardinality(late) =< losses
        /\ losses \in Nat /\ MaxLosses \in Nat
    BY PrimitivesAssumption, FS_CardinalityType DEF ServerInv
  <1>3. IsFiniteSet(late') /\ Cardinality(late') =< losses'
    <2>1. CASE late' = late
      BY <1>2, <2>1
    <2>2. CASE late' = late \cup {[n |-> losses, req |-> r]}
      <3>1. /\ IsFiniteSet(late') /\ Cardinality(late') \in {Cardinality(late), Cardinality(late) + 1}
        BY <1>2, <2>2, FS_AddElement
      <3> QED  BY <1>2, <3>1
    <2> QED  BY <2>1, <2>2
  <1>4. \A x \in late' : x.req \in LockCommands /\ Fits(x.req)
    BY DEF ServerInv
  <1> QED  BY <1>1, <1>2, <1>3, <1>4, FitsSame DEF ServerInv

LEMMA GiveUpServer ==
  ASSUME ClientInv, ServerInv, NEW h \in Handles, GiveUp(h)
  PROVE  ServerInv'
  <1>1. at[h] # "idle"
    BY DEF ClientInv, Asked, GiveUp
  <1> QED  BY <1>1, WaitsFit, LostServer DEF GiveUp

LEMMA ExecuteLateServer ==
  ASSUME ServerInv, ExecuteLate
  PROVE  ServerInv'
  <1> DEFINE taken(x) == /\ x.req.cmd = "unlock"
                         /\ UnlockResult(holders[x.req.key], x.req) = "succed"
             victim(x) == Victim(holders[x.req.key], x.req)
  <1>1. PICK x \in late :
          /\ late' = late \ {x} /\ holders' = Executed(x.req)
          /\ shed' = IF taken(x) THEN shed \cup {victim(x)} ELSE shed
          /\ UNCHANGED <<role, size, losses>>
    BY DEF ExecuteLate
  <1>2. x.req \in LockCommands /\ Fits(x.req) /\ x.req.key \in Keys
    BY DEF ServerInv, LockCommands
  <1>3. Queues'
    BY <1>1, <1>2, ExecutedServer
  <1>4. IsFiniteSet(late') /\ Cardinality(late') =< losses'
    <2>1. IsFiniteSet(late) /\ Cardinality(late) \in Nat /\ Cardinality(late) =< losses
          /\ losses \in Nat
      BY FS_CardinalityType DEF ServerInv
    <2>2. IsFiniteSet(late \ {x}) /\ Cardinality(late \ {x}) = Cardinality(late) - 1
      BY <2>1, FS_RemoveElement
    <2> QED  BY <1>1, <2>1, <2>2
  <1>5. shed' \in SUBSET LockIds /\ IsFiniteSet(shed')
    <2> DEFINE v == victim(x)
               hs == holders[x.req.key]
    <2>1. hs \in Seq(Holders)
      BY <1>2 DEF ServerInv, Queues
    <2>2. taken(x) => \E i \in DOMAIN hs : hs[i].id = v
      <3>1. \A qs \in Seq(Holders), r \in LockCommands :
               UnlockResult(qs, r) = "succed" => \E i \in DOMAIN qs : qs[i].id = Victim(qs, r)
        BY UnlockCases
      <3> QED  BY <1>2, <2>1, <3>1
    <2>3. taken(x) => v \in LockIds
      <3> HIDE DEF hs, v, taken
      <3> QED  BY <2>1, <2>2, EntryFacts
    <2>4. IsFiniteSet(shed) /\ IsFiniteSet(shed \cup {v}) /\ shed \in SUBSET LockIds
      BY FS_AddElement DEF ServerInv
    <2> HIDE DEF hs, v, taken
    <2> QED  BY <1>1, <2>3, <2>4 DEF v
  <1>6. \A y \in late' : y.req \in LockCommands /\ Fits(y.req)
    BY <1>1 DEF ServerInv
  <1> QED  BY <1>1, <1>3, <1>4, <1>5, <1>6, FitsSame DEF ServerInv

LEMMA ExpireServer ==
  ASSUME ServerInv, Expire
  PROVE  ServerInv'
  <1>a. PICK k \in Keys : \E i \in DOMAIN holders[k] :
          /\ holders' = [holders EXCEPT ![k] = Without(@, @[i].id)]
          /\ shed' = shed \cup {holders[k][i].id}
    BY DEF Expire
  <1>1. PICK i \in DOMAIN holders[k] :
          /\ holders' = [holders EXCEPT ![k] = Without(@, @[i].id)]
          /\ shed' = shed \cup {holders[k][i].id}
    BY <1>a
  <1>2. /\ UNCHANGED <<role, size, late, losses>>
    BY DEF Expire
  <1>3. holders[k] \in Seq(Holders) /\ Orderly(holders[k]) /\ holders \in [Keys -> Seq(Holders)]
        /\ \A q \in Keys : Orderly(holders[q])
    BY DEF ServerInv, Queues
  <1> DEFINE ws == Without(holders[k], holders[k][i].id)
  <1>4. ws \in Seq(Holders) /\ Orderly(ws)
    BY <1>3, OutFacts, OutKeeps
  <1>5. holders' = [holders EXCEPT ![k] = ws]
    BY <1>1
  <1>6. holders[k][i].id \in LockIds
    BY <1>3, EntryFacts
  <1> HIDE DEF ws
  <1>7. Queues'
    BY <1>2, <1>3, <1>4, <1>5, QueuesBecome
  <1>8. shed' \in SUBSET LockIds /\ IsFiniteSet(shed')
    BY <1>1, <1>6, FS_AddElement DEF ServerInv
  <1> QED  BY <1>2, <1>7, <1>8, FitsSame DEF ServerInv

-----------------------------------------------------------------------------
(* Types. *)
Base == ClientInv /\ ServerInv

(* An answer, right or wrong, changes nothing else of its handle. *)
LEMMA ReplyClient ==
  ASSUME ClientInv, NEW h \in Handles, req[h] # NoReq, NEW code \in ReplyCodes,
         reply' = [reply EXCEPT ![h] = code],
         UNCHANGED <<role, size, at, req, calls, held, read_locks>>
  PROVE  ClientInv'
  <1>1. ClientType' /\ ClientType
    BY DEF ClientInv, ClientType, CallerType
  <1>2. ASSUME NEW q \in Handles
        PROVE  Asked(q)' /\ Counted(q)'
    <2>1. Asked(q) /\ Counted(q) /\ (at[q] = "idle" => q # h)
      BY DEF ClientInv, Asked
    <2>2. \A place, r : Waits(q, place, r)' <=> Waits(q, place, r)
      BY WaitsSame
    <2> QED  BY <1>1, <2>1, <2>2 DEF Asked, Counted, ClientType
  <1> QED  BY <1>1, <1>2 DEF ClientInv

LEMMA ClientSame ==
  ASSUME ClientInv, UNCHANGED <<role, size, clientVars>>
  PROVE  ClientInv'
  <1>1. ClientType'
    BY DEF ClientInv, ClientType, CallerType, clientVars
  <1>2. ASSUME NEW q \in Handles
        PROVE  Asked(q)' /\ Counted(q)'
    <2>1. \A place, r : Waits(q, place, r)' <=> Waits(q, place, r)
      BY WaitsSame DEF clientVars
    <2> QED  BY <2>1 DEF ClientInv, Asked, Counted, clientVars
  <1> QED  BY <1>1, <1>2 DEF ClientInv

LEMMA ExecuteClient ==
  ASSUME Base, NEW h \in Handles, Execute(h)
  PROVE  ClientInv'
  <1>1. at[h] # "idle" /\ ClientInv
    BY DEF Base, ClientInv, Asked, Execute
  <1>2. req[h] \in LockCommands /\ req[h].key \in Keys
    BY <1>1, WaitsFit DEF LockCommands
  <1>3. holders[req[h].key] \in Seq(Holders)
    BY <1>2 DEF Base, ServerInv, Queues
  <1>4. ResultOf(holders[req[h].key], req[h]) \in ReplyCodes
    BY <1>2, <1>3, ServerType
  <1> QED  BY <1>1, <1>4, ReplyClient DEF Execute

LEMMA GiveUpClient ==
  ASSUME Base, NEW h \in Handles, GiveUp(h)
  PROVE  ClientInv'
  BY ReplyClient DEF Base, GiveUp, ReplyCodes

LEMMA BaseStep == Base /\ [Next]_vars => Base'
  <1> SUFFICES ASSUME Base, [Next]_vars PROVE Base'
    OBVIOUS
  <1>0. ClientInv /\ ServerInv
    BY DEF Base
  <1>1. ASSUME NEW h \in Handles, HandleStep(h) PROVE Base'
    BY <1>0, <1>1, ClientStep, StepKinds, HandleServer DEF Base
  <1>2. ASSUME NEW h \in Handles, Execute(h) PROVE Base'
    BY <1>0, <1>2, ExecuteClient, ExecuteServer DEF Base
  <1>3. ASSUME NEW h \in Handles, GiveUp(h) PROVE Base'
    BY <1>0, <1>3, GiveUpClient, GiveUpServer DEF Base
  <1>4. CASE ExecuteLate
    <2>1. UNCHANGED <<role, size, clientVars>>
      BY <1>4 DEF ExecuteLate
    <2> QED  BY <1>0, <1>4, <2>1, ClientSame, ExecuteLateServer DEF Base
  <1>5. CASE Expire
    <2>1. UNCHANGED <<role, size, clientVars>>
      BY <1>5 DEF Expire
    <2> QED  BY <1>0, <1>5, <2>1, ClientSame, ExpireServer DEF Base
  <1>6. CASE UNCHANGED vars
    BY <1>0, <1>6, ClientSame, HandleServer DEF vars, Base
  <1> QED  BY <1>1, <1>2, <1>3, <1>4, <1>5, <1>6 DEF Next, ServerStep

LEMMA BaseInit == Init => Base
  <1> SUFFICES ASSUME Init PROVE Base
    OBVIOUS
  <1>1. CallerType
    <2>1. PICK mix \in Mixes : role \in [Handles -> mix]
      BY DEF Init
    <2>2. mix \subseteq Roles /\ MaxCalls \in Nat /\ Sizes \subseteq Nat
      BY PrimitivesAssumption
    <2> QED  BY <2>1, <2>2 DEF Init, CallerType
  <1>2. /\ at \in [Handles -> Spots] /\ req \in [Handles -> LockCommands \cup {NoReq}]
        /\ reply \in [Handles -> ReplyCodes \cup {"none"}] /\ held \in [Handles -> Nat]
    BY DEF Init, Spots
  <1>3. read_locks \in [Handles -> Seq(LockIds)] /\ \A h \in Handles : Len(read_locks[h]) = 0
    <2>1. << >> \in Seq(LockIds) /\ Len(<< >>) = 0
      OBVIOUS
    <2> QED  BY <2>1 DEF Init
  <1>4. \A h \in Handles : Asked(h) /\ Counted(h)
    BY <1>3 DEF Init, Asked, Counted
  <1>5. Queues
    <2>1. << >> \in Seq(Holders) /\ Orderly(<< >>)
      BY DEF Orderly, Sane
    <2> QED  BY <2>1 DEF Init, Queues
  <1>6. IsFiniteSet({}) /\ Cardinality({}) = 0 /\ MaxLosses \in Nat
    BY FS_EmptySet, PrimitivesAssumption
  <1>7. ServerInv
    BY <1>5, <1>6 DEF Init, ServerInv
  <1> QED  BY <1>1, <1>2, <1>3, <1>4, <1>7 DEF Base, ClientInv, ClientType

LEMMA BaseTypes == Base => PrimTypeOK
  <1> SUFFICES ASSUME Base PROVE PrimTypeOK
    OBVIOUS
  <1>1. /\ ClientType /\ CallerType /\ \A h \in Handles : Asked(h) /\ Counted(h)
        /\ Cardinality(late) =< losses /\ losses \in 0 .. MaxLosses /\ MaxLosses \in Nat
    BY PrimitivesAssumption DEF Base, ClientInv, ServerInv, ClientType
  <1>2. held \in [Handles -> 0 .. MaxCalls]
    <2>1. \A h \in Handles : held[h] \in 0 .. MaxCalls
      <3> SUFFICES ASSUME NEW h \in Handles PROVE held[h] \in 0 .. MaxCalls
        OBVIOUS
      <3>1. held[h] \in Nat /\ calls[h] \in 0 .. MaxCalls /\ held[h] =< calls[h] /\ MaxCalls \in Nat
        BY <1>1, PrimitivesAssumption DEF ClientType, CallerType, Counted
      <3> QED  BY <3>1
    <2> QED  BY <1>1, <2>1 DEF ClientType
  <1>3. \A h \in Handles : (at[h] = "idle") = (req[h] = NoReq)
    BY <1>1 DEF Asked
  <1>4. at \in [Handles -> {"idle", "acquire", "release", "acquireRead", "releaseRead",
                         "childCheck", "parentCheck", "leaf", "undoChild", "undoParent",
                         "undoChildOnly", "set", "clear", "isSet"}]
    BY <1>1 DEF ClientType, Spots
  <1>5. reply \in [Handles -> {"none", "succed", "locked", "timeout", "unlock_error",
                            "unown_error", "error"}]
    BY <1>1 DEF ClientType, ReplyCodes
  <1>6. losses =< MaxLosses
    BY <1>1
  <1> QED  BY <1>1, <1>2, <1>3, <1>4, <1>5, <1>6 DEF PrimTypeOK, Counted

LEMMA BaseHolds == Spec => []Base
  BY BaseInit, BaseStep, PTL DEF Spec

(* Every command a handle waits for is one of its own kind, its counts are *)
(* within the calls it made, and no more commands are late than were given *)
(* up: whatever handles, sizes and bounds, and whatever the server does    *)
(* with late commands and expired locks (blocking primitives, 25-884).     *)
THEOREM PrimTypeCorrect == Spec => []PrimTypeOK
  BY BaseHolds, BaseTypes, PTL

-----------------------------------------------------------------------------
(* What callers rely on is there. *)

(* Semaphores and events are among their like. *)
Mixed ==
  \A own \in {"semaphore", "eventSet", "eventUnset"} :
    (\E h \in Handles : role[h] = own) => \A h \in Handles : role[h] = own

(* Read locks are fresh, each in read_locks once, and not in it while they *)
(* are acquired or released.                                               *)
ReadIdsOf(h) ==
  /\ role[h] # "rw" => read_locks[h] = << >>
  /\ \A i \in DOMAIN read_locks[h] :
       \E n \in 1 .. calls[h] : /\ read_locks[h][i] = <<h, n>>
                                /\ at[h] = "acquireRead" => n < calls[h]
  /\ \A i, j \in DOMAIN read_locks[h] : read_locks[h][i] = read_locks[h][j] => i = j
  /\ at[h] = "releaseRead" => /\ \E n \in 1 .. calls[h] : req[h].id = <<h, n>>
                              /\ \A i \in DOMAIN read_locks[h] : read_locks[h][i] # req[h].id
ReadIds == \A h \in Handles : ReadIdsOf(h)

OwnBacked ==
  \A h \in Handles :
    role[h] # "semaphore" /\ OwnId(h) \notin shed /\ Backing(h) > 0
      => Holding(holders[KeyOf(h)], OwnId(h), Backing(h))

ReadBacked ==
  \A h \in Handles : \A i \in DOMAIN Readers(h) :
    Readers(h)[i] \in shed \/ Holding(holders["key"], Readers(h)[i], 1)

LEMMA MixedInit == Init => Mixed
  <1> SUFFICES ASSUME Init PROVE Mixed
    OBVIOUS
  <1>1. PICK mix \in Mixes : role \in [Handles -> mix]
    BY DEF Init
  <1>2. \A own \in {"semaphore", "eventSet", "eventUnset"} : own \in mix => mix = {own}
    BY PrimitivesAssumption
  <1> QED  BY <1>1, <1>2 DEF Mixed

LEMMA MixedSame == Mixed /\ role' = role => Mixed'
  BY DEF Mixed

(* What is backed of a handle changes with the answers only. *)
LEMMA BackingSame ==
  ASSUME ClientInv, NEW h \in Handles, HandleStep(h), NEW q \in Handles
  PROVE  Backing(q)' = Backing(q)
  <1>1. CASE q = h
    <2>1. Begun(h) \/ Ended(h) \/ Passed(h)
      BY StepKinds
    <2>2. CASE Begun(h)
      BY <1>1, <2>2 DEF Begun, Backing, Succeeded
    <2>3. CASE Ended(h)
      <3>1. Backing(h)' = held'[h]
        BY <2>3 DEF Ended, Backing
      <3> QED  BY <1>1, <2>3, <3>1 DEF Ended
    <2>4. CASE Passed(h)
      BY <1>1, <2>4 DEF Passed, Backing, Succeeded
    <2> QED  BY <2>1, <2>2, <2>3, <2>4
  <1>2. CASE q # h
    BY <1>2, ClientStep DEF Only, Backing, Succeeded
  <1> QED  BY <1>1, <1>2

LEMMA ReadersFacts ==
  ASSUME ClientInv, NEW h \in Handles
  PROVE  /\ read_locks[h] \in Seq(LockIds) /\ Len(read_locks[h]) \in Nat
         /\ DOMAIN read_locks[h] = 1 .. Len(read_locks[h])
         /\ at[h] = "acquireRead" =>
              /\ req[h] = Request("lock", "key", <<h, calls[h]>>, MaxCount, 0, "keep")
              /\ role[h] = "rw" /\ req[h].id = <<h, calls[h]>>
              /\ LET longer == Append(read_locks[h], req[h].id)
                 IN  /\ longer \in Seq(LockIds) /\ DOMAIN longer = 1 .. Len(read_locks[h]) + 1
                     /\ \A i \in DOMAIN read_locks[h] : longer[i] = read_locks[h][i]
                     /\ longer[Len(read_locks[h]) + 1] = <<h, calls[h]>>
  <1>1. read_locks[h] \in Seq(LockIds) /\ Asked(h)
    BY DEF ClientInv, ClientType
  <1>2. Len(read_locks[h]) \in Nat /\ DOMAIN read_locks[h] = 1 .. Len(read_locks[h])
    BY <1>1
  <1>3. ASSUME at[h] = "acquireRead"
        PROVE  /\ req[h] = Request("lock", "key", <<h, calls[h]>>, MaxCount, 0, "keep")
               /\ role[h] = "rw"
    BY <1>1, <1>3 DEF Asked, Waits, LockWaits, SemaphoreWaits, ReadWaits, LeafWaits, EventWaits
  <1>4. ASSUME at[h] = "acquireRead"
        PROVE  req[h].id = <<h, calls[h]>> /\ req[h].id \in LockIds
    BY <1>3, <1>4, WaitsFit DEF Request, LockCommands
  <1>5. ASSUME at[h] = "acquireRead"
        PROVE  LET longer == Append(read_locks[h], req[h].id)
               IN  /\ longer \in Seq(LockIds) /\ DOMAIN longer = 1 .. Len(read_locks[h]) + 1
                   /\ \A i \in DOMAIN read_locks[h] : longer[i] = read_locks[h][i]
                   /\ longer[Len(read_locks[h]) + 1] = <<h, calls[h]>>
    <2> DEFINE s == read_locks[h]
               e == req[h].id
    <2>1. s \in Seq(LockIds) /\ e \in LockIds /\ e = <<h, calls[h]>>
      BY <1>1, <1>4, <1>5
    <2> HIDE DEF s, e
    <2>2. /\ Append(s, e) \in Seq(LockIds) /\ Len(Append(s, e)) = Len(s) + 1
          /\ \A i \in 1 .. Len(s) : Append(s, e)[i] = s[i]
          /\ Append(s, e)[Len(s) + 1] = e
      BY <2>1, AppendProperties
    <2>3. Len(s) \in Nat /\ DOMAIN s = 1 .. Len(s) /\ DOMAIN Append(s, e) = 1 .. Len(s) + 1
      BY <2>1, <2>2
    <2> QED  BY <2>1, <2>2, <2>3 DEF s, e
  <1> QED  BY <1>1, <1>2, <1>3, <1>4, <1>5

LEMMA PopFacts ==
  ASSUME ClientInv, NEW h \in Handles, PopsReader(h)
  PROVE  LET n == Len(read_locks[h])
         IN  /\ n \in Nat \ {0} /\ DOMAIN read_locks'[h] = 1 .. n - 1
             /\ \A i \in 1 .. n - 1 : read_locks'[h][i] = read_locks[h][i]
             /\ n \in DOMAIN read_locks[h] /\ req'[h].id = read_locks[h][n]
  <1> DEFINE s == read_locks[h]
             n == Len(s)
             p == SubSeq(s, 1, n - 1)
  <1>1. s \in Seq(LockIds) /\ s # << >> /\ read_locks'[h] = p /\ req'[h].id = s[n]
    BY DEF ClientInv, ClientType, PopsReader
  <1> HIDE DEF s
  <1>2. n \in Nat \ {0} /\ DOMAIN s = 1 .. n
    BY <1>1
  <1> HIDE DEF n
  <1>3. 1 \in Int /\ n - 1 \in Int /\ \A i \in 1 .. n - 1 : s[i] \in LockIds
    BY <1>1, <1>2 DEF n
  <1>4. /\ p \in Seq(LockIds) /\ Len(p) = IF 1 =< n - 1 THEN (n - 1) - 1 + 1 ELSE 0
        /\ \A i \in 1 .. (n - 1) - 1 + 1 : p[i] = s[1 + i - 1]
    BY <1>3, SubSeqProperties
  <1>5. DOMAIN p = 1 .. Len(p)
    BY <1>4
  <1> HIDE DEF p
  <1>6. DOMAIN p = 1 .. n - 1
    BY <1>2, <1>4, <1>5
  <1>7. \A i \in 1 .. n - 1 : p[i] = s[i]
    <2> SUFFICES ASSUME NEW i \in 1 .. n - 1 PROVE p[i] = s[i]
      OBVIOUS
    <2>1. 1 + i - 1 = i /\ i \in 1 .. (n - 1) - 1 + 1
      BY <1>2
    <2> QED  BY <1>4, <2>1
  <1>8. n \in DOMAIN s
    BY <1>2
  <1> QED  BY <1>1, <1>2, <1>6, <1>7, <1>8 DEF s, n

-----------------------------------------------------------------------------
(* A step of a handle keeps its read locks apart, and adds none to those   *)
(* that are backed.                                                        *)
Spared(q) == \A i \in DOMAIN Readers(q)' : \E j \in DOMAIN Readers(q) : Readers(q)'[i] = Readers(q)[j]

LEMMA BegunReaders ==
  ASSUME ClientInv, NEW h \in Handles, ReadIdsOf(h), HandleStep(h), Begun(h)
  PROVE  ReadIdsOf(h)' /\ Spared(h)
  <1>0. /\ role' = role /\ ReadIdsOf(h) /\ calls[h] \in Nat
        /\ Len(read_locks[h]) \in Nat /\ DOMAIN read_locks[h] = 1 .. Len(read_locks[h])
    BY StepKinds, ReadersFacts DEF ClientInv, ClientType, CallerType
  <1>1. /\ Readers(h) = read_locks[h] /\ Readers(h)' = read_locks'[h]
        /\ at[h] = "idle" /\ at'[h] # "idle" /\ calls'[h] = calls[h] + 1
    BY DEF Begun, Readers, Succeeded
  <1>2. \A n \in 1 .. calls[h] : n \in 1 .. calls'[h] /\ n < calls'[h]
    BY <1>0, <1>1
  <1>3. \A i \in DOMAIN read_locks[h] :
          \E n \in 1 .. calls'[h] : read_locks[h][i] = <<h, n>> /\ n < calls'[h]
    BY <1>0, <1>2 DEF ReadIdsOf
  <1>4. CASE PopsReader(h)
    <2> DEFINE n == Len(read_locks[h])
    <2>1. /\ n \in Nat \ {0} /\ DOMAIN read_locks'[h] = 1 .. n - 1
          /\ \A i \in 1 .. n - 1 : read_locks'[h][i] = read_locks[h][i]
          /\ n \in DOMAIN read_locks[h] /\ req'[h].id = read_locks[h][n]
          /\ at'[h] = "releaseRead" /\ role[h] = "rw"
      BY <1>4, PopFacts DEF PopsReader
    <2> HIDE DEF n
    <2>2. \A i \in DOMAIN read_locks'[h] :
            i \in DOMAIN read_locks[h] /\ i # n /\ read_locks'[h][i] = read_locks[h][i]
      BY <1>0, <2>1 DEF n
    <2>3. \A i, j \in DOMAIN read_locks'[h] : read_locks'[h][i] = read_locks'[h][j] => i = j
      BY <1>0, <2>2 DEF ReadIdsOf
    <2>4. \A i \in DOMAIN read_locks'[h] : read_locks'[h][i] # req'[h].id
      BY <1>0, <2>1, <2>2 DEF ReadIdsOf
    <2>5. \A i \in DOMAIN read_locks'[h] :
            \E m \in 1 .. calls'[h] : read_locks'[h][i] = <<h, m>> /\ m < calls'[h]
      BY <1>3, <2>2
    <2>6. ReadIdsOf(h)'
      BY <1>0, <1>3, <2>1, <2>3, <2>4, <2>5 DEF ReadIdsOf
    <2> QED  BY <1>1, <2>2, <2>6 DEF Spared
  <1>5. CASE at'[h] # "releaseRead" /\ read_locks'[h] = read_locks[h]
    <2>1. ReadIdsOf(h)'
      BY <1>0, <1>3, <1>5 DEF ReadIdsOf
    <2> QED  BY <1>1, <1>5, <2>1 DEF Spared
  <1> QED  BY <1>4, <1>5 DEF Begun

LEMMA EndedReaders ==
  ASSUME ClientInv, NEW h \in Handles, ReadIdsOf(h), HandleStep(h), Ended(h) \/ Passed(h)
  PROVE  ReadIdsOf(h)' /\ Spared(h)
  <1>0. /\ role' = role /\ ReadIdsOf(h) /\ calls[h] \in Nat /\ calls'[h] = calls[h]
        /\ Len(read_locks[h]) \in Nat /\ DOMAIN read_locks[h] = 1 .. Len(read_locks[h])
    BY StepKinds, ReadersFacts DEF ClientInv, ClientType, CallerType, Ended, Passed
  <1>1. /\ at'[h] \notin {"acquireRead", "releaseRead"} /\ read_locks'[h] = Readers(h)
        /\ Readers(h)' = read_locks'[h]
    BY DEF Ended, Passed, Readers
  <1>2. Spared(h)
    BY <1>1 DEF Spared
  <1>3. CASE Readers(h) = read_locks[h]
    <2>1. ReadIdsOf(h)'
      BY <1>0, <1>1, <1>3 DEF ReadIdsOf
    <2> QED  BY <1>2, <2>1
  <1>4. CASE at[h] = "acquireRead" /\ Readers(h) # read_locks[h]
    <2> DEFINE longer == Append(read_locks[h], req[h].id)
               n == Len(read_locks[h])
    <2>1. /\ Readers(h) = longer /\ role[h] = "rw"
          /\ DOMAIN longer = 1 .. n + 1 /\ longer[n + 1] = <<h, calls[h]>>
          /\ \A i \in DOMAIN read_locks[h] : longer[i] = read_locks[h][i]
      BY <1>4, ReadersFacts DEF Readers
    <2>2. calls[h] \in 1 .. calls[h]
      BY <1>0, <1>4, WaitsFit
    <2>3. \A i \in DOMAIN read_locks[h] :
            \E m \in 1 .. calls[h] : read_locks[h][i] = <<h, m>> /\ m < calls[h]
      BY <1>4 DEF ReadIdsOf
    <2> HIDE DEF longer
    <2>4. \A i \in DOMAIN longer : i \in DOMAIN read_locks[h] \/ i = n + 1
      BY <1>0, <2>1
    <2>5. \A i \in DOMAIN longer : \E m \in 1 .. calls[h] : longer[i] = <<h, m>>
      BY <2>1, <2>2, <2>3, <2>4
    <2>6. \A i \in DOMAIN read_locks[h] : longer[i] # longer[n + 1]
      BY <2>1, <2>3
    <2>7. \A i, j \in DOMAIN longer : longer[i] = longer[j] => i = j
      BY <2>1, <2>4, <2>6 DEF ReadIdsOf
    <2>8. ReadIdsOf(h)'
      BY <1>0, <1>1, <2>1, <2>5, <2>7 DEF ReadIdsOf
    <2> QED  BY <1>2, <2>8
  <1> QED  BY <1>3, <1>4 DEF Readers

LEMMA OthersRead ==
  ASSUME NEW h \in Handles, Only(h), role' = role, NEW q \in Handles, q # h, ReadIdsOf(q)
  PROVE  ReadIdsOf(q)' /\ Spared(q)
  BY DEF Only, ReadIdsOf, Spared, Readers, Succeeded

LEMMA ReadersKeep ==
  ASSUME ClientInv, ReadIds, NEW h \in Handles, HandleStep(h)
  PROVE  ReadIds' /\ \A q \in Handles : Spared(q)
  <1>1. ASSUME NEW q \in Handles
        PROVE  ReadIdsOf(q)' /\ Spared(q)
    <2>1. role' = role /\ ReadIdsOf(q) /\ Only(h) /\ (Begun(h) \/ Ended(h) \/ Passed(h))
      BY StepKinds, ClientStep DEF ReadIds
    <2>2. CASE q = h
      BY <2>1, <2>2, BegunReaders, EndedReaders
    <2>3. CASE q # h
      BY <2>1, <2>3, OthersRead
    <2> QED  BY <2>2, <2>3
  <1> QED  BY <1>1 DEF ReadIds

BackedInv == Base /\ Mixed /\ ReadIds /\ OwnBacked /\ ReadBacked

LEMMA HandleBacked ==
  ASSUME ClientInv, ReadIds, OwnBacked, ReadBacked, NEW h \in Handles, HandleStep(h)
  PROVE  ReadIds' /\ OwnBacked' /\ ReadBacked'
  <1>1. UNCHANGED <<role, size, holders, shed>>
    BY StepKinds DEF serverVars
  <1>2. ReadIds' /\ \A q \in Handles : Spared(q)
    BY ReadersKeep
  <1>3. ReadBacked'
    BY <1>1, <1>2 DEF ReadBacked, Spared, Holding
  <1>4. \A q \in Handles : Backing(q)' = Backing(q) /\ KeyOf(q)' = KeyOf(q)
    BY <1>1, BackingSame, FitsSame
  <1>5. OwnBacked'
    BY <1>1, <1>4 DEF OwnBacked, Holding, OwnId
  <1> QED  BY <1>2, <1>3, <1>5

(* What a handle that keeps a lock, or read locks, waits for.              *)
LEMMA KeptWaits ==
  ASSUME ClientInv, NEW h \in Handles, role[h] # "semaphore", at[h] # "idle"
  PROVE  /\ req[h].mode # "first"
         /\ at[h] \in {"acquire", "leaf"} =>
              /\ req[h].cmd = "lock" /\ req[h].mode = "keep" /\ req[h].id = OwnId(h)
              /\ req[h].key = KeyOf(h)
         /\ at[h] = "release" =>
              req[h].cmd = "unlock" /\ req[h].id = OwnId(h) /\ req[h].key = KeyOf(h)
         /\ at[h] = "releaseRead" => req[h].cmd = "unlock" /\ req[h].key = "key"
         /\ at[h] \notin {"release", "releaseRead"} /\ req[h].cmd = "unlock" =>
              \E k \in Keys : req[h].id = KeyId(k)
  <1>1. Waits(h, at[h], req[h])
    BY DEF ClientInv, Asked
  <1>a. \A cmd, k, id, count, rcount, mode :
          LET r == Request(cmd, k, id, count, rcount, mode)
          IN  r.cmd = cmd /\ r.key = k /\ r.id = id /\ r.mode = mode
    BY DEF Request
  <1>2. CASE LockWaits(h, at[h], req[h])
    BY <1>2, <1>a DEF LockWaits, OwnRequest
  <1>3. CASE ReadWaits(h, at[h], req[h])
    BY <1>3, <1>a DEF ReadWaits
  <1>4. CASE LeafWaits(h, at[h], req[h])
    <2>1. \A cmd \in {"lock", "unlock"} :
            /\ ChildLink(cmd).cmd = cmd /\ ChildLink(cmd).id = KeyId("root")
            /\ ChildLink(cmd).mode # "first"
            /\ ParentLink(cmd).cmd = cmd /\ ParentLink(cmd).id = KeyId("child")
            /\ ParentLink(cmd).mode # "first"
      BY <1>a DEF ChildLink, ParentLink
    <2>2. "root" \in Keys /\ "child" \in Keys
      BY DEF Keys
    <2> QED  BY <1>4, <1>a, <2>1, <2>2 DEF LeafWaits, OwnRequest
  <1>5. CASE EventWaits(h, at[h], req[h])
    <2>1. EventLock(h).id = KeyId("key") /\ EventLock(h).mode = "keep" /\ EventLock(h).cmd = "lock"
      BY <1>a DEF EventLock
    <2>2. EventUnlock(h).cmd = "unlock" /\ EventUnlock(h).id = KeyId("key")
          /\ EventUnlock(h).mode = "own"
      BY DEF EventUnlock, EventLock, Request
    <2>3. \A id : LET r == [EventProbe(h) EXCEPT !.id = id]
                  IN  r.cmd = "lock" /\ r.mode # "first"
      BY DEF EventProbe, Request
    <2>4. "key" \in Keys
      BY DEF Keys
    <2> QED  BY <1>5, <2>1, <2>2, <2>3, <2>4 DEF EventWaits, EventCommand
  <1> QED  BY <1>1, <1>2, <1>3, <1>4, <1>5 DEF Waits, SemaphoreWaits

(* An executed command takes nothing from a lock unless it is an unlock of *)
(* just that lock, whoever else is about.                                  *)
LEMMA ExecuteSpares ==
  ASSUME Base, NEW h \in Handles, Execute(h), role[h] # "semaphore", NEW k \in Keys,
         NEW id, id \notin Links, ~(req[h].cmd = "unlock" /\ req[h].id = id), NEW n \in Int,
         Holding(holders[k], id, n)
  PROVE  Holding(holders'[k], id, n)
  <1>1. ClientInv /\ ServerInv /\ Queues /\ at[h] # "idle" /\ holders' = Executed(req[h])
    BY DEF Base, ServerInv, ClientInv, Asked, Execute
  <1>2. req[h] \in LockCommands /\ Fits(req[h]) /\ req[h].mode # "first"
    BY <1>1, WaitsFit, KeptWaits
  <1>3. holders[k] \in Seq(Holders)
    BY <1>1 DEF Queues
  <1>4. req[h].cmd = "unlock" /\ ResultOf(holders[k], req[h]) = "succed"
          => Victim(holders[k], req[h]) = req[h].id
    BY <1>2, <1>3, UnlockCases DEF ResultOf
  <1> QED  BY <1>1, <1>2, <1>4, ExecutedLeaves

(* Read locks have fresh ids of their own handle. *)
LEMMA ReaderIds ==
  ASSUME ClientInv, ReadIds, NEW q \in Handles, NEW i \in DOMAIN Readers(q)
  PROVE  \E n \in 1 .. calls[q] : Readers(q)[i] = <<q, n>>
  <1>0. ReadIdsOf(q)
    BY DEF ReadIds
  <1>1. CASE Readers(q) = read_locks[q]
    BY <1>0, <1>1 DEF ReadIdsOf
  <1>2. CASE at[q] = "acquireRead" /\ Readers(q) # read_locks[q]
    <2> DEFINE longer == Append(read_locks[q], req[q].id)
               n == Len(read_locks[q])
    <2>1. /\ Readers(q) = longer /\ n \in Nat /\ DOMAIN read_locks[q] = 1 .. n
          /\ DOMAIN longer = 1 .. n + 1 /\ longer[n + 1] = <<q, calls[q]>>
          /\ \A j \in DOMAIN read_locks[q] : longer[j] = read_locks[q][j]
      BY <1>2, ReadersFacts DEF Readers
    <2>2. calls[q] \in 1 .. calls[q]
      BY <1>2, WaitsFit
    <2> HIDE DEF longer
    <2>3. i \in DOMAIN read_locks[q] \/ i = n + 1
      BY <2>1
    <2> QED  BY <1>0, <2>1, <2>2, <2>3 DEF ReadIdsOf
  <1> QED  BY <1>1, <1>2 DEF Readers

(* Unlocks take a handle's own lock, one of its read locks that is not in  *)
(* read_locks any more, or an id made of a key.                            *)
LEMMA UnlockIds ==
  ASSUME ClientInv, ReadIds, NEW h \in Handles, role[h] # "semaphore", at[h] # "idle",
         req[h].cmd = "unlock"
  PROVE  /\ \A q \in Handles : req[h].id = OwnId(q) => q = h /\ at[h] = "release"
         /\ \A q \in Handles : \A i \in DOMAIN Readers(q) : req[h].id # Readers(q)[i]
  <1>0. \A q \in Handles : ReadIdsOf(q) /\ q \notin Keys
    BY HandlesAssumption DEF ReadIds
  <1>1. \/ at[h] = "release" /\ req[h].id = OwnId(h)
        \/ at[h] = "releaseRead" /\ \E n \in 1 .. calls[h] : req[h].id = <<h, n>>
        \/ at[h] \notin {"release", "releaseRead", "acquireRead"} /\ \E k \in Keys : req[h].id = KeyId(k)
    <2>1. at[h] = "acquireRead" => req[h].cmd = "lock"
      <3>1. \A id, count, rcount, mode : Request("lock", "key", id, count, rcount, mode).cmd = "lock"
        BY DEF Request
      <3>2. at[h] = "acquireRead" =>
              req[h] = Request("lock", "key", <<h, calls[h]>>, MaxCount, 0, "keep")
        BY ReadersFacts
      <3> QED  BY <3>1, <3>2
    <2> QED  BY <1>0, <2>1, KeptWaits DEF ReadIdsOf
  <1>3. \A n : n \in 1 .. calls[h] => n # 0
    OBVIOUS
  <1>4. \A q \in Handles : req[h].id = OwnId(q) => q = h /\ at[h] = "release"
    BY <1>0, <1>1, <1>3 DEF OwnId, KeyId
  <1>5. ASSUME NEW q \in Handles, NEW i \in DOMAIN Readers(q), req[h].id = Readers(q)[i]
        PROVE  FALSE
    <2>1. PICK n \in 1 .. calls[q] : Readers(q)[i] = <<q, n>>
      BY ReaderIds
    <2>2. n # 0
      OBVIOUS
    <2>3. at[h] = "releaseRead" /\ q = h
      BY <1>0, <1>1, <1>5, <2>1, <2>2 DEF OwnId, KeyId
    <2>4. Readers(q) = read_locks[q]
      BY <2>3 DEF Readers
    <2> QED  BY <1>0, <1>5, <2>3, <2>4 DEF ReadIdsOf
  <1> QED  BY <1>4, <1>5

(* Whatever the server executes for a handle, what callers rely on is      *)
(* there when it answers.                                                  *)
LEMMA ExecuteOwn ==
  ASSUME Base, Mixed, ReadIds, OwnBacked, NEW h \in Handles, Execute(h)
  PROVE  OwnBacked'
  <1>1. /\ ClientInv /\ Queues /\ at[h] # "idle" /\ holders' = Executed(req[h]) /\ reply[h] = "none"
        /\ reply'[h] = ResultOf(holders[req[h].key], req[h])
        /\ \A q \in Handles \ {h} : reply'[q] = reply[q]
        /\ UNCHANGED <<role, size, at, req, held, shed>>
    BY DEF Base, ServerInv, ClientInv, ClientType, Asked, Execute
  <1> SUFFICES ASSUME NEW q \in Handles, role[q] # "semaphore", OwnId(q) \notin shed,
                      Backing(q)' > 0
               PROVE  Holding(holders'[KeyOf(q)], OwnId(q), Backing(q)')
    BY <1>1, FitsSame DEF OwnBacked, Holding, OwnId
  <1>2. role[h] # "semaphore" /\ req[h] \in LockCommands /\ Fits(req[h])
    BY <1>1, WaitsFit DEF Mixed
  <1> DEFINE k == KeyOf(q)
             id == OwnId(q)
  <1>3. k \in Keys /\ id \notin Links /\ held[q] \in Nat
    BY <1>1, ForeignIds DEF KeyOf, Keys, ClientInv, ClientType
  <1>4. Backing(q) \in Nat /\ (Backing(q) > 0 => Holding(holders[k], id, Backing(q)))
    BY <1>3 DEF OwnBacked, Backing, Less
  <1> HIDE DEF k, id
  <1>5. CASE ~(req[h].cmd = "unlock" /\ req[h].id = id)
    <2>1. \A n \in Int : Holding(holders[k], id, n) => Holding(holders'[k], id, n)
      BY <1>1, <1>2, <1>3, <1>5, ExecuteSpares
    <2>2. CASE Backing(q)' = Backing(q)
      BY <1>4, <2>1, <2>2 DEF k, id
    <2>3. CASE Backing(q)' # Backing(q)
      <3>1. q = h
        BY <1>1, <2>3 DEF Backing, Succeeded
      <3>2. at[h] \in {"acquire", "leaf"} /\ Succeeded(h)' /\ Backing(h) = held[h]
            /\ Backing(h)' = held[h] + 1
        <4>1. Backing(h) = held[h]
          BY <1>1 DEF Backing, Succeeded
        <4>2. at[h] # "release"
          BY <1>1, <1>2, <1>5, <3>1, KeptWaits DEF id
        <4> QED  BY <1>1, <2>3, <3>1, <4>1, <4>2 DEF Backing
      <3>3. /\ req[h].cmd = "lock" /\ req[h].mode = "keep" /\ req[h].key = k /\ req[h].id = id
            /\ ResultOf(holders[k], req[h]) = "succed"
        BY <1>1, <1>2, <3>1, <3>2, KeptWaits DEF Succeeded, k, id
      <3>4. /\ Holding(holders'[k], id, 1)
            /\ \A n \in Int : Holding(holders[k], id, n) => Holding(holders'[k], id, n + 1)
        BY <1>1, <1>2, <1>3, <3>3, ExecutedLeaves
      <3>5. CASE held[h] = 0
        BY <3>1, <3>2, <3>4, <3>5 DEF k, id
      <3>6. CASE held[h] # 0
        <4>1. Backing(q) > 0 /\ Backing(q) \in Int
          BY <1>3, <3>1, <3>2, <3>6
        <4>2. Holding(holders'[k], id, Backing(q) + 1)
          BY <1>4, <3>4, <4>1
        <4> QED  BY <3>1, <3>2, <4>2 DEF k, id
      <3> QED  BY <3>5, <3>6
    <2> QED  BY <2>2, <2>3
  <1>6. CASE req[h].cmd = "unlock" /\ req[h].id = id
    <2>1. q = h /\ at[h] = "release"
      BY <1>1, <1>2, <1>6, UnlockIds DEF id
    <2>2. req[h].key = k
      BY <1>1, <1>2, <2>1, KeptWaits DEF k
    <2>3. CASE Succeeded(h)'
      <3>1. Backing(q) = held[h] /\ Backing(q)' = Less(held[h])
        BY <1>1, <2>1, <2>3 DEF Backing, Succeeded
      <3>2. Backing(q)' \in Int /\ Backing(q)' >= 1 /\ Backing(q) = Backing(q)' + 1
        BY <1>3, <2>1, <3>1 DEF Less
      <3>3. Holding(holders[k], id, Backing(q)' + 1)
        BY <1>4, <3>2
      <3>4. \A n \in Int : Holding(holders[k], id, n + 1) /\ n >= 1 => Holding(holders'[k], id, n)
        BY <1>1, <1>2, <1>3, ExecutedLeaves
      <3>5. Holding(holders'[k], id, Backing(q)')
        BY <3>2, <3>3, <3>4
      <3> QED  BY <3>5 DEF k, id
    <2>4. CASE ~Succeeded(h)'
      <3>1. Backing(q)' = Backing(q)
        BY <1>1, <2>1, <2>4 DEF Backing, Succeeded
      <3>2. ResultOf(holders[k], req[h]) # "succed"
        BY <1>1, <2>2, <2>4 DEF Succeeded
      <3>3. \A n \in Int : Holding(holders[k], id, n) => Holding(holders'[k], id, n)
        BY <1>1, <1>2, <1>3, <3>2, ExecutedLeaves
      <3> QED  BY <1>4, <3>1, <3>3 DEF k, id
    <2> QED  BY <2>3, <2>4
  <1> QED  BY <1>5, <1>6

LEMMA ExecuteReaders ==
  ASSUME Base, Mixed, ReadIds, ReadBacked, NEW h \in Handles, Execute(h)
  PROVE  ReadIds' /\ ReadBacked'
  <1>1. /\ ClientInv /\ Queues /\ at[h] # "idle" /\ holders' = Executed(req[h]) /\ reply[h] = "none"
        /\ reply'[h] = ResultOf(holders[req[h].key], req[h])
        /\ \A q \in Handles \ {h} : reply'[q] = reply[q]
        /\ UNCHANGED <<role, size, at, req, calls, read_locks, shed>>
    BY DEF Base, ServerInv, ClientInv, ClientType, Asked, Execute
  <1>2. ReadIds'
    BY <1>1 DEF ReadIds, ReadIdsOf
  <1>3. req[h] \in LockCommands /\ Fits(req[h]) /\ "key" \in Keys
    BY <1>1, WaitsFit DEF Keys
  <1>4. ASSUME NEW q \in Handles, NEW i \in DOMAIN Readers(q), Readers(q)[i] \notin shed
        PROVE  Holding(holders'["key"], Readers(q)[i], 1)
    <2>1. Holding(holders["key"], Readers(q)[i], 1)
      BY <1>4 DEF ReadBacked
    <2>2. role[h] # "semaphore"
      <3>1. role[h] = "semaphore" => role[q] = "semaphore"
        BY DEF Mixed
      <3>2. role[q] = "semaphore" => Readers(q) = << >>
        BY <1>1, ReadersFacts DEF ReadIds, ReadIdsOf, Readers
      <3> QED  BY <1>4, <3>1, <3>2
    <2>3. Readers(q)[i] \notin Links /\ ~(req[h].cmd = "unlock" /\ req[h].id = Readers(q)[i])
      <3>1. \E n \in 1 .. calls[q] : Readers(q)[i] = <<q, n>>
        BY <1>1, <1>4, ReaderIds
      <3> QED  BY <1>1, <2>2, <3>1, UnlockIds, ForeignIds
    <2> QED  BY <1>1, <1>3, <2>1, <2>2, <2>3, ExecuteSpares
  <1>5. ASSUME NEW q \in Handles, NEW i \in DOMAIN Readers(q)'
        PROVE  Readers(q)'[i] \in shed \/ Holding(holders'["key"], Readers(q)'[i], 1)
    <2>1. CASE Readers(q)' = Readers(q)
      BY <1>4, <1>5, <2>1
    <2>2. CASE Readers(q)' # Readers(q)
      <3>1. q = h
        BY <1>1, <2>2 DEF Readers, Succeeded
      <3>2. /\ at[h] = "acquireRead" /\ Succeeded(h)' /\ Readers(h) = read_locks[h]
            /\ Readers(h)' = Append(read_locks[h], req[h].id)
        BY <1>1, <2>2, <3>1 DEF Readers, Succeeded
      <3> DEFINE longer == Append(read_locks[h], req[h].id)
                 n == Len(read_locks[h])
                 id == <<h, calls[h]>>
      <3>3. /\ DOMAIN longer = 1 .. n + 1 /\ longer[n + 1] = id /\ n \in Nat
            /\ DOMAIN read_locks[h] = 1 .. n
            /\ \A j \in DOMAIN read_locks[h] : longer[j] = read_locks[h][j]
            /\ req[h] = Request("lock", "key", id, MaxCount, 0, "keep")
        BY <1>1, <3>2, ReadersFacts
      <3> HIDE DEF longer, n
      <3>4. i \in DOMAIN read_locks[h] \/ i = n + 1
        BY <1>5, <3>1, <3>2, <3>3 DEF longer
      <3>5. CASE i \in DOMAIN read_locks[h]
        BY <1>4, <3>1, <3>2, <3>3, <3>5 DEF longer
      <3>6. CASE i = n + 1
        <4>1. /\ req[h].cmd = "lock" /\ req[h].mode = "keep" /\ req[h].key = "key" /\ req[h].id = id
          BY <3>3 DEF Request
        <4>2. ResultOf(holders["key"], req[h]) = "succed"
          BY <1>1, <3>2, <4>1 DEF Succeeded
        <4>3. id \notin Links
          BY <1>1, ForeignIds, WaitsFit
        <4>4. Holding(holders'["key"], id, 1)
          BY <1>1, <1>3, <4>1, <4>2, <4>3, ExecutedLeaves
        <4> QED  BY <3>1, <3>2, <3>3, <3>6, <4>4 DEF longer
      <3> QED  BY <3>4, <3>5, <3>6
    <2> QED  BY <2>1, <2>2
  <1>6. ReadBacked'
    BY <1>1, <1>5 DEF ReadBacked, Holding
  <1> QED  BY <1>2, <1>6

(* A command that is given up, or whose answer nobody waits for, backs     *)
(* nothing.                                                                *)
LEMMA GiveUpBacked ==
  ASSUME ClientInv, ReadIds, OwnBacked, ReadBacked, NEW h \in Handles, GiveUp(h)
  PROVE  ReadIds' /\ OwnBacked' /\ ReadBacked'
  <1>1. /\ reply[h] = "none" /\ reply'[h] = "error" /\ \A q \in Handles \ {h} : reply'[q] = reply[q]
        /\ UNCHANGED <<role, size, at, req, calls, held, read_locks, holders, shed>>
    BY DEF GiveUp, ClientInv, ClientType
  <1>2. ReadIds'
    BY <1>1 DEF ReadIds, ReadIdsOf
  <1>3. \A q \in Handles : Succeeded(q)' <=> Succeeded(q)
    BY <1>1 DEF Succeeded
  <1>4. \A q \in Handles : /\ Backing(q)' = Backing(q) /\ Readers(q)' = Readers(q)
                           /\ KeyOf(q)' = KeyOf(q)
    BY <1>1, <1>3, FitsSame DEF Backing, Readers
  <1> QED  BY <1>1, <1>2, <1>4 DEF OwnBacked, ReadBacked, Holding, OwnId

(* A hold dropped unknown to its client is in shed. *)
LEMMA SheddingBacked ==
  ASSUME ReadIds, OwnBacked, ReadBacked, UNCHANGED <<role, size, clientVars>>,
         shed \subseteq shed',
         \A k \in Keys : \A id : \A n \in Int :
           id \notin Links \cup shed' /\ Holding(holders[k], id, n) => Holding(holders'[k], id, n),
         ClientInv
  PROVE  ReadIds' /\ OwnBacked' /\ ReadBacked'
  <1>1. ReadIds'
    BY DEF ReadIds, ReadIdsOf, clientVars
  <1>2. \A q \in Handles : Backing(q)' = Backing(q) /\ Readers(q)' = Readers(q) /\ KeyOf(q)' = KeyOf(q)
    BY FitsSame DEF Backing, Readers, Succeeded, clientVars
  <1>3. \A q \in Handles : /\ OwnId(q) \notin Links /\ KeyOf(q) \in Keys /\ Backing(q) \in Int
    <2>1. \A q \in Handles : held[q] \in Nat
      BY DEF ClientInv, ClientType
    <2> QED  BY <2>1, ForeignIds DEF KeyOf, Keys, Backing, Less
  <1>4. OwnBacked'
    BY <1>2, <1>3 DEF OwnBacked, OwnId
  <1>5. \A q \in Handles : \A i \in DOMAIN Readers(q) : Readers(q)[i] \notin Links
    <2>1. \A n, m : n \in 1 .. m => n # 0
      OBVIOUS
    <2> QED  BY <2>1, ReaderIds, ForeignIds
  <1>6. ReadBacked'
    <2>1. "key" \in Keys /\ 1 \in Int
      BY DEF Keys
    <2> QED  BY <1>2, <1>5, <2>1 DEF ReadBacked
  <1> QED  BY <1>1, <1>4, <1>6

LEMMA ExecuteLateBacked ==
  ASSUME ClientInv, ServerInv, ReadIds, OwnBacked, ReadBacked, ExecuteLate
  PROVE  ReadIds' /\ OwnBacked' /\ ReadBacked'
  <1> DEFINE taken(x) == /\ x.req.cmd = "unlock"
                         /\ UnlockResult(holders[x.req.key], x.req) = "succed"
             victim(x) == Victim(holders[x.req.key], x.req)
  <1>1. PICK x \in late :
          /\ late' = late \ {x} /\ holders' = Executed(x.req)
          /\ shed' = IF taken(x) THEN shed \cup {victim(x)} ELSE shed
          /\ UNCHANGED <<role, size, clientVars>>
    BY DEF ExecuteLate
  <1>2. x.req \in LockCommands /\ Fits(x.req) /\ x.req.key \in Keys /\ Queues
    BY DEF ServerInv, LockCommands
  <1>3. shed \subseteq shed' /\ (taken(x) => victim(x) \in shed')
    BY <1>1
  <1>4. ASSUME NEW k \in Keys, NEW id, NEW n \in Int, id \notin Links \cup shed',
               Holding(holders[k], id, n)
        PROVE  Holding(holders'[k], id, n)
    <2>1. x.req.cmd = "unlock" /\ x.req.key = k /\ ResultOf(holders[k], x.req) = "succed"
            => Victim(holders[k], x.req) # id
      BY <1>3, <1>4 DEF ResultOf
    <2> QED  BY <1>1, <1>2, <1>4, <2>1, ExecutedLeaves
  <1> HIDE DEF taken, victim
  <1> QED  BY <1>1, <1>3, <1>4, SheddingBacked

(* Taking one id out leaves the others. *)
LEMMA OutHolding ==
  ASSUME NEW hs \in Seq(Holders), NEW v, NEW id, id # v, NEW n, Holding(hs, id, n)
  PROVE  Holding(Without(hs, v), id, n)
  <1>1. PICK j \in DOMAIN hs : hs[j].id = id /\ hs[j].depth >= n
    BY DEF Holding
  <1>2. \E i \in DOMAIN Without(hs, v) : Without(hs, v)[i] = hs[j]
    BY <1>1, OutFacts
  <1> QED  BY <1>1, <1>2 DEF Holding

LEMMA ExpireBacked ==
  ASSUME ClientInv, ServerInv, ReadIds, OwnBacked, ReadBacked, Expire
  PROVE  ReadIds' /\ OwnBacked' /\ ReadBacked'
  <1>a. PICK k \in Keys : \E i \in DOMAIN holders[k] :
          /\ holders' = [holders EXCEPT ![k] = Without(@, @[i].id)]
          /\ shed' = shed \cup {holders[k][i].id}
    BY DEF Expire
  <1>1. PICK i \in DOMAIN holders[k] :
          /\ holders' = [holders EXCEPT ![k] = Without(@, @[i].id)]
          /\ shed' = shed \cup {holders[k][i].id}
    BY <1>a
  <1>2. UNCHANGED <<role, size, clientVars>>
    BY DEF Expire
  <1>3. holders[k] \in Seq(Holders) /\ holders \in [Keys -> Seq(Holders)]
    BY DEF ServerInv, Queues
  <1> DEFINE v == holders[k][i].id
             ws == Without(holders[k], v)
  <1>5. holders' = [holders EXCEPT ![k] = ws] /\ shed' = shed \cup {v}
    BY <1>1
  <1> HIDE DEF v
  <1>6. ASSUME NEW q \in Keys, NEW id, NEW n \in Int, id \notin Links \cup shed',
               Holding(holders[q], id, n)
        PROVE  Holding(holders'[q], id, n)
    <2>1. CASE q = k
      <3>1. id # v
        BY <1>5, <1>6
      <3>2. Holding(Without(holders[k], v), id, n)
        BY <1>3, <1>6, <2>1, <3>1, OutHolding
      <3>3. holders'[k] = Without(holders[k], v)
        BY <1>3, <1>5
      <3> QED  BY <2>1, <3>2, <3>3
    <2>2. CASE q # k
      BY <1>3, <1>5, <1>6, <2>2
    <2> QED  BY <2>1, <2>2
  <1> QED  BY <1>2, <1>5, <1>6, SheddingBacked

LEMMA BackedInit == Init => BackedInv
  <1> SUFFICES ASSUME Init PROVE BackedInv
    OBVIOUS
  <1>1. \A h \in Handles : read_locks[h] = << >> /\ Readers(h) = << >> /\ Backing(h) = 0
                           /\ at[h] = "idle"
    BY DEF Init, Readers, Backing
  <1>2. ReadIds
    BY <1>1 DEF ReadIds, ReadIdsOf
  <1>3. OwnBacked /\ ReadBacked
    BY <1>1 DEF OwnBacked, ReadBacked
  <1> QED  BY <1>2, <1>3, BaseInit, MixedInit DEF BackedInv

LEMMA BackedStep == BackedInv /\ [Next]_vars => BackedInv'
  <1> SUFFICES ASSUME BackedInv, [Next]_vars PROVE BackedInv'
    OBVIOUS
  <1>0. /\ Base' /\ Base /\ ClientInv /\ ServerInv /\ Mixed /\ ReadIds /\ OwnBacked /\ ReadBacked
    BY BaseStep DEF BackedInv, Base
  <1>1. ASSUME NEW h \in Handles, HandleStep(h)
        PROVE  role' = role /\ ReadIds' /\ OwnBacked' /\ ReadBacked'
    BY <1>0, <1>1, HandleBacked, StepKinds
  <1>2. ASSUME NEW h \in Handles, Execute(h)
        PROVE  role' = role /\ ReadIds' /\ OwnBacked' /\ ReadBacked'
    BY <1>0, <1>2, ExecuteOwn, ExecuteReaders DEF Execute
  <1>3. ASSUME NEW h \in Handles, GiveUp(h)
        PROVE  role' = role /\ ReadIds' /\ OwnBacked' /\ ReadBacked'
    BY <1>0, <1>3, GiveUpBacked DEF GiveUp
  <1>4. CASE ExecuteLate
    <2>1. role' = role
      BY <1>4 DEF ExecuteLate
    <2> QED  BY <1>0, <1>4, <2>1, ExecuteLateBacked, MixedSame DEF BackedInv
  <1>5. CASE Expire
    <2>1. role' = role
      BY <1>5 DEF Expire
    <2> QED  BY <1>0, <1>5, <2>1, ExpireBacked, MixedSame DEF BackedInv
  <1>6. CASE UNCHANGED vars
    <2>1. role' = role /\ UNCHANGED <<role, size, clientVars>> /\ holders' = holders /\ shed' = shed
      BY <1>6 DEF vars, serverVars
    <2>2. ReadIds' /\ OwnBacked' /\ ReadBacked'
      BY <1>0, <2>1, SheddingBacked
    <2> QED  BY <1>0, <2>1, <2>2, MixedSame DEF BackedInv
  <1> QED  BY <1>0, <1>1, <1>2, <1>3, <1>4, <1>5, <1>6, MixedSame DEF Next, ServerStep, BackedInv

-----------------------------------------------------------------------------
(* The places at a key.                                                    *)
Ids(hs) == {hs[i].id : i \in DOMAIN hs}
PlacesOf(k) == UNION {{h} \X (1 .. Places(h)) : h \in {g \in Handles : KeyOf(g) = k}}

(* A set with an injection into a finite one is finite and not larger.     *)
LEMMA Injected ==
  ASSUME NEW S, NEW T, IsFiniteSet(T), NEW f \in [S -> T],
         \A x, y \in S : f[x] = f[y] => x = y
  PROVE  IsFiniteSet(S) /\ Cardinality(S) =< Cardinality(T)
  <1>1. f \in Injection(S, T)
    BY DEF Injection, IsInjective
  <1> QED  BY <1>1, FS_Injection

LEMMA IdsFinite ==
  ASSUME NEW hs \in Seq(Holders)
  PROVE  IsFiniteSet(Ids(hs)) /\ Cardinality(Ids(hs)) =< Len(hs) /\ Cardinality(Ids(hs)) \in Nat
  <1> DEFINE f == [i \in 1 .. Len(hs) |-> hs[i].id]
  <1>1. Len(hs) \in Nat /\ DOMAIN hs = 1 .. Len(hs)
    BY EntryFacts
  <1>2. f \in Surjection(1 .. Len(hs), Ids(hs))
    BY <1>1 DEF Surjection, Ids
  <1>3. IsFiniteSet(1 .. Len(hs)) /\ Cardinality(1 .. Len(hs)) = Len(hs)
    BY <1>1, FirstNumbers
  <1> HIDE DEF f
  <1> QED  BY <1>2, <1>3, FS_Surjection, FS_CardinalityType

(* What a caller relies on is backed, and no more than the calls it made.  *)
LEMMA ReliedFacts ==
  ASSUME ClientInv, NEW h \in Handles
  PROVE  /\ Relied(h) \in Nat /\ Backing(h) \in Nat /\ Relied(h) =< Backing(h)
         /\ Backing(h) \in 0 .. MaxCalls
  <1>1. /\ held[h] \in Nat /\ calls[h] \in Nat /\ calls[h] =< MaxCalls /\ MaxCalls \in Nat
        /\ held[h] =< calls[h] /\ (at[h] # "idle" => held[h] < calls[h])
    BY PrimitivesAssumption DEF ClientInv, ClientType, CallerType, Counted
  <1> QED  BY <1>1 DEF Relied, Backing, Less

LEMMA PlacesFacts ==
  ASSUME ClientInv, ReadIds, NEW h \in Handles
  PROVE  /\ Len(read_locks[h]) \in Nat /\ Places(h) \in Nat
         /\ role[h] # "rw" => Len(read_locks[h]) = 0
         /\ role[h] = "semaphore" => Places(h) = Relied(h)
         /\ role[h] # "semaphore" =>
              /\ Relied(h) > 0 => Places(h) = Len(read_locks[h]) + 1
              /\ ~(Relied(h) > 0) => Places(h) = Len(read_locks[h])
  <1>1. Len(read_locks[h]) \in Nat
    BY ReadersFacts
  <1>2. role[h] # "rw" => Len(read_locks[h]) = 0
    BY DEF ReadIds, ReadIdsOf
  <1>3. Relied(h) \in Nat
    BY ReliedFacts
  <1>4. CASE role[h] = "semaphore"
    BY <1>1, <1>2, <1>3, <1>4 DEF Places
  <1>5. CASE role[h] # "semaphore"
    <2>1. Places(h) = Len(read_locks[h]) + (IF Relied(h) > 0 THEN 1 ELSE 0)
      BY <1>5 DEF Places
    <2>2. CASE Relied(h) > 0
      BY <1>1, <1>2, <1>5, <2>1, <2>2
    <2>3. CASE ~(Relied(h) > 0)
      BY <1>1, <1>2, <1>5, <2>1, <2>3
    <2> QED  BY <2>2, <2>3
  <1> QED  BY <1>4, <1>5

(* What is in read_locks is there, whatever is being acquired. *)
LEMMA ReadersPrefix ==
  ASSUME ClientInv, NEW h \in Handles, NEW i \in DOMAIN read_locks[h]
  PROVE  i \in DOMAIN Readers(h) /\ Readers(h)[i] = read_locks[h][i]
  <1>1. CASE Readers(h) = read_locks[h]
    BY <1>1
  <1>2. CASE at[h] = "acquireRead" /\ Readers(h) = Append(read_locks[h], req[h].id)
    <2> DEFINE longer == Append(read_locks[h], req[h].id)
    <2>1. /\ DOMAIN longer = 1 .. Len(read_locks[h]) + 1
          /\ \A j \in DOMAIN read_locks[h] : longer[j] = read_locks[h][j]
          /\ DOMAIN read_locks[h] = 1 .. Len(read_locks[h]) /\ Len(read_locks[h]) \in Nat
      BY <1>2, ReadersFacts
    <2> HIDE DEF longer
    <2>2. i \in DOMAIN longer
      BY <2>1
    <2> QED  BY <1>2, <2>1, <2>2 DEF longer
  <1> QED  BY <1>1, <1>2 DEF Readers

(* Callers at a key who are no semaphores have a lock each for every place *)
(* they rely on: at the server, or shed.                                   *)
LEMMA PlacesCovered ==
  ASSUME ClientInv, ServerInv, ReadIds, OwnBacked, ReadBacked, NEW k \in Keys,
         \A h \in Handles : role[h] # "semaphore"
  PROVE  PlacesAt(k) =< Len(holders[k]) + Cardinality(shed) /\ PlacesAt(k) \in Nat
  <1> DEFINE IdOf(p) == IF p[2] =< Len(read_locks[p[1]]) THEN read_locks[p[1]][p[2]]
                                                         ELSE OwnId(p[1])
             S == PlacesOf(k)
             T == Ids(holders[k]) \cup shed
             f == [p \in S |-> IdOf(p)]
  <1>0. holders[k] \in Seq(Holders) /\ IsFiniteSet(shed) /\ Cardinality(shed) \in Nat
        /\ Len(holders[k]) \in Nat
    BY FS_CardinalityType, EntryFacts DEF ServerInv, Queues
  <1>1. \A p \in S : \E h \in Handles : \E i \in 1 .. Places(h) : KeyOf(h) = k /\ p = <<h, i>>
    BY DEF PlacesOf
  <1>2. ASSUME NEW h \in Handles, NEW i \in 1 .. Places(h), KeyOf(h) = k
        PROVE  /\ IdOf(<<h, i>>) \in T
               /\ \/ /\ i \in DOMAIN read_locks[h] /\ IdOf(<<h, i>>) = read_locks[h][i]
                     /\ \E n \in Nat \ {0} : IdOf(<<h, i>>) = <<h, n>>
                  \/ i = Len(read_locks[h]) + 1 /\ IdOf(<<h, i>>) = <<h, 0>>
    <2>1. /\ Len(read_locks[h]) \in Nat /\ role[h] # "semaphore"
          /\ Relied(h) > 0 => Places(h) = Len(read_locks[h]) + 1
          /\ ~(Relied(h) > 0) => Places(h) = Len(read_locks[h])
          /\ DOMAIN read_locks[h] = 1 .. Len(read_locks[h])
      BY PlacesFacts, ReadersFacts
    <2>2. CASE i =< Len(read_locks[h])
      <3>1. i \in DOMAIN read_locks[h] /\ IdOf(<<h, i>>) = read_locks[h][i]
        BY <2>1, <2>2
      <3>2. role[h] = "rw" /\ k = "key"
        BY <1>2, <3>1 DEF ReadIds, ReadIdsOf, KeyOf
      <3>3. i \in DOMAIN Readers(h) /\ Readers(h)[i] = read_locks[h][i]
        BY <3>1, ReadersPrefix
      <3>4. read_locks[h][i] \in shed \/ Holding(holders["key"], read_locks[h][i], 1)
        BY <3>3 DEF ReadBacked
      <3>5. \E n \in 1 .. calls[h] : read_locks[h][i] = <<h, n>>
        BY <3>1 DEF ReadIds, ReadIdsOf
      <3>6. \A n : n \in 1 .. calls[h] => n \in Nat \ {0}
        BY DEF ClientInv, ClientType, CallerType
      <3> QED  BY <3>1, <3>2, <3>4, <3>5, <3>6 DEF Holding, Ids
    <2>3. CASE ~(i =< Len(read_locks[h]))
      <3>0. i =< Places(h) /\ i \in Nat /\ Places(h) \in Nat
        BY <1>2, PlacesFacts
      <3>1. i = Len(read_locks[h]) + 1 /\ Relied(h) > 0 /\ IdOf(<<h, i>>) = OwnId(h)
        BY <2>1, <2>3, <3>0
      <3>2. Backing(h) > 0
        BY <3>1, ReliedFacts
      <3>3. OwnId(h) \in shed \/ Holding(holders[k], OwnId(h), Backing(h))
        BY <1>2, <2>1, <3>2 DEF OwnBacked
      <3> QED  BY <3>1, <3>3 DEF Holding, Ids, OwnId
    <2> QED  BY <2>2, <2>3
  <1>3. f \in [S -> T]
    BY <1>1, <1>2
  <1>4. ASSUME NEW p \in S, NEW q \in S, f[p] = f[q]
        PROVE  p = q
    <2>1. PICK g \in Handles : \E i \in 1 .. Places(g) : KeyOf(g) = k /\ p = <<g, i>>
      BY <1>1
    <2>2. PICK i \in 1 .. Places(g) : KeyOf(g) = k /\ p = <<g, i>>
      BY <2>1
    <2>3. PICK h \in Handles : \E j \in 1 .. Places(h) : KeyOf(h) = k /\ q = <<h, j>>
      BY <1>1
    <2>4. PICK j \in 1 .. Places(h) : KeyOf(h) = k /\ q = <<h, j>>
      BY <2>3
    <2>5. IdOf(<<g, i>>) = IdOf(<<h, j>>)
      BY <1>4, <2>2, <2>4
    <2>6. ReadIdsOf(g)
      BY DEF ReadIds
    <2> HIDE DEF IdOf
    <2>7. g = h
      BY <1>2, <2>2, <2>4, <2>5
    <2>8. i = j
      BY <1>2, <2>2, <2>4, <2>5, <2>6, <2>7 DEF ReadIdsOf
    <2> QED  BY <2>2, <2>4, <2>7, <2>8
  <1>5. IsFiniteSet(T) /\ Cardinality(T) =< Len(holders[k]) + Cardinality(shed)
        /\ Cardinality(T) \in Nat
    <2>1. IsFiniteSet(Ids(holders[k])) /\ Cardinality(Ids(holders[k])) =< Len(holders[k])
          /\ Cardinality(Ids(holders[k])) \in Nat
      BY <1>0, IdsFinite
    <2>2. IsFiniteSet(T) /\ Cardinality(Ids(holders[k]) \cap shed) \in Nat
          /\ Cardinality(T) = Cardinality(Ids(holders[k])) + Cardinality(shed)
                                - Cardinality(Ids(holders[k]) \cap shed)
          /\ Cardinality(T) \in Nat
      BY <1>0, <2>1, FS_Union, FS_Intersection, FS_CardinalityType
    <2> QED  BY <1>0, <2>1, <2>2
  <1> HIDE DEF f, T, S
  <1>6. IsFiniteSet(S) /\ Cardinality(S) =< Cardinality(T) /\ Cardinality(S) \in Nat
    BY <1>3, <1>4, <1>5, Injected, FS_CardinalityType
  <1> QED  BY <1>0, <1>5, <1>6 DEF PlacesAt, PlacesOf, S

-----------------------------------------------------------------------------
(* Semaphores: ids are of permits given once, to one acquire, and there    *)
(* are as many permits at the server, or shed, as callers rely on.         *)
Permits == \A h \in Handles : role[h] = "semaphore"
Pending(h) == at[h] = "acquire" /\ reply[h] = "none"
Given(id) ==
  \E h \in Handles : \E n \in 1 .. calls[h] : id = <<h, n>> /\ (Pending(h) => n < calls[h])
Tokens == UNION {{h} \X (1 .. Backing(h)) : h \in Handles}

PermitQueue ==
  /\ holders["root"] = << >> /\ holders["child"] = << >>
  /\ \A i \in DOMAIN holders["key"] : holders["key"][i].count = LessOne(size)
PermitLate ==
  /\ \A x \in late :
       /\ x.req.key = "key"
       /\ IF x.req.cmd = "lock"
          THEN /\ x.req.count = LessOne(size) /\ x.req.mode = "keep" /\ Given(x.req.id)
               /\ x.req.id \notin Ids(holders["key"]) \cup shed
          ELSE x.req.mode = "first" /\ x.req.id = ZeroId
  /\ \A x, y \in late : x.req.cmd = "lock" /\ y.req.cmd = "lock" /\ x.req.id = y.req.id => x = y
PermitIds ==
  /\ \A id \in Ids(holders["key"]) \cup shed : Given(id)
  /\ Ids(holders["key"]) \cap shed = {}
PermitReleases == \A h \in Handles : at[h] = "release" => held[h] > 0
PermitCount == Cardinality(Tokens) =< Len(holders["key"]) + Cardinality(shed)

PermitInv == Permits => /\ PermitQueue /\ PermitLate /\ PermitIds /\ PermitReleases
                        /\ PermitCount

LEMMA TokensFacts ==
  ASSUME ClientInv
  PROVE  /\ IsFiniteSet(Tokens) /\ Cardinality(Tokens) \in Nat
         /\ \A h, n : <<h, n>> \in Tokens <=> h \in Handles /\ n \in 1 .. Backing(h)
         /\ \A p \in Tokens : p = <<p[1], p[2]>>
  <1>1. IsFiniteSet(Handles \X (1 .. MaxCalls))
    <2>1. IsFiniteSet(Handles) /\ IsFiniteSet(1 .. MaxCalls)
      BY HandlesAssumption, PrimitivesAssumption, FirstNumbers
    <2> QED  BY <2>1, FS_Product
  <1>2. \A h \in Handles : \A n \in 1 .. Backing(h) : n \in 1 .. MaxCalls
    <2> SUFFICES ASSUME NEW h \in Handles, NEW n \in 1 .. Backing(h) PROVE n \in 1 .. MaxCalls
      OBVIOUS
    <2>1. Backing(h) \in 0 .. MaxCalls /\ MaxCalls \in Nat
      BY ReliedFacts, PrimitivesAssumption
    <2> QED  BY <2>1
  <1>3. Tokens \subseteq Handles \X (1 .. MaxCalls)
    BY <1>2 DEF Tokens
  <1>4. \A h, n : <<h, n>> \in Tokens <=> h \in Handles /\ n \in 1 .. Backing(h)
    BY DEF Tokens
  <1>5. \A p \in Tokens : p = <<p[1], p[2]>>
    BY <1>3
  <1> QED  BY <1>1, <1>3, <1>4, <1>5, FS_Subset, FS_CardinalityType

LEMMA PermitWaits ==
  ASSUME ClientInv, Permits, NEW h \in Handles
  PROVE  /\ at[h] \in {"idle", "acquire", "release"}
         /\ at[h] = "acquire" =>
              /\ req[h].cmd = "lock" /\ req[h].mode = "keep" /\ req[h].key = "key"
              /\ req[h].id = <<h, calls[h]>> /\ req[h].count = LessOne(size)
         /\ at[h] = "release" =>
              req[h].cmd = "unlock" /\ req[h].mode = "first" /\ req[h].key = "key"
              /\ req[h].id = ZeroId
         /\ Readers(h) = read_locks[h]
  <1>1. role[h] = "semaphore" /\ CountOf(h) = LessOne(size)
    BY DEF Permits, CountOf
  <1>2. CASE at[h] = "idle"
    BY <1>2 DEF Readers
  <1>3. CASE at[h] # "idle"
    <2>1. SemaphoreWaits(h, at[h], req[h])
      BY <1>1, <1>3 DEF ClientInv, Asked, Waits, LockWaits, OneLock, ReadWaits, LeafWaits,
                        EventWaits, EventRoles
    <2>a. \A cmd, k, id, count, rcount, mode :
            LET r == Request(cmd, k, id, count, rcount, mode)
            IN  r.cmd = cmd /\ r.key = k /\ r.id = id /\ r.count = count /\ r.mode = mode
      BY DEF Request
    <2> QED  BY <1>1, <2>1, <2>a DEF SemaphoreWaits, Readers
  <1> QED  BY <1>2, <1>3

LEMMA GivenFacts ==
  ASSUME NEW id, Given(id)
  PROVE  id \notin OwnIds /\ id # ZeroId /\ id \notin Links
  <1>1. PICK h \in Handles : \E n \in 1 .. calls[h] : id = <<h, n>>
    BY DEF Given
  <1>2. PICK n \in 1 .. calls[h] : id = <<h, n>>
    BY <1>1
  <1>3. n # 0
    OBVIOUS
  <1> QED  BY <1>2, <1>3, ForeignIds DEF ZeroId

(* An id once given stays given. *)
LEMMA GivenStays ==
  ASSUME ClientInv, ClientInv',
         \A q \in Handles : \/ calls'[q] = calls[q] /\ (Pending(q)' => Pending(q))
                            \/ calls'[q] = calls[q] + 1
  PROVE  \A id : Given(id) => Given(id)'
  <1> SUFFICES ASSUME NEW id, Given(id) PROVE Given(id)'
    OBVIOUS
  <1>1. PICK h \in Handles : \E n \in 1 .. calls[h] : id = <<h, n>> /\ (Pending(h) => n < calls[h])
    BY DEF Given
  <1>2. PICK n \in 1 .. calls[h] : id = <<h, n>> /\ (Pending(h) => n < calls[h])
    BY <1>1
  <1>3. calls[h] \in Nat /\ calls'[h] \in Nat
    BY DEF ClientInv, ClientType, CallerType
  <1>4. n \in 1 .. calls'[h] /\ (Pending(h)' => n < calls'[h])
    BY <1>2, <1>3
  <1> QED  BY <1>2, <1>4 DEF Given

LEMMA AfterIds ==
  ASSUME NEW hs \in Seq(Holders), Orderly(hs), NEW r \in LockCommands
  PROVE  /\ r.cmd = "lock" => Ids(AfterOf(hs, r)) \subseteq Ids(hs) \cup {r.id}
         /\ r.cmd = "unlock" => Ids(AfterOf(hs, r)) \subseteq Ids(hs)
         /\ \A c : /\ \A i \in DOMAIN hs : hs[i].count = c
                   /\ r.cmd = "lock" => r.count = c
                   => \A i \in DOMAIN AfterOf(hs, r) : AfterOf(hs, r)[i].count = c
  <1>1. r.cmd \in {"lock", "unlock"}
    BY DEF LockCommands
  <1> DEFINE as == AfterOf(hs, r)
  <1>2. CASE r.cmd = "lock"
    <2>1. \A i \in DOMAIN as :
              \/ \E j \in DOMAIN hs : hs[j].id = as[i].id /\ hs[j].count = as[i].count
              \/ as[i].id = r.id /\ as[i].count = r.count
      BY <1>2, LockHolding
    <2> HIDE DEF as
    <2> QED  BY <1>2, <2>1 DEF Ids, as
  <1>3. CASE r.cmd = "unlock"
    <2>1. \A i \in DOMAIN as :
              \E j \in DOMAIN hs : hs[j].id = as[i].id /\ hs[j].count = as[i].count
      BY <1>3, UnlockHolding
    <2> HIDE DEF as
    <2> QED  BY <1>3, <2>1 DEF Ids, as
  <1> QED  BY <1>1, <1>2, <1>3

(* A step of a handle touches nothing of this: it may make up an id, and a *)
(* release begins with a permit at hand.                                   *)
LEMMA HandlePermits ==
  ASSUME ClientInv, PermitInv, NEW h \in Handles, HandleStep(h)
  PROVE  PermitInv'
  <1> SUFFICES ASSUME Permits'
               PROVE  (PermitQueue /\ PermitLate /\ PermitIds /\ PermitReleases /\ PermitCount)'
    BY DEF PermitInv
  <1>0. UNCHANGED <<role, size, holders, late, shed>>
    BY StepKinds DEF serverVars
  <1>1. Permits /\ PermitQueue /\ PermitLate /\ PermitIds /\ PermitReleases /\ PermitCount
    BY <1>0 DEF Permits, PermitInv
  <1>2. /\ ClientInv' /\ Only(h)
        /\ Begun(h) \/ Ended(h)
    <2>1. ~Passed(h)
      BY <1>1, PermitWaits DEF Passed
    <2> QED  BY <2>1, ClientStep, StepKinds
  <1>3. \A q \in Handles : Backing(q)' = Backing(q)
    BY BackingSame
  <1>4. Tokens' = Tokens
    BY <1>3 DEF Tokens
  <1>5. \A q \in Handles : \/ calls'[q] = calls[q] /\ (Pending(q)' => Pending(q))
                           \/ calls'[q] = calls[q] + 1
    BY <1>2 DEF Only, Begun, Ended, Pending
  <1>6. \A id : Given(id) => Given(id)'
    BY <1>2, <1>5, GivenStays
  <1>7. PermitQueue' /\ PermitIds' /\ PermitCount'
    BY <1>0, <1>1, <1>4, <1>6 DEF PermitQueue, PermitIds, PermitCount, LessOne, Ids
  <1>8. PermitLate'
    BY <1>0, <1>1, <1>6 DEF PermitLate, LessOne, Ids, ZeroId
  <1>9. PermitReleases'
    <2>1. ASSUME NEW q \in Handles, at'[q] = "release"
          PROVE  held'[q] > 0
      <3>1. CASE q = h
        <4>1. Begun(h) /\ role[h] = "semaphore"
          BY <1>1, <1>2, <2>1, <3>1 DEF Ended, Permits
        <4> QED  BY <2>1, <3>1, <4>1 DEF Begun
      <3>2. CASE q # h
        BY <1>1, <1>2, <2>1, <3>2 DEF Only, PermitReleases
      <3> QED  BY <3>1, <3>2
    <2> QED  BY <2>1 DEF PermitReleases
  <1> QED  BY <1>7, <1>8, <1>9

(* The queue after a command at the key of semaphores. *)
LEMMA PermitExecuted ==
  ASSUME ServerInv, PermitQueue, NEW r \in LockCommands, Fits(r), r.key = "key",
         r.cmd = "lock" => r.count = LessOne(size), holders' = Executed(r), size' = size
  PROVE  PermitQueue' /\ holders'["key"] = AfterOf(holders["key"], r)
  <1>1. Queues /\ holders \in [Keys -> Seq(Holders)] /\ {"key", "root", "child"} \subseteq Keys
        /\ holders["key"] \in Seq(Holders) /\ Orderly(holders["key"])
    BY DEF ServerInv, Queues, Keys
  <1>2. holders' = [holders EXCEPT !["key"] = AfterOf(holders["key"], r)]
    BY <1>1, ExecutedCases
  <1>3. \A c : /\ \A i \in DOMAIN holders["key"] : holders["key"][i].count = c
               /\ r.cmd = "lock" => r.count = c
               => \A i \in DOMAIN AfterOf(holders["key"], r) : AfterOf(holders["key"], r)[i].count = c
    BY <1>1, AfterIds
  <1> HIDE DEF Keys
  <1>4. holders'["key"] = AfterOf(holders["key"], r) /\ holders'["root"] = holders["root"]
        /\ holders'["child"] = holders["child"]
    BY <1>1, <1>2
  <1>5. \A i \in DOMAIN holders'["key"] : holders'["key"][i].count = LessOne(size)
    <2> DEFINE after == AfterOf(holders["key"], r)
    <2>1. \A i \in DOMAIN holders["key"] : holders["key"][i].count = LessOne(size)
      BY DEF PermitQueue
    <2>2. \A i \in DOMAIN after : after[i].count = LessOne(size)
      <3> HIDE DEF after
      <3> QED  BY <1>3, <2>1 DEF after
    <2> HIDE DEF after
    <2>3. holders'["key"] = after
      BY <1>4 DEF after
    <2> QED  BY <2>2, <2>3
  <1> QED  BY <1>4, <1>5 DEF PermitQueue, LessOne

LEMMA ExecutePermits ==
  ASSUME Base, PermitInv, NEW h \in Handles, Execute(h)
  PROVE  PermitInv'
  <1> SUFFICES ASSUME Permits'
               PROVE  (PermitQueue /\ PermitLate /\ PermitIds /\ PermitReleases /\ PermitCount)'
    BY DEF PermitInv
  <1> DEFINE r == req[h]
             hs == holders["key"]
             id == <<h, calls[h]>>
  <1>0. /\ ClientInv /\ ServerInv /\ ClientInv' /\ at[h] # "idle"
        /\ reply[h] = "none" /\ reply'[h] = ResultOf(holders[r.key], r)
        /\ \A q \in Handles \ {h} : reply'[q] = reply[q]
        /\ holders' = Executed(r) /\ UNCHANGED <<role, size, at, req, calls, held, late, shed>>
    BY ExecuteClient DEF Base, ClientInv, ClientType, Asked, Execute
  <1>1. Permits /\ PermitQueue /\ PermitLate /\ PermitIds /\ PermitReleases /\ PermitCount
    BY <1>0 DEF Permits, PermitInv
  <1>2. /\ r.key = "key" /\ r \in LockCommands /\ Fits(r) /\ at[h] \in {"acquire", "release"}
        /\ hs \in Seq(Holders) /\ Orderly(hs)
        /\ IsFiniteSet(shed) /\ Cardinality(shed) \in Nat /\ Len(hs) \in Nat
        /\ held[h] \in Nat /\ calls[h] \in Nat \ {0}
    <3>1. at[h] \in {"acquire", "release"} /\ r.key = "key"
      BY <1>0, <1>1, PermitWaits
    <3>2. r \in LockCommands /\ Fits(r) /\ calls[h] \in Nat \ {0}
      BY <1>0, WaitsFit
    <3>3. hs \in Seq(Holders) /\ Orderly(hs) /\ IsFiniteSet(shed)
      BY <1>0 DEF ServerInv, Queues, Keys
    <3> QED  BY <1>0, <3>1, <3>2, <3>3, EntryFacts, FS_CardinalityType DEF ClientInv, ClientType
  <1>3. PermitQueue' /\ holders'["key"] = AfterOf(hs, r) /\ PermitReleases'
    <2>1. r.cmd = "lock" => r.count = LessOne(size)
      BY <1>0, <1>1, <1>2, PermitWaits
    <2>2. PermitQueue' /\ holders'["key"] = AfterOf(hs, r)
      BY <1>0, <1>1, <1>2, <2>1, PermitExecuted
    <2> QED  BY <1>0, <1>1, <2>2 DEF PermitReleases
  <1>4. \A i : Given(i) => Given(i)'
    <2>1. \A q \in Handles : calls'[q] = calls[q] /\ (Pending(q)' => Pending(q))
      BY <1>0 DEF Pending
    <2> QED  BY <1>0, <2>1, GivenStays
  <1>5. \A q \in Handles \ {h} : Backing(q)' = Backing(q)
    BY <1>0 DEF Backing, Succeeded
  <1>6. CASE at[h] = "acquire"
    <2>1. r.cmd = "lock" /\ r.mode = "keep" /\ r.id = id
      BY <1>0, <1>1, <1>6, PermitWaits
    <2>2. ~Given(id) /\ Given(id)'
      <3>1. Pending(h) /\ ~Pending(h)'
        BY <1>0, <1>6, ServerType, <1>2 DEF Pending, ReplyCodes
      <3>2. calls[h] \in 1 .. calls[h] /\ ~(calls[h] < calls[h])
        BY <1>2
      <3> QED  BY <1>0, <3>1, <3>2 DEF Given
    <2>3. id \notin Ids(hs) \cup shed /\ \A x \in late : x.req.cmd = "lock" => x.req.id # id
      BY <1>1, <2>2 DEF PermitIds, PermitLate
    <2>4. CASE r.mode = "keep" /\ ResultOf(hs, r) = "succed"
      <3>1. Len(holders'["key"]) = Len(hs) + 1
        <4>1. ~Holds(hs, r.id)
          BY <2>1, <2>3 DEF Holds, Ids
        <4> QED  BY <1>2, <1>3, <2>1, <2>4, <4>1, LockHolding
      <3>2. Ids(holders'["key"]) \subseteq Ids(hs) \cup {id}
        BY <1>2, <1>3, <2>1, AfterIds
      <3>3. PermitIds' /\ PermitLate'
        <4>1. PermitIds'
          BY <1>0, <1>1, <1>4, <2>2, <2>3, <3>2 DEF PermitIds
        <4>2. PermitLate'
          BY <1>0, <1>1, <1>4, <2>3, <3>2 DEF PermitLate, LessOne, ZeroId
        <4> QED  BY <4>1, <4>2
      <3>4. Backing(h) = held[h] /\ Backing(h)' = held[h] + 1
        BY <1>0, <1>2, <1>6, <2>4 DEF Backing, Succeeded
      <3>5. Tokens' = Tokens \cup {<<h, held[h] + 1>>}
        <4> DEFINE p == <<h, held[h] + 1>>
        <4>1. \A q \in Handles : \A n : n \in 1 .. Backing(q)' <=>
                                          n \in 1 .. Backing(q) \/ (q = h /\ n = held[h] + 1)
          BY <1>2, <1>5, <3>4
        <4> QED  BY <4>1 DEF Tokens
      <3>6. Cardinality(Tokens') =< Cardinality(Tokens) + 1 /\ Cardinality(Tokens) \in Nat
        <4>1. IsFiniteSet(Tokens) /\ Cardinality(Tokens) \in Nat
          BY <1>0, TokensFacts
        <4>2. Cardinality(Tokens \cup {<<h, held[h] + 1>>})
                \in {Cardinality(Tokens), Cardinality(Tokens) + 1}
          BY <4>1, FS_AddElement
        <4> QED  BY <3>5, <4>1, <4>2
      <3>7. PermitCount'
        <4>1. Cardinality(Tokens)' = Cardinality(Tokens') /\ Cardinality(shed)' = Cardinality(shed)
          BY <1>0
        <4>2. IsFiniteSet(Tokens)
          BY <1>0, TokensFacts
        <4>3. IsFiniteSet(Tokens \cup {<<h, held[h] + 1>>})
          BY <4>2, FS_AddElement
        <4>4. Cardinality(Tokens') \in Nat
          BY <3>5, <4>3, FS_CardinalityType
        <4> QED  BY <1>0, <1>1, <1>2, <3>1, <3>6, <4>1, <4>4 DEF PermitCount
      <3> QED  BY <1>3, <3>3, <3>7
    <2>5. CASE ResultOf(hs, r) # "succed"
      <3>1. holders'["key"] = hs
        BY <1>2, <1>3, <2>1, <2>5, LockHolding
      <3>2. Backing(h)' = Backing(h)
        BY <1>0, <1>2, <1>6, <2>5 DEF Backing, Succeeded
      <3>3. Tokens' = Tokens
        BY <1>5, <3>2 DEF Tokens
      <3> QED  BY <1>0, <1>1, <1>3, <1>4, <3>1, <3>3
               DEF PermitIds, PermitLate, PermitCount, LessOne, ZeroId
    <2> QED  BY <2>1, <2>4, <2>5
  <1>7. CASE at[h] = "release"
    <2>1. r.cmd = "unlock" /\ r.mode = "first" /\ held[h] > 0
      BY <1>0, <1>1, <1>7, PermitWaits DEF PermitReleases
    <2>2. Ids(holders'["key"]) \subseteq Ids(hs)
      BY <1>2, <1>3, <2>1, AfterIds
    <2>3. PermitIds' /\ PermitLate'
      BY <1>0, <1>1, <1>4, <2>2 DEF PermitIds, PermitLate, LessOne, ZeroId
    <2>4. Backing(h) = held[h]
      BY <1>0, <1>7 DEF Backing, Succeeded
    <2>5. IsFiniteSet(Tokens) /\ Cardinality(Tokens) \in Nat
      BY <1>0, TokensFacts
    <2>6. CASE ResultOf(hs, r) = "succed"
      <3>1. Victim(hs, r) \notin OwnIds
        <4>1. Holds(hs, Victim(hs, r))
          BY <1>2, <2>1, <2>6, UnlockHolding
        <4>2. Victim(hs, r) \in Ids(hs)
          BY <4>1 DEF Holds, Ids
        <4> QED  BY <1>1, <4>2, GivenFacts DEF PermitIds
      <3>2. Len(holders'["key"]) = Len(hs) - 1
        BY <1>2, <1>3, <2>1, <2>6, <3>1, UnlockHolding
      <3>3. Backing(h)' = held[h] - 1
        BY <1>0, <1>2, <1>7, <2>1, <2>6 DEF Backing, Succeeded, Less
      <3>4. Tokens' = Tokens \ {<<h, held[h]>>} /\ <<h, held[h]>> \in Tokens
        <4>1. \A q \in Handles : \A n : n \in 1 .. Backing(q)' <=>
                                          n \in 1 .. Backing(q) /\ ~(q = h /\ n = held[h])
          BY <1>2, <1>5, <2>1, <2>4, <3>3
        <4>2. held[h] \in 1 .. Backing(h)
          BY <1>2, <2>1, <2>4
        <4>3. <<h, held[h]>> \in Tokens
          BY <1>0, <4>2, TokensFacts
        <4> QED  BY <4>1, <4>3 DEF Tokens
      <3>5. Cardinality(Tokens') = Cardinality(Tokens) - 1
        BY <2>5, <3>4, FS_RemoveElement
      <3>6. PermitCount'
        <4>1. Cardinality(Tokens)' = Cardinality(Tokens') /\ Cardinality(shed)' = Cardinality(shed)
          BY <1>0
        <4> QED  BY <1>0, <1>1, <1>2, <2>5, <3>2, <3>5, <4>1 DEF PermitCount
      <3> QED  BY <1>3, <2>3, <3>6
    <2>7. CASE ResultOf(hs, r) # "succed"
      <3>1. holders'["key"] = hs
        BY <1>2, <1>3, <2>1, <2>7, UnlockHolding
      <3>2. Backing(h)' = Backing(h)
        BY <1>0, <1>2, <1>7, <2>7 DEF Backing, Succeeded
      <3>3. Tokens' = Tokens
        BY <1>5, <3>2 DEF Tokens
      <3> QED  BY <1>0, <1>1, <1>3, <2>3, <3>1, <3>3 DEF PermitCount
    <2> QED  BY <2>6, <2>7
  <1> QED  BY <1>2, <1>6, <1>7

(* An acquire that nobody waits for any more has had its id given. *)
LEMMA LostPermits ==
  ASSUME Base, ClientInv', Permits, PermitLate, PermitIds,
         NEW h \in Handles, at[h] # "idle", reply[h] = "none", ~Pending(h)',
         \A q \in Handles \ {h} : Pending(q)' => Pending(q),
         late' = late \cup {[n |-> losses, req |-> req[h]]} \/ late' = late,
         UNCHANGED <<role, size, calls, holders, shed>>
  PROVE  PermitLate' /\ PermitIds'
  <1> DEFINE new == [n |-> losses, req |-> req[h]]
  <1>0. ClientInv
    BY DEF Base
  <1>4. \A i : Given(i) => Given(i)'
    <2>1. \A q \in Handles : calls'[q] = calls[q] /\ (Pending(q)' => Pending(q))
      OBVIOUS
    <2> QED  BY <1>0, <2>1, GivenStays
  <1>5. req[h].key = "key" /\ new.req = req[h]
        /\ \/ /\ at[h] = "acquire" /\ req[h].cmd = "lock" /\ req[h].mode = "keep"
              /\ req[h].id = <<h, calls[h]>> /\ req[h].count = LessOne(size)
           \/ req[h].cmd = "unlock" /\ req[h].mode = "first" /\ req[h].id = ZeroId
    BY <1>0, PermitWaits
  <1>6. at[h] = "acquire" => ~Given(<<h, calls[h]>>) /\ Given(<<h, calls[h]>>)'
    <2> SUFFICES ASSUME at[h] = "acquire"
                 PROVE  ~Given(<<h, calls[h]>>) /\ Given(<<h, calls[h]>>)'
      OBVIOUS
    <2>1. Pending(h) /\ ~Pending(h)'
      BY DEF Pending
    <2>2. calls[h] \in 1 .. calls[h] /\ ~(calls[h] < calls[h])
      BY <1>0, WaitsFit
    <2>3. ASSUME Given(<<h, calls[h]>>)
          PROVE  FALSE
      <3>1. PICK q \in Handles : \E n \in 1 .. calls[q] :
                   <<h, calls[h]>> = <<q, n>> /\ (Pending(q) => n < calls[q])
        BY <2>3 DEF Given
      <3> QED  BY <2>1, <2>2, <3>1
    <2>4. Given(<<h, calls[h]>>)'
      BY <2>1, <2>2 DEF Given
    <2> QED  BY <2>3, <2>4
  <1> HIDE DEF new
  <1>7. late' \subseteq late \cup {new}
    BY DEF new
  <1>8. PermitLate'
    <2>1. \A i : Given(i) \/ i \notin Ids(holders["key"]) \cup shed
      BY DEF PermitIds
    <2>2. \A x \in late : x.req.cmd = "lock" => Given(x.req.id)
      BY DEF PermitLate
    <2>3. Ids(holders["key"])' = Ids(holders["key"])
      BY DEF Ids
    <2>4. \A x \in late' :
            /\ x.req.key = "key"
            /\ IF x.req.cmd = "lock"
               THEN /\ x.req.count = LessOne(size) /\ x.req.mode = "keep" /\ Given(x.req.id)'
                    /\ x.req.id \notin Ids(holders["key"]) \cup shed
               ELSE x.req.mode = "first" /\ x.req.id = ZeroId
      BY <1>4, <1>5, <1>6, <1>7, <2>1 DEF PermitLate
    <2>5. \A x, y \in late' :
            x.req.cmd = "lock" /\ y.req.cmd = "lock" /\ x.req.id = y.req.id => x = y
      BY <1>5, <1>6, <1>7, <2>2 DEF PermitLate
    <2> QED  BY <2>3, <2>4, <2>5 DEF PermitLate, LessOne, ZeroId
  <1>9. PermitIds'
    BY <1>4 DEF PermitIds, Ids
  <1> QED  BY <1>8, <1>9

LEMMA GiveUpPermits ==
  ASSUME Base, PermitInv, NEW h \in Handles, GiveUp(h)
  PROVE  PermitInv'
  <1> SUFFICES ASSUME Permits'
               PROVE  (PermitQueue /\ PermitLate /\ PermitIds /\ PermitReleases /\ PermitCount)'
    BY DEF PermitInv
  <1>0. /\ ClientInv /\ ClientInv' /\ at[h] # "idle"
        /\ reply[h] = "none" /\ reply'[h] = "error"
        /\ \A q \in Handles \ {h} : reply'[q] = reply[q]
        /\ late' = late \cup {[n |-> losses, req |-> req[h]]}
        /\ UNCHANGED <<role, size, at, req, calls, held, holders, shed>>
    BY GiveUpClient DEF Base, ClientInv, ClientType, Asked, GiveUp
  <1>1. Permits /\ PermitQueue /\ PermitLate /\ PermitIds /\ PermitReleases /\ PermitCount
    BY <1>0 DEF Permits, PermitInv
  <1>2. \A q \in Handles : Backing(q)' = Backing(q)
    BY <1>0 DEF Backing, Succeeded
  <1>3. Tokens' = Tokens
    BY <1>2 DEF Tokens
  <1>4. ~Pending(h)' /\ \A q \in Handles \ {h} : Pending(q)' => Pending(q)
    BY <1>0 DEF Pending
  <1>5. PermitLate' /\ PermitIds'
    BY <1>0, <1>1, <1>4, LostPermits
  <1> QED  BY <1>0, <1>1, <1>3, <1>5 DEF PermitQueue, PermitReleases, PermitCount, LessOne

LEMMA ExecuteLatePermits ==
  ASSUME Base, PermitInv, ExecuteLate
  PROVE  PermitInv'
  <1> SUFFICES ASSUME Permits'
               PROVE  (PermitQueue /\ PermitLate /\ PermitIds /\ PermitReleases /\ PermitCount)'
    BY DEF PermitInv
  <1> DEFINE taken(x) == /\ x.req.cmd = "unlock"
                         /\ UnlockResult(holders[x.req.key], x.req) = "succed"
             victim(x) == Victim(holders[x.req.key], x.req)
             hs == holders["key"]
  <1>1. PICK x \in late :
          /\ late' = late \ {x} /\ holders' = Executed(x.req)
          /\ shed' = IF taken(x) THEN shed \cup {victim(x)} ELSE shed
          /\ UNCHANGED <<role, size, clientVars>>
    BY DEF ExecuteLate
  <1>2. Permits /\ PermitQueue /\ PermitLate /\ PermitIds /\ PermitReleases /\ PermitCount
        /\ ClientInv /\ ServerInv /\ ClientInv'
    BY <1>1, ClientSame DEF Permits, PermitInv, Base
  <1>3. /\ x.req \in LockCommands /\ Fits(x.req) /\ x.req.key = "key"
        /\ hs \in Seq(Holders) /\ Orderly(hs) /\ Len(hs) \in Nat
        /\ IsFiniteSet(shed) /\ Cardinality(shed) \in Nat
        /\ x.req.cmd \in {"lock", "unlock"} /\ (x.req.cmd = "lock" => x.req.count = LessOne(size))
    <2>1. x.req \in LockCommands /\ Fits(x.req) /\ x.req.key = "key"
          /\ hs \in Seq(Holders) /\ Orderly(hs) /\ IsFiniteSet(shed)
          /\ (x.req.cmd = "lock" => x.req.count = LessOne(size))
      BY <1>2 DEF ServerInv, Queues, Keys, PermitLate
    <2> QED  BY <2>1, EntryFacts, FS_CardinalityType DEF LockCommands
  <1>4. PermitQueue' /\ holders'["key"] = AfterOf(hs, x.req)
    BY <1>1, <1>2, <1>3, PermitExecuted
  <1>5. Tokens' = Tokens /\ PermitReleases' /\ \A i : Given(i)' <=> Given(i)
    BY <1>1, <1>2 DEF Tokens, Backing, Succeeded, PermitReleases, Given, Pending, clientVars
  <1>6. Cardinality(Tokens) \in Nat
    BY <1>2, TokensFacts
  <1>7. CASE x.req.cmd = "lock"
    <2>1. shed' = shed /\ Given(x.req.id) /\ x.req.id \notin Ids(hs) \cup shed
          /\ x.req.mode = "keep"
      BY <1>1, <1>2, <1>7 DEF PermitLate
    <2>2. Ids(holders'["key"]) \subseteq Ids(hs) \cup {x.req.id}
      BY <1>3, <1>4, <1>7, AfterIds
    <2>3. Len(holders'["key"]) >= Len(hs)
      BY <1>3, <1>4, <1>7, LockHolding
    <2>4. PermitIds'
      BY <1>2, <1>5, <2>1, <2>2 DEF PermitIds
    <2>5. PermitLate'
      BY <1>1, <1>2, <1>5, <1>7, <2>1, <2>2 DEF PermitLate, LessOne, ZeroId
    <2>6. Len(holders'["key"]) \in Nat
      BY <1>3, <1>4, ServerType, EntryFacts
    <2>7. PermitCount'
      BY <1>2, <1>3, <1>5, <1>6, <2>1, <2>3, <2>6 DEF PermitCount
    <2> QED  BY <1>4, <1>5, <2>4, <2>5, <2>7
  <1>8. CASE x.req.cmd = "unlock"
    <2>1. Ids(holders'["key"]) \subseteq Ids(hs)
      BY <1>3, <1>4, <1>8, AfterIds
    <2>2. CASE taken(x)
      <3>1. ResultOf(hs, x.req) = "succed" /\ shed' = shed \cup {Victim(hs, x.req)}
        BY <1>1, <1>3, <1>8, <2>2 DEF ResultOf
      <3> DEFINE v == Victim(hs, x.req)
      <3>2. v \in Ids(hs)
        <4>1. Holds(hs, v)
          BY <1>3, <1>8, <3>1, UnlockHolding
        <4> QED  BY <4>1 DEF Holds, Ids
      <3>3. v \notin OwnIds /\ Given(v) /\ v \notin shed
        BY <1>2, <3>2, GivenFacts DEF PermitIds
      <3>4. Len(holders'["key"]) = Len(hs) - 1 /\ v \notin Ids(holders'["key"])
        <4>1. Len(holders'["key"]) = Len(hs) - 1 /\ ~Holds(holders'["key"], v)
          BY <1>3, <1>4, <1>8, <3>1, <3>3, UnlockHolding
        <4> QED  BY <4>1 DEF Holds, Ids
      <3> HIDE DEF v
      <3>5. shed' = shed \cup {v}
        BY <3>1 DEF v
      <3>6. PermitIds'
        BY <1>2, <1>5, <2>1, <3>3, <3>4, <3>5 DEF PermitIds
      <3>7. PermitLate'
        BY <1>1, <1>2, <1>5, <2>1, <3>2, <3>5 DEF PermitLate, LessOne, ZeroId
      <3>8. Cardinality(shed') = Cardinality(shed) + 1
        BY <1>3, <3>3, <3>5, FS_AddElement
      <3>9. PermitCount'
        BY <1>2, <1>3, <1>5, <1>6, <3>4, <3>8 DEF PermitCount
      <3> QED  BY <1>4, <1>5, <3>6, <3>7, <3>9
    <2>3. CASE ~taken(x)
      <3>1. ResultOf(hs, x.req) # "succed" /\ shed' = shed
        BY <1>1, <1>3, <1>8, <2>3 DEF ResultOf
      <3>2. holders'["key"] = hs
        BY <1>3, <1>4, <1>8, <3>1, UnlockHolding
      <3>3. PermitLate' /\ PermitIds' /\ PermitCount'
        BY <1>1, <1>2, <1>5, <3>1, <3>2
        DEF PermitLate, PermitIds, PermitCount, LessOne, ZeroId
      <3> QED  BY <1>4, <1>5, <3>3
    <2> QED  BY <2>2, <2>3
  <1> QED  BY <1>3, <1>7, <1>8

LEMMA ExpirePermits ==
  ASSUME Base, PermitInv, Expire
  PROVE  PermitInv'
  <1> SUFFICES ASSUME Permits'
               PROVE  (PermitQueue /\ PermitLate /\ PermitIds /\ PermitReleases /\ PermitCount)'
    BY DEF PermitInv
  <1>0. UNCHANGED <<role, size, clientVars, late>>
    BY DEF Expire
  <1>1. Permits /\ PermitQueue /\ PermitLate /\ PermitIds /\ PermitReleases /\ PermitCount
        /\ ClientInv /\ ServerInv
    BY <1>0 DEF Permits, PermitInv, Base
  <1> DEFINE hs == holders["key"]
  <1>2. \E i \in DOMAIN hs : /\ holders' = [holders EXCEPT !["key"] = Without(hs, hs[i].id)]
                             /\ shed' = shed \cup {hs[i].id}
    <2>1. PICK k \in Keys : \E i \in DOMAIN holders[k] :
            /\ holders' = [holders EXCEPT ![k] = Without(@, @[i].id)]
            /\ shed' = shed \cup {holders[k][i].id}
      BY DEF Expire
    <2>2. k = "key"
      BY <1>1, <2>1 DEF PermitQueue, Keys
    <2> QED  BY <2>1, <2>2
  <1>3. PICK i \in DOMAIN hs : /\ holders' = [holders EXCEPT !["key"] = Without(hs, hs[i].id)]
                               /\ shed' = shed \cup {hs[i].id}
    BY <1>2
  <1>4. /\ hs \in Seq(Holders) /\ Orderly(hs) /\ holders \in [Keys -> Seq(Holders)]
        /\ IsFiniteSet(shed) /\ Cardinality(shed) \in Nat /\ Len(hs) \in Nat
        /\ {"key", "root", "child"} \subseteq Keys
    <2>1. hs \in Seq(Holders) /\ Orderly(hs) /\ holders \in [Keys -> Seq(Holders)]
          /\ IsFiniteSet(shed)
      BY <1>1 DEF ServerInv, Queues, Keys
    <2> QED  BY <2>1, EntryFacts, FS_CardinalityType DEF Keys
  <1> DEFINE v == hs[i].id
             ws == Without(hs, v)
  <1>5. holders'["key"] = ws /\ holders'["root"] = holders["root"]
        /\ holders'["child"] = holders["child"] /\ shed' = shed \cup {v}
    <2> HIDE DEF Keys
    <2> QED  BY <1>3, <1>4
  <1>6. Len(ws) = Len(hs) - 1
    BY <1>4, OutLen
  <1>7. v \in Ids(hs)
    BY DEF Ids
  <1>8. Ids(ws) \subseteq Ids(hs) \ {v}
        /\ \A j \in DOMAIN ws : \E m \in DOMAIN hs : ws[j] = hs[m]
    BY <1>4, OutFacts DEF Ids
  <1> HIDE DEF v, ws
  <1>9. Given(v) /\ v \notin shed
    BY <1>1, <1>7 DEF PermitIds
  <1>10. PermitQueue'
    BY <1>0, <1>1, <1>5, <1>8 DEF PermitQueue, LessOne
  <1>11. Tokens' = Tokens /\ PermitReleases' /\ \A q : Given(q)' <=> Given(q)
    BY <1>0 , <1>1 DEF Tokens, Backing, Succeeded, PermitReleases, Given, Pending, clientVars
  <1>12. PermitIds'
    BY <1>1, <1>5, <1>8, <1>9, <1>11 DEF PermitIds
  <1>13. PermitLate'
    BY <1>0, <1>1, <1>5, <1>7, <1>8, <1>11 DEF PermitLate, LessOne, ZeroId
  <1>14. PermitCount'
    <2>1. Cardinality(shed') = Cardinality(shed) + 1
      BY <1>4, <1>5, <1>9, FS_AddElement
    <2>2. Cardinality(Tokens) \in Nat
      BY <1>1, TokensFacts
    <2> QED  BY <1>1, <1>4, <1>5, <1>6, <1>11, <2>1, <2>2 DEF PermitCount
  <1> QED  BY <1>10, <1>11, <1>12, <1>13, <1>14

KeptInv == BackedInv /\ PermitInv

LEMMA KeptInit == Init => KeptInv
  <1> SUFFICES ASSUME Init PROVE KeptInv
    OBVIOUS
  <1>1. \A h \in Handles : Backing(h) = 0 /\ at[h] = "idle"
    BY DEF Init, Backing
  <1>2. Tokens = {}
    BY <1>1 DEF Tokens
  <1>3. holders["key"] = << >> /\ holders["root"] = << >> /\ holders["child"] = << >>
        /\ shed = {} /\ late = {}
    BY DEF Init, Keys
  <1>4. Cardinality(Tokens) = 0 /\ Cardinality(shed) = 0 /\ Len(holders["key"]) = 0
    BY <1>2, <1>3, FS_EmptySet
  <1>5. PermitQueue /\ PermitIds /\ PermitLate /\ PermitReleases /\ PermitCount
    BY <1>1, <1>3, <1>4 DEF PermitQueue, PermitIds, PermitLate, PermitReleases, PermitCount, Ids
  <1> QED  BY <1>5, BackedInit DEF KeptInv, PermitInv

LEMMA PermitsSame ==
  ASSUME PermitInv, UNCHANGED <<role, size, clientVars, holders, late, shed>>
  PROVE  PermitInv'
  <1> SUFFICES ASSUME Permits'
               PROVE  (PermitQueue /\ PermitLate /\ PermitIds /\ PermitReleases /\ PermitCount)'
    BY DEF PermitInv
  <1>1. PermitQueue /\ PermitLate /\ PermitIds /\ PermitReleases /\ PermitCount
    BY DEF Permits, PermitInv
  <1>2. Tokens' = Tokens /\ PermitReleases' /\ \A q : Given(q)' <=> Given(q)
    BY <1>1 DEF Tokens, Backing, Succeeded, PermitReleases, Given, Pending, clientVars
  <1> QED  BY <1>1, <1>2 DEF PermitQueue, PermitLate, PermitIds, PermitCount, LessOne, ZeroId, Ids

LEMMA KeptStep == KeptInv /\ [Next]_vars => KeptInv'
  <1> SUFFICES ASSUME KeptInv, [Next]_vars PROVE KeptInv'
    OBVIOUS
  <1>0. BackedInv' /\ Base /\ ClientInv /\ PermitInv
    BY BackedStep DEF KeptInv, BackedInv, Base
  <1>1. ASSUME NEW h \in Handles, HandleStep(h) PROVE PermitInv'
    BY <1>0, <1>1, HandlePermits
  <1>2. ASSUME NEW h \in Handles, Execute(h) \/ GiveUp(h) PROVE PermitInv'
    BY <1>0, <1>2, ExecutePermits, GiveUpPermits
  <1>3. ASSUME ExecuteLate \/ Expire PROVE PermitInv'
    BY <1>0, <1>3, ExecuteLatePermits, ExpirePermits
  <1>4. ASSUME UNCHANGED vars PROVE PermitInv'
    BY <1>0, <1>4, PermitsSame DEF vars, serverVars
  <1> QED  BY <1>0, <1>1, <1>2, <1>3, <1>4 DEF Next, ServerStep, KeptInv

(* The places of semaphores are among their permits. *)
LEMMA PermitPlaces ==
  ASSUME ClientInv, ServerInv, ReadIds, PermitInv, Permits, NEW k \in Keys
  PROVE  /\ PlacesAt(k) \in Nat
         /\ PlacesAt(k) =< Len(holders["key"]) + Cardinality(shed)
  <1>1. /\ IsFiniteSet(Tokens) /\ Cardinality(Tokens) \in Nat
        /\ \A h, n : <<h, n>> \in Tokens <=> h \in Handles /\ n \in 1 .. Backing(h)
    BY TokensFacts
  <1>2. ASSUME NEW h \in Handles, NEW n \in 1 .. Places(h)
        PROVE  <<h, n>> \in Tokens
    <2>1. Places(h) = Relied(h) /\ Relied(h) \in Nat /\ Backing(h) \in Nat
          /\ Relied(h) =< Backing(h)
      BY PlacesFacts, ReliedFacts DEF Permits
    <2>2. n \in 1 .. Backing(h)
      BY <2>1
    <2> QED  BY <1>1, <2>2
  <1>3. PlacesOf(k) \in SUBSET Tokens
    BY <1>2 DEF PlacesOf
  <1>4. IsFiniteSet(PlacesOf(k)) /\ Cardinality(PlacesOf(k)) =< Cardinality(Tokens)
        /\ Cardinality(PlacesOf(k)) \in Nat
    BY <1>1, <1>3, FS_Subset, FS_CardinalityType
  <1>5. Cardinality(Tokens) =< Len(holders["key"]) + Cardinality(shed)
    BY DEF PermitInv, PermitCount
  <1>6. Len(holders["key"]) \in Nat /\ Cardinality(shed) \in Nat
    BY EntryFacts, FS_CardinalityType DEF ServerInv, Queues, Keys
  <1>7. PlacesAt(k) = Cardinality(PlacesOf(k))
    BY DEF PlacesAt, PlacesOf
  <1> QED  BY <1>1, <1>4, <1>5, <1>6, <1>7

LEMMA KeptPlacesBacked == KeptInv => PlacesBacked
  <1> SUFFICES ASSUME KeptInv PROVE PlacesBacked
    OBVIOUS
  <1>0. ClientInv /\ ServerInv /\ ReadIds /\ OwnBacked /\ ReadBacked /\ PermitInv
    BY DEF KeptInv, BackedInv, Base
  <1>1. ASSUME NEW h \in Handles, role[h] # "semaphore", Relied(h) > 0, OwnId(h) \notin shed
        PROVE  Entered(KeyOf(h), OwnId(h), Relied(h))
    <2>1. Relied(h) \in Nat /\ Backing(h) \in Nat /\ Relied(h) =< Backing(h)
      BY <1>0, ReliedFacts
    <2>2. KeyOf(h) \in Keys
      BY DEF KeyOf, Keys
    <2>3. PICK i \in DOMAIN holders[KeyOf(h)] : /\ holders[KeyOf(h)][i].id = OwnId(h)
                                                /\ holders[KeyOf(h)][i].depth >= Backing(h)
      BY <1>0, <1>1, <2>1 DEF OwnBacked, Holding
    <2>4. holders[KeyOf(h)][i].depth \in Int
      BY <1>0, <2>2, EntryFacts DEF ServerInv, Queues
    <2> QED  BY <2>1, <2>3, <2>4 DEF Entered
  <1>2. ASSUME NEW h \in Handles, NEW i \in DOMAIN read_locks[h]
        PROVE  read_locks[h][i] \in shed \/ Entered("key", read_locks[h][i], 1)
    <2>1. i \in DOMAIN Readers(h) /\ Readers(h)[i] = read_locks[h][i]
      BY <1>0, ReadersPrefix
    <2> QED  BY <1>0, <2>1 DEF ReadBacked, Holding, Entered
  <1>3. ASSUME Permits
        PROVE  PlacesAt("key") =< Len(holders["key"]) + Cardinality(shed)
    <2>1. "key" \in Keys
      BY DEF Keys
    <2> QED  BY <1>0, <1>3, <2>1, PermitPlaces
  <1> QED  BY <1>1, <1>2, <1>3 DEF PlacesBacked, Permits

LEMMA KeptPlacesBounded == KeptInv => PlacesBounded
  <1> SUFFICES ASSUME KeptInv, NEW h \in Handles, Relied(h) > 0, OwnId(h) \notin shed
               PROVE  PlacesAt(KeyOf(h)) =< Shares(h) + Cardinality(shed)
    BY DEF PlacesBounded
  <1> DEFINE k == KeyOf(h)
             hs == holders[k]
  <1>0. /\ ClientInv /\ ServerInv /\ ReadIds /\ OwnBacked /\ ReadBacked /\ PermitInv /\ Mixed
        /\ k \in Keys /\ size \in Nat /\ role[h] \in Roles
    BY DEF KeptInv, BackedInv, Base, KeyOf, Keys, ClientInv, ClientType, CallerType
  <1>1. hs \in Seq(Holders) /\ Orderly(hs) /\ Len(hs) \in Nat /\ Cardinality(shed) \in Nat
    BY <1>0, EntryFacts, FS_CardinalityType DEF ServerInv, Queues
  <1>2. CASE role[h] = "semaphore"
    <2>1. Permits /\ k = "key"
      BY <1>0, <1>2 DEF Mixed, Permits, KeyOf
    <2>2. PlacesAt(k) =< Len(hs) + Cardinality(shed) /\ PlacesAt(k) \in Nat
      BY <1>0, <2>1, PermitPlaces
    <2>3. Len(hs) =< LessOne(size) + 1
      <3>1. CASE Len(hs) = 0
        BY <1>0, <3>1 DEF LessOne, Less
      <3>2. CASE Len(hs) # 0
        <4>1. 1 \in DOMAIN hs
          BY <1>1, <3>2, EntryFacts
        <4>2. hs[1].count = LessOne(size)
          BY <1>0, <2>1, <4>1 DEF PermitInv, PermitQueue
        <4> QED  BY <1>1, <4>1, <4>2 DEF Orderly, Sane
      <3> QED  BY <3>1, <3>2
    <2>4. Shares(h) = LessOne(size) + 1 /\ LessOne(size) \in Nat
      BY <1>0, <1>2 DEF Shares, LessOne, Less
    <2> QED  BY <1>1, <2>2, <2>3, <2>4
  <1>3. CASE role[h] # "semaphore"
    <2>1. \A g \in Handles : role[g] # "semaphore"
      BY <1>0, <1>3 DEF Mixed
    <2>2. PlacesAt(k) =< Len(hs) + Cardinality(shed) /\ PlacesAt(k) \in Nat
      BY <1>0, <2>1, PlacesCovered
    <2>3. Len(hs) =< CountOf(h) + 1
      <3>1. Backing(h) > 0
        BY <1>0, ReliedFacts
      <3>2. PICK i \in DOMAIN hs : hs[i].id = OwnId(h)
        BY <1>0, <1>3, <3>1 DEF OwnBacked, Holding
      <3> QED  BY <1>1, <3>2 DEF Orderly, Sane, FitsIn
    <2>4. CASE role[h] \in {"childLeaf", "rootLeaf"}
      <3>1. \A g \in Handles : KeyOf(g) = k => Places(g) \in {0, 1}
        <4>1. k # "key"
          BY <2>4 DEF KeyOf
        <4>2. \A g \in Handles : KeyOf(g) = k => role[g] # "rw" /\ role[g] # "semaphore"
          BY <4>1 DEF KeyOf
        <4> QED  BY <1>0, <4>2, PlacesFacts
      <3>2. PlacesOf(k) \in SUBSET (Handles \X {1})
        <4>1. \A n \in {0, 1} : \A i \in 1 .. n : i = 1
          OBVIOUS
        <4> QED  BY <3>1, <4>1 DEF PlacesOf
      <3>3. IsFiniteSet(Handles \X {1}) /\ Cardinality(Handles \X {1}) = Cardinality(Handles)
            /\ Cardinality(Handles) \in Nat
        <4>1. IsFiniteSet(Handles) /\ IsFiniteSet({1}) /\ Cardinality({1}) = 1
          BY HandlesAssumption, FS_Singleton
        <4>2. Cardinality(Handles) \in Nat
          BY <4>1, FS_CardinalityType
        <4>3. /\ IsFiniteSet(Handles \X {1})
              /\ Cardinality(Handles \X {1}) = Cardinality(Handles) * Cardinality({1})
          BY <4>1, FS_Product
        <4>4. \A n \in Nat : n * 1 = n
          OBVIOUS
        <4> QED  BY <4>1, <4>2, <4>3, <4>4
      <3>4. Cardinality(PlacesOf(k)) =< Cardinality(Handles)
        BY <3>2, <3>3, FS_Subset
      <3>5. PlacesAt(k) =< Cardinality(Handles) /\ Shares(h) = Cardinality(Handles)
        BY <2>4, <3>4 DEF PlacesAt, PlacesOf, Shares
      <3> QED  BY <1>1, <2>2, <3>3, <3>5
    <2>5. CASE role[h] \notin {"childLeaf", "rootLeaf"}
      <3>1. Shares(h) = CountOf(h) + 1 /\ CountOf(h) \in Nat
        BY <1>0, <2>5 DEF Shares, CountOf, LessOne, Less
      <3> QED  BY <1>1, <2>2, <2>3, <3>1
    <2> QED  BY <2>4, <2>5
  <1> QED  BY <1>2, <1>3

LEMMA KeptHolds == Spec => []KeptInv
  BY KeptInit, KeptStep, PTL DEF Spec

(* What a caller relies on the server has, as often entered as the caller  *)
(* counts, every lock in read_locks among it, and a permit for each permit *)
(* (acquire and release of the types of blocking primitives, 25-884),      *)
(* unless a hold was dropped unknown to its client: an expired lock, or an *)
(* unlock given up that was executed after all.                            *)
THEOREM PlacesBackedHolds == Spec => []PlacesBacked
  BY KeptHolds, KeptPlacesBacked, PTL

(* So no more callers share a key than the count its lock was made with    *)
(* admits, however commands are delayed, given up and executed late.       *)
THEOREM PlacesBoundedHolds == Spec => []PlacesBounded
  BY KeptHolds, KeptPlacesBounded, PTL

-----------------------------------------------------------------------------
(* The links of a tree: as long as no leaf has won and no link was lost,   *)
(* each is there for a leaf that is yet to undo it.                        *)
Steady == won = {} /\ lostAt \subseteq {"leaf", "acquire", "release"}
UndoesChild(h) ==
  /\ role[h] = "childLeaf"
  /\ \/ at[h] = "childCheck" /\ Linked(h)
     \/ at[h] \in {"parentCheck", "leaf"}
     \/ at[h] \in {"undoChild", "undoChildOnly"} /\ reply[h] = "none"
UndoesParent(h) ==
  /\ role[h] = "childLeaf"
  /\ \/ at[h] = "parentCheck" /\ Linked(h)
     \/ at[h] \in {"leaf", "undoChild"}
     \/ at[h] = "undoParent" /\ reply[h] = "none"
LinksUndone ==
  /\ \A x \in late : x.req.id \notin Links
  /\ KeyId("root") \in Ids(holders["child"]) => \E h \in Handles : UndoesChild(h)
  /\ KeyId("child") \in Ids(holders["root"]) => \E h \in Handles : UndoesParent(h)
LinkInv == Steady => LinksUndone

(* A leaf goes on as long as it has something to undo. *)
LEMMA UndoesStays ==
  ASSUME ClientInv, NEW h \in Handles, HandleStep(h), won' = {}
  PROVE  (UndoesChild(h) => UndoesChild(h)') /\ (UndoesParent(h) => UndoesParent(h)')
  <1> SUFFICES ASSUME UndoesChild(h) \/ UndoesParent(h)
               PROVE  (UndoesChild(h) => UndoesChild(h)') /\ (UndoesParent(h) => UndoesParent(h)')
    OBVIOUS
  <1>0. /\ role[h] = "childLeaf" /\ role' = role
        /\ at[h] \in {"childCheck", "parentCheck", "leaf", "undoChild", "undoChildOnly", "undoParent"}
        /\ at \in [Handles -> Spots] /\ reply \in [Handles -> ReplyCodes \cup {"none"}]
    BY StepKinds DEF UndoesChild, UndoesParent, ClientInv, ClientType
  <1>1. \/ LeafChildChecked(h) \/ LeafParentChecked(h) \/ LeafAcquired(h) \/ LeafFailed(h)
        \/ LeafUndoParent(h) \/ LeafUndone(h)
    <2>1. \A place, r : ~Begin(h, place, r)
      BY <1>0 DEF Begin
    <2> QED  BY <1>0, <2>1
        DEF HandleStep, Acquire, AcquireReturn, Release, ReleaseReturn, SemaphoreAcquire,
            SemaphoreRelease, AcquireRead, AcquireReadReturn, ReleaseRead, ReleaseReadReturn,
            LeafAcquire, LeafRelease, EventChange, EventChanged, IsSet, IsSetReturn, Answered
  <1>2. \A place, r : Send(h, place, r) => at'[h] = place /\ reply'[h] = "none"
    BY <1>0 DEF Send
  <1>3. CASE LeafChildChecked(h)
    BY <1>0, <1>2, <1>3 DEF LeafChildChecked, Answered, UndoesChild, UndoesParent
  <1>4. CASE LeafParentChecked(h)
    BY <1>0, <1>2, <1>4 DEF LeafParentChecked, Answered, UndoesChild, UndoesParent
  <1>5. CASE LeafAcquired(h)
    BY <1>5 DEF LeafAcquired
  <1>6. CASE LeafFailed(h)
    BY <1>0, <1>2, <1>6 DEF LeafFailed, Answered, UndoesChild, UndoesParent
  <1>7. CASE LeafUndoParent(h)
    BY <1>0, <1>2, <1>7 DEF LeafUndoParent, Answered, UndoesChild, UndoesParent
  <1>8. CASE LeafUndone(h)
    BY <1>0, <1>8 DEF LeafUndone, Answered, UndoesChild, UndoesParent
  <1> QED  BY <1>1, <1>3, <1>4, <1>5, <1>6, <1>7, <1>8

(* Who waits for a command on a link. *)
LEMMA LinkWaits ==
  ASSUME ClientInv, NEW h \in Handles, at[h] # "idle"
  PROVE  /\ at[h] \in {"leaf", "acquire", "release"} => req[h].id \notin Links
         /\ req[h].key = "child" /\ req[h].id = KeyId("root") =>
              /\ role[h] = "childLeaf"
              /\ \/ at[h] = "childCheck" /\ req[h].cmd = "lock"
                 \/ at[h] \in {"undoChild", "undoChildOnly"} /\ req[h].cmd = "unlock"
         /\ req[h].key = "root" /\ req[h].id = KeyId("child") =>
              /\ role[h] = "childLeaf"
              /\ \/ at[h] = "parentCheck" /\ req[h].cmd = "lock"
                 \/ at[h] = "undoParent" /\ req[h].cmd = "unlock"
         /\ role[h] = "childLeaf" /\ at[h] \in {"undoChild", "undoChildOnly"} =>
              /\ req[h].key = "child" /\ req[h].id = KeyId("root") /\ req[h].cmd = "unlock"
              /\ req[h].mode = "own"
         /\ role[h] = "childLeaf" /\ at[h] = "undoParent" =>
              /\ req[h].key = "root" /\ req[h].id = KeyId("child") /\ req[h].cmd = "unlock"
              /\ req[h].mode = "own"
  <1>1. Waits(h, at[h], req[h]) /\ calls[h] # 0
    BY WaitsFit DEF ClientInv, Asked
  <1>a. \A cmd, k, id, count, rcount, mode :
          LET r == Request(cmd, k, id, count, rcount, mode)
          IN  r.cmd = cmd /\ r.key = k /\ r.id = id /\ r.mode = mode
    BY DEF Request
  <1>b. /\ OwnId(h) \notin Links /\ <<h, calls[h]>> \notin Links /\ ZeroId \notin Links
        /\ KeyId("key") \notin Links /\ KeyId("root") \in Links /\ KeyId("child") \in Links
        /\ KeyId("root") # KeyId("child")
    BY <1>1, ForeignIds, HandlesAssumption DEF Links, KeyId, ZeroId, Keys
  <1>2. CASE LockWaits(h, at[h], req[h])
    BY <1>2, <1>a, <1>b DEF LockWaits, OwnRequest, OneLock
  <1>3. CASE ReadWaits(h, at[h], req[h])
    BY <1>3, <1>a, <1>b DEF ReadWaits
  <1>4. CASE LeafWaits(h, at[h], req[h])
    <2>1. \A cmd \in {"lock", "unlock"} :
            /\ ChildLink(cmd).cmd = cmd /\ ChildLink(cmd).id = KeyId("root")
            /\ ChildLink(cmd).key = "child"
            /\ cmd = "unlock" => ChildLink(cmd).mode = "own" /\ ParentLink(cmd).mode = "own"
            /\ ParentLink(cmd).cmd = cmd /\ ParentLink(cmd).id = KeyId("child")
            /\ ParentLink(cmd).key = "root"
      BY <1>a DEF ChildLink, ParentLink
    <2> QED  BY <1>4, <1>a, <1>b, <2>1 DEF LeafWaits, OwnRequest
  <1>5. CASE EventWaits(h, at[h], req[h])
    <2>1. EventLock(h).key = "key"
      BY <1>a DEF EventLock
    <2>2. EventUnlock(h).key = "key"
      BY DEF EventUnlock, EventLock, Request
    <2>3. \A id : [EventProbe(h) EXCEPT !.id = id].key = "key"
      BY DEF EventProbe, Request
    <2> QED  BY <1>5, <2>1, <2>2, <2>3 DEF EventWaits, EventCommand, EventRoles
  <1>6. CASE SemaphoreWaits(h, at[h], req[h])
    BY <1>6, <1>a, <1>b DEF SemaphoreWaits
  <1> QED  BY <1>1, <1>2, <1>3, <1>4, <1>5, <1>6 DEF Waits

(* Only a lock command that succeeds adds its id, to its key. *)
LEMMA ExecutedIds ==
  ASSUME Queues, NEW r \in LockCommands, Fits(r), NEW k \in Keys
  PROVE  \/ Ids(Executed(r)[k]) \subseteq Ids(holders[k])
         \/ /\ r.key = k /\ r.cmd = "lock" /\ r.mode = "keep"
            /\ ResultOf(holders[k], r) = "succed"
            /\ Ids(Executed(r)[k]) \subseteq Ids(holders[k]) \cup {r.id}
  <1>1. /\ r.key \in Keys /\ \A q \in Keys : holders[q] \in Seq(Holders) /\ Orderly(holders[q])
        /\ holders \in [Keys -> Seq(Holders)] /\ r.cmd \in {"lock", "unlock"}
        /\ {"key", "root", "child"} \subseteq Keys
    BY DEF LockCommands, Queues, Keys
  <1>2. CASE Executed(r) = [holders EXCEPT ![r.key] = AfterOf(holders[r.key], r)]
    <2>1. CASE k # r.key
      BY <1>1, <1>2, <2>1
    <2>2. CASE k = r.key
      <3>1. Executed(r)[k] = AfterOf(holders[k], r)
        BY <1>1, <1>2, <2>2
      <3>2. r.cmd = "lock" => /\ r.mode # "keep" \/ ResultOf(holders[k], r) # "succed"
                                 => AfterOf(holders[k], r) = holders[k]
                              /\ Ids(AfterOf(holders[k], r)) \subseteq Ids(holders[k]) \cup {r.id}
        BY <1>1, LockHolding, AfterIds
      <3>3. r.cmd = "unlock" => Ids(AfterOf(holders[k], r)) \subseteq Ids(holders[k])
        BY <1>1, AfterIds
      <3> QED  BY <1>1, <2>2, <3>1, <3>2, <3>3
    <2> QED  BY <2>1, <2>2
  <1>3. CASE Executed(r) = [holders EXCEPT !["child"] = << >>,
                                           !["root"] = Without(@, KeyId("child"))]
    <2> DEFINE rs == holders["root"]
               link == KeyId("child")
    <2>1. Ids(Without(rs, link)) \subseteq Ids(rs)
      <3>1. rs \in Seq(Holders)
        BY <1>1
      <3> HIDE DEF rs, link
      <3> QED  BY <3>1, OutFacts DEF Ids
    <2>2. Executed(r) = [holders EXCEPT !["child"] = << >>, !["root"] = Without(rs, link)]
      BY <1>3
    <2> HIDE DEF link, Keys
    <2>3. /\ Executed(r)["child"] = << >> /\ Executed(r)["root"] = Without(rs, link)
          /\ \A q \in Keys : q \notin {"child", "root"} => Executed(r)[q] = holders[q]
      BY <1>1, <2>2
    <2>4. Ids(<< >>) = {}
      BY DEF Ids
    <2> QED  BY <2>1, <2>3, <2>4
  <1> QED  BY <1>2, <1>3, ExecutedCases

(* An unlock that names its id leaves it nowhere at its key. *)
LEMMA UnlockedGone ==
  ASSUME Queues, NEW r \in LockCommands, r.cmd = "unlock", r.mode = "own", r.id \notin OwnIds,
         NEW k \in Keys, r.key = k
  PROVE  r.id \notin Ids(Executed(r)[k])
  <1> DEFINE hs == holders[k]
             as == AfterOf(hs, r)
  <1>1. hs \in Seq(Holders) /\ Orderly(hs) /\ holders \in [Keys -> Seq(Holders)]
    BY DEF Queues
  <1>2. Executed(r) = [holders EXCEPT ![k] = as]
    BY DEF Executed
  <1>3. Executed(r)[k] = as
    BY <1>1, <1>2
  <1>4. ResultOf(hs, r) = UnlockResult(hs, r)
    BY DEF ResultOf
  <1>5. CASE Holds(hs, r.id)
    <2>1. ResultOf(hs, r) = "succed" /\ Victim(hs, r) = r.id
      BY <1>4, <1>5 DEF UnlockResult, Victim
    <2>2. ~Holds(as, r.id)
      BY <1>1, <2>1, UnlockHolding
    <2> QED  BY <1>3, <2>2 DEF Holds, Ids
  <1>6. CASE ~Holds(hs, r.id)
    <2>1. ResultOf(hs, r) # "succed"
      BY <1>4, <1>6 DEF UnlockResult
    <2>2. as = hs
      BY <1>1, <2>1, UnlockHolding
    <2> QED  BY <1>3, <1>6, <2>2 DEF Holds, Ids
  <1> QED  BY <1>5, <1>6

(* A step of a handle leaves the server and the links it lost alone, and   *)
(* whoever has to undo a link still has to.                                *)
LEMMA HandleLinks ==
  ASSUME ClientInv, LinkInv, NEW h \in Handles, HandleStep(h)
  PROVE  LinkInv'
  <1> SUFFICES ASSUME Steady' PROVE LinksUndone'
    BY DEF LinkInv
  <1>1. UNCHANGED <<role, holders, late, lostAt>>
    BY StepKinds DEF serverVars
  <1>2. won' = won \/ won' = won \cup {h}
    BY DEF HandleStep, Acquire, AcquireReturn, Release, ReleaseReturn, SemaphoreAcquire,
           SemaphoreRelease, AcquireRead, AcquireReadReturn, ReleaseRead, ReleaseReadReturn,
           LeafAcquire, LeafRelease, EventChange, EventChanged, IsSet, IsSetReturn,
           LeafChildChecked, LeafParentChecked, LeafAcquired, LeafFailed, LeafUndoParent, LeafUndone
  <1>3. won' = {} /\ LinksUndone
    BY <1>1, <1>2 DEF Steady, LinkInv
  <1>4. Only(h)
    BY ClientStep
  <1>5. ASSUME NEW q \in Handles
        PROVE  (UndoesChild(q) => UndoesChild(q)') /\ (UndoesParent(q) => UndoesParent(q)')
    <2>1. CASE q = h
      BY <1>3, <2>1, UndoesStays
    <2>2. CASE q # h
      BY <1>1, <1>4, <2>2 DEF Only, UndoesChild, UndoesParent, Linked
    <2> QED  BY <2>1, <2>2
  <1> QED  BY <1>1, <1>3, <1>5 DEF LinksUndone, KeyId

LEMMA GiveUpLinks ==
  ASSUME ClientInv, LinkInv, NEW h \in Handles, GiveUp(h)
  PROVE  LinkInv'
  <1> SUFFICES ASSUME Steady' PROVE LinksUndone'
    BY DEF LinkInv
  <1>0. /\ at \in [Handles -> Spots] /\ reply \in [Handles -> ReplyCodes \cup {"none"}]
        /\ at[h] # "idle" /\ UNCHANGED <<role, at, holders, won>>
        /\ reply' = [reply EXCEPT ![h] = "error"]
    BY DEF ClientInv, ClientType, GiveUp, Asked
  <1>1. /\ at[h] \in {"leaf", "acquire", "release"} /\ LinksUndone
    BY <1>0 DEF Steady, GiveUp, LinkInv
  <1>2. req[h].id \notin Links
    BY <1>0, <1>1, LinkWaits
  <1>3. \A x \in late' : x.req.id \notin Links
    BY <1>1, <1>2 DEF LinksUndone, GiveUp
  <1>4. ASSUME NEW q \in Handles
        PROVE  (UndoesChild(q) => UndoesChild(q)') /\ (UndoesParent(q) => UndoesParent(q)')
    BY <1>0, <1>1 DEF UndoesChild, UndoesParent, Linked
  <1> QED  BY <1>0, <1>1, <1>3, <1>4 DEF LinksUndone, KeyId, Links

(* A command on another id puts no link. *)
LEMMA ExecuteLateLinks ==
  ASSUME Base, LinkInv, ExecuteLate
  PROVE  LinkInv'
  <1> SUFFICES ASSUME Steady' PROVE LinksUndone'
    BY DEF LinkInv
  <1>1. UNCHANGED <<role, at, reply, won, lostAt>>
    BY DEF ExecuteLate, clientVars
  <1>2. LinksUndone
    BY <1>1 DEF Steady, LinkInv
  <1>3. PICK x \in late : late' = late \ {x} /\ holders' = Executed(x.req)
    BY DEF ExecuteLate
  <1>4. x.req \in LockCommands /\ Fits(x.req) /\ Queues /\ x.req.id \notin Links
    BY <1>2, <1>3 DEF Base, ServerInv, LinksUndone
  <1>5. \A k \in Keys : Ids(holders'[k]) \subseteq Ids(holders[k]) \cup {x.req.id}
    BY <1>3, <1>4, ExecutedIds
  <1>6. \A id \in Links : \A k \in Keys : id \in Ids(holders'[k]) => id \in Ids(holders[k])
    BY <1>4, <1>5
  <1>7. "child" \in Keys /\ "root" \in Keys /\ KeyId("root") \in Links /\ KeyId("child") \in Links
    BY DEF Keys, Links
  <1>8. \A h \in Handles : (UndoesChild(h)' <=> UndoesChild(h)) /\ (UndoesParent(h)' <=> UndoesParent(h))
    BY <1>1 DEF UndoesChild, UndoesParent, Linked
  <1> QED  BY <1>2, <1>3, <1>6, <1>7, <1>8 DEF LinksUndone, KeyId, Links

LEMMA ExpireLinks ==
  ASSUME Base, LinkInv, Expire
  PROVE  LinkInv'
  <1> SUFFICES ASSUME Steady' PROVE LinksUndone'
    BY DEF LinkInv
  <1>1. UNCHANGED <<role, at, reply, won, lostAt, late>>
    BY DEF Expire, clientVars
  <1>2. LinksUndone
    BY <1>1 DEF Steady, LinkInv
  <1>3. PICK k \in Keys : \E i \in DOMAIN holders[k] :
          holders' = [holders EXCEPT ![k] = Without(@, @[i].id)]
    BY DEF Expire
  <1>4. PICK i \in DOMAIN holders[k] : holders' = [holders EXCEPT ![k] = Without(@, @[i].id)]
    BY <1>3
  <1> DEFINE v == holders[k][i].id
             ws == Without(holders[k], v)
  <1>5. holders \in [Keys -> Seq(Holders)] /\ holders' = [holders EXCEPT ![k] = ws]
    BY <1>4 DEF Base, ServerInv, Queues
  <1> HIDE DEF v
  <1>6. Ids(ws) \subseteq Ids(holders[k])
    BY <1>5, OutFacts DEF Ids
  <1> HIDE DEF ws
  <1>7. \A q \in Keys : Ids(holders'[q]) \subseteq Ids(holders[q])
    BY <1>5, <1>6
  <1>8. "child" \in Keys /\ "root" \in Keys
    BY DEF Keys
  <1>9. \A h \in Handles : (UndoesChild(h)' <=> UndoesChild(h)) /\ (UndoesParent(h)' <=> UndoesParent(h))
    BY <1>1 DEF UndoesChild, UndoesParent, Linked
  <1> QED  BY <1>1, <1>2, <1>7, <1>8, <1>9 DEF LinksUndone, KeyId, Links

(* A link that is there after a command was executed is there for a leaf   *)
(* that has to undo it: the one whose command put it, or one before.       *)
LEMMA ExecuteLinks ==
  ASSUME Base, LinkInv, NEW h \in Handles, Execute(h)
  PROVE  LinkInv'
  <1> SUFFICES ASSUME Steady' PROVE LinksUndone'
    BY DEF LinkInv
  <1> DEFINE r == req[h]
  <1>0. /\ ClientInv /\ Queues /\ at[h] # "idle" /\ reply[h] = "none"
        /\ reply \in [Handles -> ReplyCodes \cup {"none"}]
        /\ UNCHANGED <<role, at, req, won, lostAt, late>>
        /\ reply' = [reply EXCEPT ![h] = ResultOf(holders[r.key], r)]
        /\ holders' = Executed(r)
    BY DEF Base, ServerInv, ClientInv, ClientType, Execute, Asked
  <1>1. LinksUndone
    BY <1>0 DEF Steady, LinkInv
  <1>2. r \in LockCommands /\ Fits(r)
    BY <1>0, WaitsFit
  <1>3. /\ "child" \in Keys /\ "root" \in Keys
        /\ KeyId("root") \notin OwnIds /\ KeyId("child") \notin OwnIds
    BY ForeignIds DEF Keys
  <1>4. \A q \in Handles \ {h} : (UndoesChild(q) => UndoesChild(q)') /\ (UndoesParent(q) => UndoesParent(q)')
    BY <1>0 DEF UndoesChild, UndoesParent, Linked
  <1>5. reply'[h] = ResultOf(holders[r.key], r)
    BY <1>0
  <1>6. ASSUME KeyId("root") \in Ids(holders'["child"])
        PROVE  \E q \in Handles : UndoesChild(q)'
    <2>1. CASE KeyId("root") \in Ids(holders["child"])
      <3>1. PICK q \in Handles : UndoesChild(q)
        BY <1>1, <2>1 DEF LinksUndone
      <3>2. CASE q # h
        BY <1>4, <3>1, <3>2
      <3>3. CASE q = h
        <4>1. role[h] = "childLeaf" /\ at[h] \in {"parentCheck", "leaf", "undoChild", "undoChildOnly"}
          BY <1>0, <3>1, <3>3 DEF UndoesChild, Linked
        <4>2. at[h] \notin {"undoChild", "undoChildOnly"}
          <5>1. SUFFICES ASSUME at[h] \in {"undoChild", "undoChildOnly"} PROVE FALSE
            OBVIOUS
          <5>2. r.key = "child" /\ r.id = KeyId("root") /\ r.cmd = "unlock" /\ r.mode = "own"
            BY <1>0, <4>1, <5>1, LinkWaits
          <5> QED  BY <1>0, <1>2, <1>3, <1>6, <5>2, UnlockedGone
        <4> QED  BY <1>0, <4>1, <4>2 DEF UndoesChild
      <3> QED  BY <3>2, <3>3
    <2>2. CASE KeyId("root") \notin Ids(holders["child"])
      <3>1. /\ r.key = "child" /\ r.cmd = "lock" /\ ResultOf(holders["child"], r) = "succed"
            /\ r.id = KeyId("root")
        BY <1>0, <1>2, <1>3, <1>6, <2>2, ExecutedIds
      <3>2. role[h] = "childLeaf" /\ at[h] = "childCheck"
        BY <1>0, <3>1, LinkWaits
      <3> QED  BY <1>0, <1>5, <3>1, <3>2 DEF UndoesChild, Linked
    <2> QED  BY <2>1, <2>2
  <1>7. ASSUME KeyId("child") \in Ids(holders'["root"])
        PROVE  \E q \in Handles : UndoesParent(q)'
    <2>1. CASE KeyId("child") \in Ids(holders["root"])
      <3>1. PICK q \in Handles : UndoesParent(q)
        BY <1>1, <2>1 DEF LinksUndone
      <3>2. CASE q # h
        BY <1>4, <3>1, <3>2
      <3>3. CASE q = h
        <4>1. role[h] = "childLeaf" /\ at[h] \in {"leaf", "undoChild", "undoParent"}
          BY <1>0, <3>1, <3>3 DEF UndoesParent, Linked
        <4>2. at[h] # "undoParent"
          <5>1. SUFFICES ASSUME at[h] = "undoParent" PROVE FALSE
            OBVIOUS
          <5>2. r.key = "root" /\ r.id = KeyId("child") /\ r.cmd = "unlock" /\ r.mode = "own"
            BY <1>0, <4>1, <5>1, LinkWaits
          <5> QED  BY <1>0, <1>2, <1>3, <1>7, <5>2, UnlockedGone
        <4> QED  BY <1>0, <4>1, <4>2 DEF UndoesParent
      <3> QED  BY <3>2, <3>3
    <2>2. CASE KeyId("child") \notin Ids(holders["root"])
      <3>1. /\ r.key = "root" /\ r.cmd = "lock" /\ ResultOf(holders["root"], r) = "succed"
            /\ r.id = KeyId("child")
        BY <1>0, <1>2, <1>3, <1>7, <2>2, ExecutedIds
      <3>2. role[h] = "childLeaf" /\ at[h] = "parentCheck"
        BY <1>0, <3>1, LinkWaits
      <3> QED  BY <1>0, <1>5, <3>1, <3>2 DEF UndoesParent, Linked
    <2> QED  BY <2>1, <2>2
  <1> QED  BY <1>0, <1>1, <1>6, <1>7 DEF LinksUndone, KeyId

LEMMA LinkInit == Init => LinkInv
  <1> SUFFICES ASSUME Init PROVE LinksUndone
    BY DEF LinkInv
  <1>1. late = {} /\ holders = [k \in Keys |-> << >>] /\ "child" \in Keys /\ "root" \in Keys
    BY DEF Init, Keys
  <1>2. holders["child"] = << >> /\ holders["root"] = << >>
    BY <1>1
  <1> QED  BY <1>1, <1>2 DEF LinksUndone, Ids

LEMMA LinkStep == Base /\ LinkInv /\ [Next]_vars => LinkInv'
  <1> SUFFICES ASSUME Base, LinkInv, [Next]_vars PROVE LinkInv'
    OBVIOUS
  <1>0. ClientInv
    BY DEF Base
  <1>1. ASSUME NEW h \in Handles, HandleStep(h) PROVE LinkInv'
    BY <1>0, <1>1, HandleLinks
  <1>2. ASSUME NEW h \in Handles, Execute(h) \/ GiveUp(h) PROVE LinkInv'
    BY <1>0, <1>2, ExecuteLinks, GiveUpLinks
  <1>3. ASSUME ExecuteLate \/ Expire PROVE LinkInv'
    BY <1>3, ExecuteLateLinks, ExpireLinks
  <1>4. ASSUME UNCHANGED vars PROVE LinkInv'
    BY <1>4 DEF vars, serverVars, clientVars, LinkInv, Steady, LinksUndone, UndoesChild, UndoesParent,
                Linked, Ids, KeyId, Links
  <1> QED  BY <1>1, <1>2, <1>3, <1>4 DEF Next, ServerStep

LEMMA LinksGone == LinkInv => FailedLeafUnlinks
  <1> SUFFICES ASSUME LinkInv, \A h \in Handles : at[h] = "idle", Steady
               PROVE  ~Holds(holders["child"], KeyId("root")) /\ ~Holds(holders["root"], KeyId("child"))
    BY DEF FailedLeafUnlinks, Steady
  <1>1. \A h \in Handles : ~UndoesChild(h) /\ ~UndoesParent(h)
    BY DEF UndoesChild, UndoesParent
  <1>2. KeyId("root") \notin Ids(holders["child"]) /\ KeyId("child") \notin Ids(holders["root"])
    BY <1>1 DEF LinkInv, LinksUndone
  <1> QED  BY <1>2 DEF Ids, Holds

(* A leaf that fails to acquire leaves none of its two links behind        *)
(* (TreeLeafLock's acquire and the unlocks after a failure in blocking     *)
(* primitives): as long as no leaf of any tree has succeeded, and none of  *)
(* the commands on links was given up, no link remains at rest.            *)
THEOREM FailedLeafUnlinksHolds == Spec => []FailedLeafUnlinks
  <1>1. Init => Base /\ LinkInv
    BY BaseInit, LinkInit
  <1>2. Base /\ LinkInv /\ [Next]_vars => Base' /\ LinkInv'
    BY BaseStep, LinkStep
  <1> QED  BY <1>1, <1>2, LinksGone, PTL DEF Spec

-----------------------------------------------------------------------------
(* Events.  All handles are of one kind: unlocked means set for those made *)
(* set, and unset for those made unset.                                    *)
EventOf(own) == (\E h \in Handles : role[h] = own) /\ \A h \in Handles : role[h] = own
EventCount(own) == IF own = "eventSet" THEN 0 ELSE 1
Tells(hs, own) == IF (hs = << >>) = (own = "eventSet") THEN "set" ELSE "unset"
Changing(r, own) ==
  /\ r.key = "key" /\ r.id = KeyId("key") /\ r.count = EventCount(own)
  /\ \/ r.cmd = "lock" /\ r.mode = "keep" /\ r.rcount = 0
     \/ r.cmd = "unlock" /\ r.mode = "own"
Probing(r, own) ==
  /\ r.key = "key" /\ r.id # KeyId("key") /\ r.count = EventCount(own) /\ r.rcount = 0
  /\ r.cmd = "lock" /\ r.mode = IF own = "eventSet" THEN "probe" ELSE "probeLocked"
EventQueue(hs, own) ==
  \A i \in DOMAIN hs : hs[i].id = KeyId("key") /\ hs[i].count = EventCount(own)

Changes(h) == at[h] \in {"set", "clear"}
Wanted(h) == IF at[h] = "set" THEN "set" ELSE "unset"
Fine(h) == reply[h] \in {"succed", IF req[h].cmd = "lock" THEN "locked" ELSE "unlock_error"}
Told(h) == CASE reply[h] = "succed"                     -> "set"
             [] reply[h] \in {"timeout", "unown_error"} -> "unset"
             [] OTHER                                   -> "none"

EventLate(own) == \A x \in late : Changing(x.req, own) \/ Probing(x.req, own)
(* Who changes an event alone finds it as it wanted; what is known of an   *)
(* event is so, and nobody is changing it; and who asked when something    *)
(* was known is told that.                                                 *)
AloneTells(own) ==
  \A h \in alone : /\ Changes(h) /\ \A q \in Handles \ {h} : ~Changes(q)
                   /\ Fine(h) => Tells(holders["key"], own) = Wanted(h)
TruthTells(own) ==
  truth # "unknown" => Tells(holders["key"], own) = truth /\ \A h \in Handles : ~Changes(h)
AskedTells ==
  \A h \in Handles : asked[h] # "unknown" =>
    /\ asked[h] = truth
    /\ at[h] = "isSet" => answer[h] = "none" /\ Told(h) \in {"none", asked[h]}
    /\ at[h] # "isSet" => answer[h] \in {"none", asked[h]}
EventTyped ==
  /\ truth \in {"set", "unset", "unknown"} /\ alone \subseteq Handles
  /\ asked \in [Handles -> {"set", "unset", "unknown"}]
  /\ answer \in [Handles -> {"set", "unset", "none"}]
  /\ \A h \in Handles : answer[h] # "none" => role[h] \in EventRoles
EventInv ==
  /\ EventTyped
  /\ \A own \in EventRoles : EventOf(own) =>
       /\ EventQueue(holders["key"], own) /\ EventLate(own)
       /\ AloneTells(own) /\ TruthTells(own) /\ AskedTells

(* The lock of an event has one holder at most. *)
LEMMA EventLen ==
  ASSUME NEW hs \in Seq(Holders), Orderly(hs), NEW own \in EventRoles, EventQueue(hs, own)
  PROVE  hs = << >> \/ (Len(hs) = 1 /\ 1 \in DOMAIN hs /\ hs # << >>)
  <1>1. Len(hs) \in Nat /\ DOMAIN hs = 1 .. Len(hs)
    BY EntryFacts
  <1>2. ~(Len(hs) > 1)
    <2>1. SUFFICES ASSUME Len(hs) > 1 PROVE FALSE
      OBVIOUS
    <2>2. 1 \in DOMAIN hs /\ 2 \in DOMAIN hs
      BY <1>1, <2>1
    <2>3. hs[1].id = hs[2].id
      BY <2>2 DEF EventQueue
    <2> QED  BY <2>2, <2>3 DEF Orderly, Sane
  <1> QED  BY <1>1, <1>2

(* A set or a clear ends in the state it asks for, whether it changed the  *)
(* state or found it so.                                                   *)
LEMMA ChangeLocks ==
  ASSUME NEW hs \in Seq(Holders), Orderly(hs), NEW own \in EventRoles, EventQueue(hs, own),
         NEW r \in LockCommands, Changing(r, own)
  PROVE  /\ EventQueue(AfterOf(hs, r), own)
         /\ r.cmd = "lock" => AfterOf(hs, r) # << >> /\ ResultOf(hs, r) \in {"succed", "locked"}
         /\ r.cmd = "unlock" =>
              AfterOf(hs, r) = << >> /\ ResultOf(hs, r) \in {"succed", "unlock_error"}
  <1>0. hs = << >> \/ (Len(hs) = 1 /\ 1 \in DOMAIN hs /\ hs # << >>)
    BY EventLen
  <1>1. Len(hs) \in Nat /\ DOMAIN hs = 1 .. Len(hs)
    BY EntryFacts
  <1>k. KeyId("key") \notin OwnIds
    BY ForeignIds DEF Keys
  <1>2. CASE r.cmd = "lock"
    <2>0. AfterOf(hs, r) = AfterLock(hs, r) /\ ResultOf(hs, r) = LockResult(hs, r)
          /\ r.mode = "keep" /\ r.id = KeyId("key") /\ r.count = EventCount(own) /\ r.rcount = 0
      BY <1>2 DEF AfterOf, ResultOf, Changing
    <2>1. CASE hs = << >>
      <3>1. ~Holds(hs, r.id)
        BY <1>1, <2>1 DEF Holds
      <3>2. Admits(hs, r)
        BY <1>1, <2>0, <2>1, <3>1 DEF Admits, EventCount
      <3>3. AfterOf(hs, r) = Append(hs, [id |-> r.id, count |-> r.count, depth |-> 1])
        BY <2>0, <3>1, <3>2 DEF AfterLock, LockResult
      <3>4. AfterOf(hs, r) = << [id |-> r.id, count |-> r.count, depth |-> 1] >>
        BY <2>1, <3>3
      <3> QED  BY <1>2, <2>0, <3>2, <3>4 DEF EventQueue, LockResult
    <2>2. CASE Len(hs) = 1 /\ 1 \in DOMAIN hs /\ hs # << >>
      <3>1. hs[1].id = r.id /\ Holds(hs, r.id)
        BY <2>0, <2>2 DEF EventQueue, Holds
      <3>2. ~Admits(hs, r) /\ ~Reenters(hs, r)
        BY <1>1, <2>0, <3>1, EntryFacts DEF Admits, Reenters, Orderly, Sane
      <3> QED  BY <1>2, <2>0, <2>2, <3>1, <3>2 DEF LockResult, AfterLock
    <2> QED  BY <1>0, <2>1, <2>2
  <1>3. CASE r.cmd = "unlock"
    <2>0. AfterOf(hs, r) = AfterUnlock(hs, r) /\ ResultOf(hs, r) = UnlockResult(hs, r)
          /\ r.mode = "own" /\ r.id = KeyId("key")
      BY <1>3 DEF AfterOf, ResultOf, Changing
    <2>1. CASE hs = << >>
      <3>1. ~Holds(hs, r.id)
        BY <1>1, <2>1 DEF Holds
      <3> QED  BY <1>3, <2>0, <2>1, <3>1 DEF UnlockResult, AfterUnlock
    <2>2. CASE Len(hs) = 1 /\ 1 \in DOMAIN hs /\ hs # << >>
      <3>1. Holds(hs, r.id)
        BY <2>0, <2>2 DEF EventQueue, Holds
      <3>2. ResultOf(hs, r) = "succed" /\ Victim(hs, r) = KeyId("key")
        BY <2>0, <3>1 DEF UnlockResult, Victim
      <3>a. Victim(hs, r) \notin OwnIds
        BY <1>k, <3>2
      <3>b. Len(AfterOf(hs, r)) = Len(hs) - 1
        BY <1>3, <3>2, <3>a, UnlockHolding
      <3>3. Len(AfterOf(hs, r)) = 0
        BY <2>2, <3>b
      <3>4. AfterOf(hs, r) \in Seq(Holders)
        BY ServerType
      <3>5. AfterOf(hs, r) = << >>
        BY <3>3, <3>4
      <3> QED  BY <1>3, <3>2, <3>5 DEF EventQueue
    <2> QED  BY <1>0, <2>1, <2>2
  <1> QED  BY <1>2, <1>3 DEF Changing

(* A probe keeps nothing, and its result is the state. *)
LEMMA ProbeTells ==
  ASSUME NEW hs \in Seq(Holders), Orderly(hs), NEW own \in EventRoles, EventQueue(hs, own),
         NEW r \in LockCommands, Probing(r, own)
  PROVE  /\ AfterOf(hs, r) = hs
         /\ ResultOf(hs, r) = IF Tells(hs, own) = "set" THEN "succed" ELSE "timeout"
  <1>0. hs = << >> \/ (Len(hs) = 1 /\ 1 \in DOMAIN hs /\ hs # << >>)
    BY EventLen
  <1>1. Len(hs) \in Nat /\ DOMAIN hs = 1 .. Len(hs)
    BY EntryFacts
  <1>2. r.cmd = "lock" /\ r.mode \in {"probe", "probeLocked"}
        /\ r.mode = (IF own = "eventSet" THEN "probe" ELSE "probeLocked")
        /\ r.count = EventCount(own) /\ r.id # KeyId("key")
    BY DEF Probing
  <1>3. AfterOf(hs, r) = AfterLock(hs, r) /\ ResultOf(hs, r) = LockResult(hs, r)
    BY <1>2 DEF AfterOf, ResultOf
  <1>4. ~Holds(hs, r.id) /\ ~Reenters(hs, r)
    BY <1>2 DEF Holds, Reenters, EventQueue
  <1>5. Admits(hs, r) <=> Tells(hs, own) = "set"
    <2>1. CASE own = "eventSet"
      <3>1. CASE hs = << >>
        BY <1>1, <1>2, <1>4, <2>1, <3>1 DEF Admits, Tells, EventCount
      <3>2. CASE Len(hs) = 1 /\ 1 \in DOMAIN hs /\ hs # << >>
        BY <1>2, <2>1, <3>2 DEF Admits, Tells, EventCount
      <3> QED  BY <1>0, <3>1, <3>2
    <2>2. CASE own = "eventUnset"
      <3>1. CASE hs = << >>
        BY <1>2, <2>2, <3>1 DEF Admits, Tells
      <3>2. CASE Len(hs) = 1 /\ 1 \in DOMAIN hs /\ hs # << >>
        <4>1. \A i \in DOMAIN hs : hs[i].count = 1
          BY <2>2 DEF EventQueue, EventCount
        <4> QED  BY <1>1, <1>2, <1>4, <2>2, <3>2, <4>1 DEF Admits, Tells, EventCount
      <3> QED  BY <1>0, <3>1, <3>2
    <2> QED  BY <2>1, <2>2 DEF EventRoles
  <1>6. AfterLock(hs, r) = hs
    BY <1>2 DEF AfterLock
  <1> QED  BY <1>3, <1>4, <1>5, <1>6 DEF LockResult

(* The commands that users of an event wait for. *)
LEMMA EventAsks ==
  ASSUME ClientInv, NEW own \in EventRoles, NEW h \in Handles, role[h] = own, at[h] # "idle"
  PROVE  /\ at[h] \in {"set", "clear", "isSet"}
         /\ Changes(h) => /\ Changing(req[h], own)
                          /\ req[h].cmd = IF (Wanted(h) = "set") = (own = "eventSet")
                                          THEN "unlock" ELSE "lock"
         /\ at[h] = "isSet" => Probing(req[h], own)
  <1>1. Waits(h, at[h], req[h]) /\ calls[h] \in Nat \ {0}
    BY WaitsFit DEF ClientInv, Asked
  <1>2. EventWaits(h, at[h], req[h])
    BY <1>1 DEF Waits, LockWaits, SemaphoreWaits, ReadWaits, LeafWaits, EventRoles, OneLock
  <1>3. <<h, calls[h]>> # KeyId("key")
    BY <1>1 DEF KeyId
  <1>4. /\ Changing(EventLock(h), own) /\ EventLock(h).cmd = "lock"
        /\ Changing(EventUnlock(h), own) /\ EventUnlock(h).cmd = "unlock"
    <2>1. EventLock(h) = [cmd |-> "lock", key |-> "key", id |-> KeyId("key"),
                          count |-> EventCount(own), rcount |-> 0, mode |-> "keep"]
      BY DEF EventLock, Request, EventCount
    <2>2. /\ EventUnlock(h).cmd = "unlock" /\ EventUnlock(h).key = "key"
          /\ EventUnlock(h).id = KeyId("key") /\ EventUnlock(h).count = EventCount(own)
          /\ EventUnlock(h).mode = "own"
      BY DEF EventUnlock, EventLock, Request, EventCount
    <2>3. Changing(EventLock(h), own) /\ EventLock(h).cmd = "lock"
      BY <2>1 DEF Changing
    <2> QED  BY <2>2, <2>3 DEF Changing
  <1>5. Probing([EventProbe(h) EXCEPT !.id = <<h, calls[h]>>], own)
    BY <1>3 DEF EventProbe, Request, Probing, EventCount, EventRoles
  <1>6. CASE at[h] \in {"set", "clear"} /\ req[h] = EventCommand(h, at[h])
    BY <1>4, <1>6 DEF EventCommand, Changes, Wanted
  <1>7. CASE at[h] = "isSet" /\ req[h] = [EventProbe(h) EXCEPT !.id = <<h, calls[h]>>]
    BY <1>5, <1>7 DEF Changes
  <1> QED  BY <1>2, <1>6, <1>7 DEF EventWaits

(* What a user of an event may do, and what else it leaves alone. *)
LEMMA EventSteps ==
  ASSUME ClientInv, NEW h \in Handles, HandleStep(h)
  PROVE  \/ role[h] \notin EventRoles /\ UNCHANGED <<eventVars>>
         \/ role[h] \in EventRoles /\ \/ \E op \in {"set", "clear"} : EventChange(h, op)
                                      \/ EventChanged(h) \/ IsSet(h) \/ IsSetReturn(h)
  <1>1. at[h] \in {"set", "clear", "isSet"} => role[h] \in EventRoles
    <2>1. at[h] # "idle" => Waits(h, at[h], req[h])
      BY DEF ClientInv, Asked
    <2> QED  BY <2>1 DEF Waits, LockWaits, SemaphoreWaits, ReadWaits, LeafWaits, EventWaits
  <1>2. role[h] \in EventRoles => at[h] \in {"idle", "set", "clear", "isSet"}
    BY EventAsks
  <1> QED  BY <1>1, <1>2
      DEF HandleStep, Acquire, AcquireReturn, Release, ReleaseReturn, SemaphoreAcquire,
          SemaphoreRelease, AcquireRead, AcquireReadReturn, ReleaseRead, ReleaseReadReturn,
          LeafAcquire, LeafRelease, EventChange, EventChanged, IsSet, IsSetReturn,
          LeafChildChecked, LeafParentChecked, LeafAcquired, LeafFailed, LeafUndoParent, LeafUndone,
          Answered, EventRoles, OneLock

LEMMA EventTypes ==
  ASSUME ClientInv, EventTyped, [Next]_vars
  PROVE  EventTyped'
  <1>0. /\ truth \in {"set", "unset", "unknown"} /\ alone \subseteq Handles
        /\ asked \in [Handles -> {"set", "unset", "unknown"}]
        /\ answer \in [Handles -> {"set", "unset", "none"}]
        /\ \A h \in Handles : answer[h] # "none" => role[h] \in EventRoles
    BY DEF EventTyped
  <1>1. ASSUME NEW h \in Handles, HandleStep(h) PROVE EventTyped'
    <2>1. role' = role
      BY <1>1, StepKinds
    <2>2. CASE UNCHANGED eventVars
      BY <1>0, <2>1, <2>2 DEF EventTyped, eventVars
    <2>3. ASSUME NEW op \in {"set", "clear"}, EventChange(h, op) PROVE EventTyped'
      BY <1>0, <2>1, <2>3 DEF EventTyped, EventChange, Unsettle
    <2>4. CASE EventChanged(h)
      BY <1>0, <2>1, <2>4 DEF EventTyped, EventChanged
    <2>5. CASE IsSet(h)
      BY <1>0, <2>1, <2>5 DEF EventTyped, IsSet
    <2>6. CASE IsSetReturn(h) /\ role[h] \in EventRoles
      BY <1>0, <2>1, <2>6 DEF EventTyped, IsSetReturn
    <2> QED  BY <1>1, <2>2, <2>3, <2>4, <2>5, <2>6, EventSteps
  <1>2. ASSUME NEW h \in Handles, Execute(h) \/ GiveUp(h) PROVE EventTyped'
    BY <1>0, <1>2 DEF EventTyped, Execute, GiveUp, eventVars
  <1>3. ASSUME ExecuteLate \/ Expire PROVE EventTyped'
    <2>1. /\ truth' = "unknown" /\ asked' = [h \in Handles |-> "unknown"] /\ alone' = {}
          /\ answer' = answer /\ role' = role
      BY <1>3 DEF ExecuteLate, Expire, Unsettle
    <2> QED  BY <1>0, <2>1 DEF EventTyped
  <1>4. ASSUME UNCHANGED vars PROVE EventTyped'
    BY <1>0, <1>4 DEF EventTyped, vars, eventVars
  <1> QED  BY <1>1, <1>2, <1>3, <1>4 DEF Next, ServerStep

EventParts(own) ==
  /\ EventQueue(holders["key"], own) /\ EventLate(own)
  /\ AloneTells(own) /\ TruthTells(own) /\ AskedTells

(* A set, a clear, a question and their ends. *)
LEMMA HandleEvents ==
  ASSUME ClientInv, EventTyped, NEW own \in EventRoles, EventOf(own), EventParts(own),
         NEW h \in Handles, HandleStep(h)
  PROVE  EventParts(own)'
  <1>0. /\ UNCHANGED <<role, holders, late>> /\ Only(h) /\ role[h] = own
        /\ asked \in [Handles -> {"set", "unset", "unknown"}]
        /\ answer \in [Handles -> {"set", "unset", "none"}] /\ alone \subseteq Handles
        /\ Begun(h) \/ Ended(h) \/ Passed(h)
        /\ EventQueue(holders["key"], own) /\ EventLate(own)
        /\ AloneTells(own) /\ TruthTells(own) /\ AskedTells
    BY StepKinds, ClientStep DEF serverVars, EventOf, EventTyped, EventParts
  <1>a. /\ reply'[h] = "none" /\ (at[h] = "idle") # (at'[h] = "idle")
        /\ ~Fine(h)' /\ Told(h)' = "none"
    <2>1. at[h] = "idle" \/ at[h] \in {"set", "clear", "isSet"}
      BY <1>0, EventAsks
    <2>2. reply'[h] = "none" /\ (at[h] = "idle") # (at'[h] = "idle")
      BY <1>0, <2>1 DEF Begun, Ended, Passed
    <2> QED  BY <2>2 DEF Fine, Told
  <1>b. \A q \in Handles \ {h} : /\ at'[q] = at[q] /\ Fine(q)' = Fine(q) /\ Told(q)' = Told(q)
                                 /\ Changes(q)' = Changes(q) /\ Wanted(q)' = Wanted(q)
    BY <1>0 DEF Only, Fine, Told, Changes, Wanted
  <1>c. EventQueue(holders["key"], own)' /\ EventLate(own)'
        /\ Tells(holders["key"], own)' = Tells(holders["key"], own)
    BY <1>0 DEF EventQueue, EventLate, EventCount, KeyId, Changing, Probing, Tells
  <1>1. ASSUME NEW op \in {"set", "clear"}, EventChange(h, op)
        PROVE  EventParts(own)'
    <2>1. /\ truth' = "unknown" /\ \A q \in Handles : asked'[q] = "unknown"
          /\ alone' = IF \E x \in Handles : at[x] \in {"set", "clear"} THEN {} ELSE {h}
      BY <1>1 DEF EventChange, Unsettle
    <2>2. at'[h] = op
      BY <1>1 DEF EventChange, Begin, Send, ClientInv, ClientType
    <2>3. AloneTells(own)'
      BY <1>a, <1>b, <2>1, <2>2 DEF AloneTells, Changes
    <2> QED  BY <1>c, <2>1, <2>3 DEF EventParts, TruthTells, AskedTells
  <1>2. CASE EventChanged(h)
    <2>1. /\ truth = "unknown" /\ Changes(h) /\ at'[h] = "idle"
      BY <1>0, <1>2, <1>a DEF EventChanged, TruthTells, Changes, Answered
    <2>2. \A q \in Handles : asked'[q] = "unknown"
      BY <1>0, <1>2, <2>1 DEF AskedTells, EventChanged
    <2>3. alone' = {}
      BY <1>0, <1>2, <2>1 DEF AloneTells, EventChanged
    <2>4. TruthTells(own)'
      <3>1. CASE Fine(h) /\ h \in alone
        <4>1. truth' = Wanted(h) /\ Tells(holders["key"], own) = Wanted(h)
              /\ \A q \in Handles \ {h} : ~Changes(q)
          BY <1>0, <1>2, <3>1 DEF EventChanged, Fine, Wanted, AloneTells
        <4>2. \A q \in Handles : ~Changes(q)'
          BY <1>b, <2>1, <4>1 DEF Changes
        <4> QED  BY <1>c, <4>1, <4>2 DEF TruthTells
      <3>2. CASE ~(Fine(h) /\ h \in alone)
        BY <1>2, <2>1, <3>2 DEF EventChanged, Fine, TruthTells
      <3> QED  BY <3>1, <3>2
    <2> QED  BY <1>c, <2>2, <2>3, <2>4 DEF EventParts, AloneTells, AskedTells
  <1>3. CASE IsSet(h)
    <2>1. /\ at[h] = "idle" /\ UNCHANGED <<truth, alone>>
          /\ asked' = [asked EXCEPT ![h] = truth] /\ answer' = [answer EXCEPT ![h] = "none"]
      BY <1>3 DEF IsSet, Begin
    <2>2. at'[h] = "isSet"
      BY <1>3 DEF IsSet, Begin, Send, ClientInv, ClientType
    <2>3. ~Changes(h) /\ ~Changes(h)'
      BY <2>1, <2>2 DEF Changes
    <2>4. AloneTells(own)'
      BY <1>0, <1>b, <1>c, <2>1, <2>3 DEF AloneTells
    <2>5. TruthTells(own)'
      BY <1>0, <1>b, <1>c, <2>1, <2>3 DEF TruthTells
    <2>6. AskedTells'
      BY <1>0, <1>a, <1>b, <2>1, <2>2 DEF AskedTells
    <2> QED  BY <1>c, <2>4, <2>5, <2>6 DEF EventParts
  <1>4. CASE IsSetReturn(h)
    <2>1. /\ at[h] = "isSet" /\ UNCHANGED <<truth, alone, asked>>
          /\ answer' = [answer EXCEPT ![h] = Told(h)]
      BY <1>4 DEF IsSetReturn, Answered, Told
    <2>2. at'[h] = "idle"
      BY <1>a, <2>1
    <2>3. ~Changes(h) /\ ~Changes(h)'
      BY <2>1, <2>2 DEF Changes
    <2>4. AloneTells(own)'
      BY <1>0, <1>b, <1>c, <2>1, <2>3 DEF AloneTells
    <2>5. TruthTells(own)'
      BY <1>0, <1>b, <1>c, <2>1, <2>3 DEF TruthTells
    <2>6. AskedTells'
      <3>1. ASSUME NEW q \in Handles, asked'[q] # "unknown"
            PROVE  /\ asked'[q] = truth'
                   /\ at'[q] = "isSet" => answer'[q] = "none" /\ Told(q)' \in {"none", asked'[q]}
                   /\ at'[q] # "isSet" => answer'[q] \in {"none", asked'[q]}
        <4>0. /\ asked[q] = truth
              /\ at[q] = "isSet" => answer[q] = "none" /\ Told(q) \in {"none", asked[q]}
              /\ at[q] # "isSet" => answer[q] \in {"none", asked[q]}
          BY <1>0, <2>1, <3>1 DEF AskedTells
        <4>1. CASE q = h
          <5>1. answer'[q] = Told(q)
            BY <1>0, <2>1, <4>1
          <5> QED  BY <2>1, <2>2, <4>0, <4>1, <5>1
        <4>2. CASE q # h
          <5>1. answer'[q] = answer[q]
            BY <1>0, <2>1, <4>2
          <5> QED  BY <1>b, <2>1, <4>0, <4>2, <5>1
        <4> QED  BY <4>1, <4>2
      <3> QED  BY <3>1 DEF AskedTells
    <2> QED  BY <1>c, <2>4, <2>5, <2>6 DEF EventParts
  <1> QED  BY <1>0, <1>1, <1>2, <1>3, <1>4, EventSteps

(* A command of an event changes nothing but its queue. *)
LEMMA EventExecuted ==
  ASSUME Queues, NEW own \in EventRoles, EventQueue(holders["key"], own),
         NEW r \in LockCommands, Changing(r, own) \/ Probing(r, own)
  PROVE  /\ r.key = "key" /\ Executed(r)["key"] = AfterOf(holders["key"], r)
         /\ EventQueue(Executed(r)["key"], own)
  <1>1. r.key = "key" /\ r.mode # "tree"
    BY DEF Changing, Probing
  <1>2. holders \in [Keys -> Seq(Holders)] /\ "key" \in Keys /\ Orderly(holders["key"])
    BY DEF Queues, Keys
  <1>3. Executed(r) = [holders EXCEPT !["key"] = AfterOf(holders["key"], r)]
    BY <1>1 DEF Executed
  <1>4. Executed(r)["key"] = AfterOf(holders["key"], r)
    BY <1>2, <1>3
  <1>5. EventQueue(AfterOf(holders["key"], r), own)
    BY <1>2, ChangeLocks, ProbeTells
  <1> QED  BY <1>1, <1>4, <1>5

LEMMA ExecuteEvents ==
  ASSUME Base, EventTyped, NEW own \in EventRoles, EventOf(own), EventParts(own),
         NEW h \in Handles, Execute(h)
  PROVE  EventParts(own)'
  <1> DEFINE r == req[h]
             hs == holders["key"]
  <1>0. /\ ClientInv /\ Queues /\ at[h] # "idle" /\ role[h] = own /\ reply[h] = "none"
        /\ reply \in [Handles -> ReplyCodes \cup {"none"}]
        /\ UNCHANGED <<role, at, req, late, truth, alone, asked, answer>>
        /\ reply' = [reply EXCEPT ![h] = ResultOf(holders[r.key], r)]
        /\ holders' = Executed(r)
        /\ EventQueue(hs, own) /\ EventLate(own)
        /\ AloneTells(own) /\ TruthTells(own) /\ AskedTells
    BY DEF Base, ServerInv, ClientInv, ClientType, Execute, Asked, EventOf, EventParts, eventVars
  <1>1. r \in LockCommands /\ hs \in Seq(Holders) /\ Orderly(hs)
    BY <1>0, WaitsFit DEF Queues, Keys
  <1>2. at[h] \in {"set", "clear", "isSet"} /\ (Changing(r, own) \/ Probing(r, own))
    BY <1>0, EventAsks DEF Changes
  <1>3. /\ r.key = "key" /\ holders'["key"] = AfterOf(hs, r)
        /\ EventQueue(holders'["key"], own)
    BY <1>0, <1>1, <1>2, EventExecuted
  <1>4. reply'[h] = ResultOf(hs, r)
    BY <1>0, <1>3
  <1>5. \A q \in Handles \ {h} : Fine(q)' = Fine(q) /\ Told(q)' = Told(q)
    BY <1>0 DEF Fine, Told
  <1>6. EventQueue(holders["key"], own)' /\ EventLate(own)'
    BY <1>0, <1>3 DEF EventQueue, EventLate, EventCount, KeyId, Changing, Probing
  <1>7. CASE Changes(h)
    <2>1. truth = "unknown" /\ \A q \in Handles : asked[q] = "unknown"
      BY <1>0, <1>7 DEF TruthTells, AskedTells
    <2>2. Changing(r, own) /\ r.cmd = IF (Wanted(h) = "set") = (own = "eventSet")
                                      THEN "unlock" ELSE "lock"
      BY <1>0, <1>7, EventAsks
    <2>3. r.cmd = "lock" => AfterOf(hs, r) # << >>
      BY <1>0, <1>1, <2>2, ChangeLocks
    <2>4. r.cmd = "unlock" => AfterOf(hs, r) = << >>
      BY <1>0, <1>1, <2>2, ChangeLocks
    <2>5. Tells(holders'["key"], own) = Wanted(h)
      BY <1>3, <2>2, <2>3, <2>4 DEF Tells, Wanted
    <2>6. AloneTells(own)'
      BY <1>0, <1>7, <2>5 DEF AloneTells, Changes, Wanted, Tells
    <2> QED  BY <1>0, <1>6, <2>1, <2>6 DEF EventParts, TruthTells, AskedTells
  <1>8. CASE at[h] = "isSet"
    <2>1. Probing(r, own)
      BY <1>0, <1>8, EventAsks
    <2>2. /\ AfterOf(hs, r) = hs
          /\ ResultOf(hs, r) = IF Tells(hs, own) = "set" THEN "succed" ELSE "timeout"
      BY <1>0, <1>1, <2>1, ProbeTells
    <2>3. Tells(holders'["key"], own) = Tells(hs, own) /\ ~Changes(h)
          /\ Tells(hs, own) \in {"set", "unset"}
      BY <1>3, <1>8, <2>2 DEF Changes, Tells
    <2>4. Told(h)' = Tells(hs, own)
      BY <1>4, <2>2, <2>3 DEF Told
    <2>a. alone \subseteq Handles
      BY DEF EventTyped
    <2>b. \A q \in Handles : Changes(q)' = Changes(q) /\ Wanted(q)' = Wanted(q)
      BY <1>0 DEF Changes, Wanted
    <2>c. Tells(holders["key"], own)' = Tells(holders["key"], own)
      BY <2>3 DEF Tells
    <2>5. AloneTells(own)'
      BY <1>0, <1>5, <2>3, <2>a, <2>b, <2>c DEF AloneTells
    <2>6. TruthTells(own)'
      BY <1>0, <2>3 DEF TruthTells, Changes, Tells
    <2>7. AskedTells'
      <3>1. ASSUME NEW q \in Handles, asked[q] # "unknown"
            PROVE  /\ asked[q] = truth
                   /\ at[q] = "isSet" => answer[q] = "none" /\ Told(q)' \in {"none", asked[q]}
                   /\ at[q] # "isSet" => answer[q] \in {"none", asked[q]}
        <4>0. /\ asked[q] = truth
              /\ at[q] = "isSet" => answer[q] = "none" /\ Told(q) \in {"none", asked[q]}
              /\ at[q] # "isSet" => answer[q] \in {"none", asked[q]}
          BY <1>0, <3>1 DEF AskedTells
        <4>1. CASE q = h
          <5>1. Tells(hs, own) = truth
            BY <1>0, <3>1, <4>0 DEF TruthTells
          <5> QED  BY <1>8, <2>4, <4>0, <4>1, <5>1
        <4>2. CASE q # h
          BY <1>5, <4>0, <4>2
        <4> QED  BY <4>1, <4>2
      <3> QED  BY <1>0, <3>1 DEF AskedTells
    <2> QED  BY <1>6, <2>5, <2>6, <2>7 DEF EventParts
  <1> QED  BY <1>2, <1>7, <1>8 DEF Changes

LEMMA GiveUpEvents ==
  ASSUME Base, EventTyped, NEW own \in EventRoles, EventOf(own), EventParts(own),
         NEW h \in Handles, GiveUp(h)
  PROVE  EventParts(own)'
  <1>0. /\ ClientInv /\ at[h] # "idle" /\ role[h] = own
        /\ reply \in [Handles -> ReplyCodes \cup {"none"}]
        /\ UNCHANGED <<role, at, req, holders, truth, alone, asked, answer>>
        /\ reply' = [reply EXCEPT ![h] = "error"]
        /\ late' = late \cup {[n |-> losses, req |-> req[h]]}
        /\ EventQueue(holders["key"], own) /\ EventLate(own)
        /\ AloneTells(own) /\ TruthTells(own) /\ AskedTells
    BY DEF Base, ClientInv, ClientType, GiveUp, Asked, EventOf, EventParts, eventVars
  <1>1. Changing(req[h], own) \/ Probing(req[h], own)
    BY <1>0, EventAsks DEF Changes
  <1>2. EventQueue(holders["key"], own)' /\ EventLate(own)'
    BY <1>0, <1>1 DEF EventQueue, EventLate, EventCount, KeyId, Changing, Probing
  <1>3. /\ \A q \in Handles \ {h} : Fine(q)' = Fine(q) /\ Told(q)' = Told(q)
        /\ ~Fine(h)' /\ Told(h)' = "none"
    BY <1>0 DEF Fine, Told
  <1>a. alone \subseteq Handles
    BY DEF EventTyped
  <1>b. \A q \in Handles : Changes(q)' = Changes(q) /\ Wanted(q)' = Wanted(q)
    BY <1>0 DEF Changes, Wanted
  <1>c. Tells(holders["key"], own)' = Tells(holders["key"], own)
    BY <1>0 DEF Tells
  <1>4. AloneTells(own)'
    BY <1>0, <1>3, <1>a, <1>b, <1>c DEF AloneTells
  <1>5. TruthTells(own)' /\ AskedTells'
    BY <1>0, <1>3 DEF TruthTells, AskedTells, Changes, Tells
  <1> QED  BY <1>2, <1>4, <1>5 DEF EventParts

(* A step of the server on its own leaves an event unknown. *)
LEMMA ServerEvents ==
  ASSUME Base, NEW own \in EventRoles, EventParts(own), ExecuteLate \/ Expire
  PROVE  EventParts(own)'
  <1>0. /\ ClientInv /\ Queues /\ EventQueue(holders["key"], own) /\ EventLate(own)
        /\ "key" \in Keys /\ holders \in [Keys -> Seq(Holders)]
    BY DEF Base, ServerInv, EventParts, Queues, Keys
  <1>1. /\ truth' = "unknown" /\ \A q \in Handles : asked'[q] = "unknown"
        /\ alone' = {} /\ role' = role /\ late' \subseteq late
    BY DEF ExecuteLate, Expire, Unsettle
  <1>2. EventQueue(holders'["key"], own)
    <2>1. CASE ExecuteLate
      <3>1. PICK x \in late : holders' = Executed(x.req)
        BY <2>1 DEF ExecuteLate
      <3>2. x.req \in LockCommands /\ (Changing(x.req, own) \/ Probing(x.req, own))
        BY <1>0 DEF Base, ServerInv, EventLate
      <3> QED  BY <1>0, <3>1, <3>2, EventExecuted
    <2>2. CASE Expire
      <3>1. PICK k \in Keys : \E i \in DOMAIN holders[k] :
              holders' = [holders EXCEPT ![k] = Without(@, @[i].id)]
        BY <2>2 DEF Expire
      <3>2. PICK i \in DOMAIN holders[k] : holders' = [holders EXCEPT ![k] = Without(@, @[i].id)]
        BY <3>1
      <3> DEFINE v == holders[k][i].id
                 ws == Without(holders[k], v)
      <3>3. holders' = [holders EXCEPT ![k] = ws]
        BY <3>2
      <3> HIDE DEF v
      <3>4. \A j \in DOMAIN ws : \E m \in DOMAIN holders[k] : holders[k][m] = ws[j]
        BY <1>0, OutFacts
      <3> HIDE DEF ws
      <3>5. CASE k = "key"
        <4>1. holders'["key"] = ws
          BY <1>0, <3>3, <3>5
        <4> QED  BY <1>0, <3>4, <3>5, <4>1 DEF EventQueue
      <3>6. CASE k # "key"
        BY <1>0, <3>3, <3>6
      <3> QED  BY <3>5, <3>6
    <2> QED  BY <2>1, <2>2
  <1>3. EventQueue(holders["key"], own)' /\ EventLate(own)'
    BY <1>0, <1>1, <1>2 DEF EventQueue, EventLate, EventCount, KeyId, Changing, Probing
  <1> QED  BY <1>1, <1>3 DEF EventParts, AloneTells, TruthTells, AskedTells

LEMMA EventInit == Init => EventInv
  <1> SUFFICES ASSUME Init PROVE EventInv
    OBVIOUS
  <1>1. /\ holders["key"] = << >> /\ late = {} /\ alone = {}
        /\ \A h \in Handles : at[h] = "idle" /\ asked[h] = "unknown" /\ answer[h] = "none"
        /\ truth = IF \E h \in Handles : role[h] = "eventSet" THEN "set" ELSE "unset"
    BY DEF Init, Keys
  <1>2. EventTyped
    BY <1>1 DEF EventTyped, Init
  <1>3. ASSUME NEW own \in EventRoles, EventOf(own)
        PROVE  EventParts(own)
    <2>1. Tells(holders["key"], own) = truth
      BY <1>1, <1>3 DEF Tells, EventOf, EventRoles
    <2> QED  BY <1>1, <2>1 DEF EventParts, EventQueue, EventLate, AloneTells, TruthTells,
                               AskedTells, Changes
  <1> QED  BY <1>2, <1>3 DEF EventInv, EventParts

LEMMA EventStep == Base /\ EventInv /\ [Next]_vars => EventInv'
  <1> SUFFICES ASSUME Base, EventInv, [Next]_vars PROVE EventInv'
    OBVIOUS
  <1>0. ClientInv /\ EventTyped /\ EventTyped'
    BY EventTypes DEF Base, EventInv
  <1>1. role' = role
    <2>1. ASSUME NEW h \in Handles, HandleStep(h) PROVE role' = role
      BY <1>0, <2>1, StepKinds
    <2>2. ASSUME NEW h \in Handles, Execute(h) \/ GiveUp(h) PROVE role' = role
      BY <2>2 DEF Execute, GiveUp
    <2>3. ASSUME ExecuteLate \/ Expire \/ UNCHANGED vars PROVE role' = role
      BY <2>3 DEF ExecuteLate, Expire, vars
    <2> QED  BY <2>1, <2>2, <2>3 DEF Next, ServerStep
  <1>2. ASSUME NEW own \in EventRoles, EventOf(own)' PROVE EventParts(own)'
    <2>1. EventOf(own) /\ EventParts(own)
      BY <1>1, <1>2 DEF EventOf, EventInv, EventParts
    <2>2. ASSUME NEW h \in Handles, HandleStep(h) PROVE EventParts(own)'
      BY <1>0, <2>1, <2>2, HandleEvents
    <2>3. ASSUME NEW h \in Handles, Execute(h) \/ GiveUp(h) PROVE EventParts(own)'
      BY <1>0, <2>1, <2>3, ExecuteEvents, GiveUpEvents
    <2>4. ASSUME ExecuteLate \/ Expire PROVE EventParts(own)'
      BY <2>1, <2>4, ServerEvents
    <2>5. ASSUME UNCHANGED vars PROVE EventParts(own)'
      BY <2>1, <2>5 DEF vars, serverVars, clientVars, eventVars, EventParts, EventQueue, EventLate,
         AloneTells, TruthTells, AskedTells, EventCount, KeyId, Changing, Probing, Tells, Told, Fine,
         Wanted, Changes
    <2> QED  BY <2>2, <2>3, <2>4, <2>5 DEF Next, ServerStep
  <1> QED  BY <1>0, <1>2 DEF EventInv, EventParts

LEMMA EventTruth == Mixed /\ EventInv => IsSetTruthful
  <1> SUFFICES ASSUME Mixed, EventInv, NEW h \in Handles, at[h] = "idle", answer[h] # "none",
                      asked[h] # "unknown"
               PROVE  answer[h] = asked[h]
    BY DEF IsSetTruthful
  <1>1. role[h] \in EventRoles
    BY DEF EventInv, EventTyped
  <1>2. EventOf(role[h])
    BY <1>1 DEF Mixed, EventOf, EventRoles
  <1>3. AskedTells
    BY <1>1, <1>2 DEF EventInv
  <1> QED  BY <1>3 DEF AskedTells

(* is_set, and wait, of an Event answer what the last set or clear left,   *)
(* if that was alone and nothing touched the event since, for both kinds   *)
(* of event and also when the set or clear found the event so already      *)
(* (blocking primitives, Event).                                           *)
THEOREM IsSetTruthfulHolds == Spec => []IsSetTruthful
  <1>1. Init => BackedInv /\ EventInv
    BY BackedInit, EventInit
  <1>2. BackedInv /\ EventInv /\ [Next]_vars => BackedInv' /\ EventInv'
    BY BackedStep, EventStep DEF BackedInv
  <1>3. BackedInv /\ EventInv => IsSetTruthful
    BY EventTruth DEF BackedInv
  <1> QED  BY <1>1, <1>2, <1>3, PTL DEF Spec

-----------------------------------------------------------------------------
(* Nothing is left at the server but what callers rely on, and one hold    *)
(* for each command given up.  Of the holds of an entry those are orphans  *)
(* that neither the count of its handle nor its read_locks stand for; a    *)
(* lock command that may yet be executed counts as the orphan it may make. *)
Deep(hs, id, d) == \E i \in DOMAIN hs : hs[i].id = id /\ hs[i].depth = d
ReadBy(h, id) ==
  \/ \E i \in DOMAIN Readers(h) : Readers(h)[i] = id
  \/ at[h] = "releaseRead" /\ reply[h] = "none" /\ req[h].id = id
Spare(id, n, d) ==
  /\ n \in 1 .. d
  /\ \A h \in Handles : KeyOf(h) = "key" /\ id = OwnId(h) => n + Backing(h) =< d
  /\ \A h \in Handles : ~ReadBy(h, id)
Orphaned(id, n) == \E d \in Int : Deep(holders["key"], id, d) /\ Spare(id, n, d)
Orphans == {p \in LockIds \X Nat : Orphaned(p[1], p[2])}
LateLocks == {x \in late : x.req.cmd = "lock"}
Plain == \A h \in Handles : role[h] \notin EventRoles \cup {"semaphore"}
PlainLeak ==
  Plain => IsFiniteSet(Orphans) /\ Cardinality(Orphans) + Cardinality(LateLocks) =< losses

(* A lock command makes an entry of its id one deeper, or a new one. *)
LEMMA LockDeep ==
  ASSUME NEW hs \in Seq(Holders), NEW r \in LockCommands, r.cmd = "lock"
  PROVE  \A id : \A d \in Int : Deep(AfterOf(hs, r), id, d) =>
           \/ Deep(hs, id, d) /\ ~(id = r.id /\ r.mode = "keep" /\ ResultOf(hs, r) = "succed")
           \/ /\ id = r.id /\ r.mode = "keep" /\ ResultOf(hs, r) = "succed"
              /\ d = 1 \/ Deep(hs, id, d - 1)
  <1>0. AfterOf(hs, r) = AfterLock(hs, r) /\ ResultOf(hs, r) = LockResult(hs, r)
    BY DEF AfterOf, ResultOf
  <1>1. CASE AfterLock(hs, r) = hs /\ (LockResult(hs, r) # "succed" \/ r.mode # "keep")
    BY <1>0, <1>1
  <1>2. CASE /\ LockResult(hs, r) = "succed" /\ r.mode = "keep"
             /\ AfterLock(hs, r) = Deepen(hs, r.id, 1)
    <2> DEFINE ds == Deepen(hs, r.id, 1)
    <2>1. /\ DOMAIN ds = DOMAIN hs
          /\ \A i \in DOMAIN hs :
                /\ ds[i].id = hs[i].id /\ hs[i].depth \in Int
                /\ ds[i].depth = IF hs[i].id = r.id THEN hs[i].depth + 1 ELSE hs[i].depth
      BY DeepenFacts, EntryFacts
    <2> HIDE DEF ds
    <2>2. \A id : \A d \in Int : Deep(ds, id, d) =>
             \/ id = r.id /\ Deep(hs, id, d - 1)
             \/ id # r.id /\ Deep(hs, id, d)
      <3> SUFFICES ASSUME NEW id, NEW d \in Int, NEW i \in DOMAIN hs, ds[i].id = id, ds[i].depth = d
                   PROVE  \/ id = r.id /\ Deep(hs, id, d - 1)
                          \/ id # r.id /\ Deep(hs, id, d)
        BY <2>1 DEF Deep
      <3>1. hs[i].id = id /\ hs[i].depth \in Int
        BY <2>1
      <3>2. CASE id = r.id
        <4>1. ds[i].depth = hs[i].depth + 1
          BY <2>1, <3>1, <3>2
        <4>2. hs[i].depth = d - 1
          BY <3>1, <4>1
        <4> QED  BY <3>1, <3>2, <4>2 DEF Deep
      <3>3. CASE id # r.id
        BY <2>1, <3>1, <3>3 DEF Deep
      <3> QED  BY <3>2, <3>3
    <2> QED  BY <1>0, <1>2, <2>2 DEF ds
  <1>3. CASE /\ LockResult(hs, r) = "succed" /\ r.mode = "keep" /\ ~Holds(hs, r.id)
             /\ AfterLock(hs, r) = Append(hs, [id |-> r.id, count |-> r.count, depth |-> 1])
    <2> DEFINE new == [id |-> r.id, count |-> r.count, depth |-> 1]
               as == Append(hs, new)
    <2>1. new \in Holders
      BY DEF Holders, LockCommands
    <2>2. new.id = r.id /\ new.depth = 1
      OBVIOUS
    <2> HIDE DEF new
    <2>3. /\ DOMAIN as = 1 .. Len(hs) + 1 /\ as[Len(hs) + 1] = new
          /\ \A i \in 1 .. Len(hs) : as[i] = hs[i]
      <3>1. Len(as) = Len(hs) + 1 /\ as[Len(hs) + 1] = new /\ \A i \in 1 .. Len(hs) : as[i] = hs[i]
        BY <2>1, AppendProperties
      <3>2. DOMAIN as = 1 .. Len(as)
        BY <2>1
      <3> QED  BY <3>1, <3>2
    <2> HIDE DEF as
    <2>4. Len(hs) \in Nat /\ DOMAIN hs = 1 .. Len(hs)
      BY EntryFacts
    <2>5. \A i \in DOMAIN as : (i \in DOMAIN hs /\ as[i] = hs[i]) \/ as[i] = new
      <3> SUFFICES ASSUME NEW i \in DOMAIN as
                   PROVE  (i \in DOMAIN hs /\ as[i] = hs[i]) \/ as[i] = new
        OBVIOUS
      <3>1. i \in DOMAIN hs \/ i = Len(hs) + 1
        BY <2>3, <2>4
      <3> QED  BY <2>3, <2>4, <3>1
    <2>6. \A id : \A d \in Int :
             Deep(as, id, d) => (Deep(hs, id, d) /\ id # r.id) \/ (id = r.id /\ d = 1)
      <3>1. \A i \in DOMAIN hs : hs[i].id # r.id
        BY <1>3 DEF Holds
      <3> QED  BY <2>2, <2>5, <3>1 DEF Deep
    <2> QED  BY <1>0, <1>3, <2>6 DEF as, new
  <1> QED  BY <1>1, <1>2, <1>3, LockCases

(* An unlock that succeeds takes one hold from its victim. *)
LEMMA UnlockDeep ==
  ASSUME NEW hs \in Seq(Holders), NEW r \in LockCommands, r.cmd = "unlock"
  PROVE  \A id : \A d \in Int : Deep(AfterOf(hs, r), id, d) =>
           \/ Deep(hs, id, d) /\ (ResultOf(hs, r) = "succed" => id # Victim(hs, r))
           \/ Deep(hs, id, d + 1) /\ ResultOf(hs, r) = "succed" /\ id = Victim(hs, r)
  <1>0. AfterOf(hs, r) = AfterUnlock(hs, r) /\ ResultOf(hs, r) = UnlockResult(hs, r)
    BY DEF AfterOf, ResultOf
  <1> DEFINE v == Victim(hs, r)
  <1>1. CASE AfterUnlock(hs, r) = hs /\ UnlockResult(hs, r) # "succed"
    BY <1>0, <1>1
  <1>2. CASE UnlockResult(hs, r) = "succed" /\ AfterUnlock(hs, r) = Deepen(hs, v, -1)
    <2> DEFINE ds == Deepen(hs, v, -1)
    <2>1. /\ DOMAIN ds = DOMAIN hs
          /\ \A i \in DOMAIN hs :
                /\ ds[i].id = hs[i].id /\ hs[i].depth \in Int
                /\ ds[i].depth = IF hs[i].id = v THEN hs[i].depth + (-1) ELSE hs[i].depth
      BY DeepenFacts, EntryFacts
    <2> HIDE DEF ds, v
    <2>2. \A id : \A d \in Int : Deep(ds, id, d) =>
             \/ id = v /\ Deep(hs, id, d + 1)
             \/ id # v /\ Deep(hs, id, d)
      BY <2>1 DEF Deep
    <2> QED  BY <1>0, <1>2, <2>2 DEF ds, v
  <1>3. CASE UnlockResult(hs, r) = "succed" /\ AfterUnlock(hs, r) = Without(hs, v)
    <2> DEFINE ws == Without(hs, v)
    <2>1. \A i \in DOMAIN ws : ws[i].id # v /\ \E j \in DOMAIN hs : hs[j] = ws[i]
      BY OutFacts
    <2> HIDE DEF ws, v
    <2>2. \A id : \A d \in Int : Deep(ws, id, d) => id # v /\ Deep(hs, id, d)
      BY <2>1 DEF Deep
    <2> QED  BY <1>0, <1>3, <2>2 DEF ws, v
  <1> QED  BY <1>1, <1>2, <1>3, UnlockCases

(* How the orphans and the late locks may change, and what that costs. *)
LEMMA LeakCounts ==
  ASSUME NEW O, NEW O2, NEW L, NEW L2, IsFiniteSet(O), IsFiniteSet(L),
         NEW n \in Nat, NEW m \in Nat, Cardinality(O) + Cardinality(L) =< n,
         \/ O2 \subseteq O /\ L2 \subseteq L /\ m >= n
         \/ L2 \subseteq L /\ m = n + 1 /\ \E p : O2 \subseteq O \cup {p}
         \/ O2 \subseteq O /\ m = n + 1 /\ \E x : L2 \subseteq L \cup {x}
         \/ m = n /\ (\E p : O2 \subseteq O \cup {p}) /\ \E x \in L : L2 = L \ {x}
  PROVE  /\ IsFiniteSet(O2) /\ IsFiniteSet(L2)
         /\ Cardinality(O2) + Cardinality(L2) =< m
  <1>0. Cardinality(O) \in Nat /\ Cardinality(L) \in Nat
    BY FS_CardinalityType
  <1>1. ASSUME NEW S, NEW T, IsFiniteSet(S), T \subseteq S
        PROVE  IsFiniteSet(T) /\ Cardinality(T) \in Nat /\ Cardinality(T) =< Cardinality(S)
    BY <1>1, FS_Subset, FS_CardinalityType
  <1>2. ASSUME NEW S, NEW T, NEW p, IsFiniteSet(S), T \subseteq S \cup {p}
        PROVE  IsFiniteSet(T) /\ Cardinality(T) \in Nat /\ Cardinality(T) =< Cardinality(S) + 1
    <2>1. IsFiniteSet(S \cup {p}) /\ Cardinality(S \cup {p}) \in {Cardinality(S), Cardinality(S) + 1}
          /\ Cardinality(S) \in Nat
      BY <1>2, FS_AddElement, FS_CardinalityType
    <2>2. IsFiniteSet(T) /\ Cardinality(T) \in Nat /\ Cardinality(T) =< Cardinality(S \cup {p})
      BY <1>1, <1>2, <2>1
    <2> QED  BY <2>1, <2>2
  <1>3. ASSUME NEW S, NEW x \in S, IsFiniteSet(S)
        PROVE  IsFiniteSet(S \ {x}) /\ Cardinality(S \ {x}) \in Nat
               /\ Cardinality(S \ {x}) = Cardinality(S) - 1
    BY <1>3, FS_RemoveElement, FS_CardinalityType
  <1>4. CASE O2 \subseteq O /\ L2 \subseteq L /\ m >= n
    BY <1>0, <1>1, <1>4
  <1>5. CASE L2 \subseteq L /\ m = n + 1 /\ \E p : O2 \subseteq O \cup {p}
    <2>1. IsFiniteSet(O2) /\ Cardinality(O2) \in Nat /\ Cardinality(O2) =< Cardinality(O) + 1
      BY <1>2, <1>5
    <2>2. IsFiniteSet(L2) /\ Cardinality(L2) \in Nat /\ Cardinality(L2) =< Cardinality(L)
      BY <1>1, <1>5
    <2> QED  BY <1>0, <1>5, <2>1, <2>2
  <1>6. CASE O2 \subseteq O /\ m = n + 1 /\ \E x : L2 \subseteq L \cup {x}
    <2>1. IsFiniteSet(L2) /\ Cardinality(L2) \in Nat /\ Cardinality(L2) =< Cardinality(L) + 1
      BY <1>2, <1>6
    <2>2. IsFiniteSet(O2) /\ Cardinality(O2) \in Nat /\ Cardinality(O2) =< Cardinality(O)
      BY <1>1, <1>6
    <2> QED  BY <1>0, <1>6, <2>1, <2>2
  <1>7. CASE m = n /\ (\E p : O2 \subseteq O \cup {p}) /\ \E x \in L : L2 = L \ {x}
    <2>1. IsFiniteSet(O2) /\ Cardinality(O2) \in Nat /\ Cardinality(O2) =< Cardinality(O) + 1
      BY <1>2, <1>7
    <2>2. IsFiniteSet(L2) /\ Cardinality(L2) \in Nat /\ Cardinality(L2) = Cardinality(L) - 1
      BY <1>3, <1>7
    <2> QED  BY <1>0, <1>7, <2>1, <2>2
  <1> QED  BY <1>4, <1>5, <1>6, <1>7

(* What it takes to say that no orphan is new. *)
LEMMA OrphansFrom ==
  ASSUME NEW S, \A id : \A n \in Nat : Orphaned(id, n)' => Orphaned(id, n) \/ <<id, n>> \in S
  PROVE  Orphans' \subseteq Orphans \cup S
  <1> SUFFICES ASSUME NEW p \in LockIds \X Nat, Orphaned(p[1], p[2])'
               PROVE  p \in Orphans \cup S
    BY DEF Orphans
  <1>1. p[2] \in Nat /\ p = <<p[1], p[2]>>
    OBVIOUS
  <1>2. Orphaned(p[1], p[2]) \/ <<p[1], p[2]>> \in S
    BY <1>1
  <1> QED  BY <1>1, <1>2 DEF Orphans

(* Holds that their handles stand for as much as before are as spare. *)
LEMMA SpareBefore ==
  ASSUME ClientInv, ClientInv', role' = role, NEW id, NEW n \in Nat, NEW d \in Int, NEW e \in Int,
         Spare(id, n, d)', n =< e,
         \A q \in Handles : KeyOf(q) = "key" /\ id = OwnId(q) => Backing(q) + d =< Backing(q)' + e,
         \A q \in Handles : ReadBy(q, id) => ReadBy(q, id)'
  PROVE  Spare(id, n, e)
  <1>1. n \in 1 .. e
    BY DEF Spare
  <1>2. ASSUME NEW q \in Handles, KeyOf(q) = "key", id = OwnId(q)
        PROVE  n + Backing(q) =< e
    <2>1. Backing(q) \in Nat /\ Backing(q)' \in Nat
      <3>1. Backing(q) \in Nat
        BY ReliedFacts
      <3>2. held' \in [Handles -> Nat]
        BY DEF ClientInv, ClientType
      <3>3. Backing(q)' \in Nat
        BY <3>2 DEF Backing, Less
      <3> QED  BY <3>1, <3>3
    <2>2. KeyOf(q)' = KeyOf(q) /\ OwnId(q)' = OwnId(q)
      BY DEF KeyOf, OwnId
    <2>3. n + Backing(q)' =< d
      BY <1>2, <2>2 DEF Spare
    <2> QED  BY <1>2, <2>1, <2>3
  <1>3. \A q \in Handles : ~ReadBy(q, id)
    BY DEF Spare
  <1> QED  BY <1>1, <1>2, <1>3 DEF Spare

(* If the server stays, and no handle relies on less than before, no       *)
(* orphan is new.                                                          *)
LEMMA OrphansSame ==
  ASSUME ClientInv, ClientInv', role' = role, holders'["key"] = holders["key"],
         \A q \in Handles : KeyOf(q) = "key" => Backing(q) =< Backing(q)',
         \A id : \A q \in Handles : ReadBy(q, id) => ReadBy(q, id)'
  PROVE  Orphans' \subseteq Orphans
  <1>1. ASSUME NEW id, NEW n \in Nat, Orphaned(id, n)'
        PROVE  Orphaned(id, n)
    <2>1. PICK d \in Int : Deep(holders["key"], id, d)' /\ Spare(id, n, d)'
      BY <1>1 DEF Orphaned
    <2>2. Deep(holders["key"], id, d)
      BY <2>1 DEF Deep
    <2>3. n =< d
      BY <2>1 DEF Spare
    <2>4. \A q \in Handles : KeyOf(q) = "key" => Backing(q) + d =< Backing(q)' + d
      <3> SUFFICES ASSUME NEW q \in Handles, KeyOf(q) = "key" PROVE Backing(q) + d =< Backing(q)' + d
        OBVIOUS
      <3>1. Backing(q) \in Nat /\ Backing(q) =< Backing(q)'
        BY ReliedFacts
      <3>2. Backing(q)' \in Nat
        <4>1. held' \in [Handles -> Nat]
          BY DEF ClientInv, ClientType
        <4> QED  BY <4>1 DEF Backing, Less
      <3> QED  BY <3>1, <3>2
    <2>5. Spare(id, n, d)
      BY <2>1, <2>3, <2>4, SpareBefore
    <2> QED  BY <2>2, <2>5 DEF Orphaned
  <1>2. Orphans' \subseteq Orphans \cup {}
    BY <1>1, OrphansFrom
  <1> QED  BY <1>2

(* A step of a handle keeps every read lock in read_locks or under way out *)
(* of them.                                                                *)
LEMMA ReadByKept ==
  ASSUME ClientInv, NEW h \in Handles, HandleStep(h), NEW q \in Handles, NEW id, ReadBy(q, id)
  PROVE  ReadBy(q, id)'
  <1>0. Only(h) /\ (Begun(h) \/ Ended(h) \/ Passed(h))
    BY ClientStep, StepKinds
  <1>1. CASE q # h
    <2>1. /\ at'[q] = at[q] /\ req'[q] = req[q] /\ reply'[q] = reply[q]
          /\ read_locks'[q] = read_locks[q]
      BY <1>0, <1>1 DEF Only
    <2> QED  BY <2>1 DEF ReadBy, Readers, Succeeded
  <1>2. CASE q = h
    <2>1. at[h] = "releaseRead" => reply[h] # "none"
      BY DEF HandleStep, Acquire, AcquireReturn, Release, ReleaseReturn, SemaphoreAcquire,
             SemaphoreRelease, AcquireRead, AcquireReadReturn, ReleaseRead, ReleaseReadReturn,
             LeafAcquire, LeafChildChecked, LeafParentChecked, LeafAcquired, LeafFailed,
             LeafUndoParent, LeafUndone, LeafRelease, EventChange, EventChanged, IsSet,
             IsSetReturn, Begin, Answered
    <2>2. PICK i \in DOMAIN Readers(h) : Readers(h)[i] = id
      BY <1>2, <2>1 DEF ReadBy
    <2>3. CASE Begun(h)
      <3>1. Readers(h) = read_locks[h] /\ at[h] = "idle" /\ reply'[h] = "none"
        BY <2>3 DEF Begun, Readers
      <3>2. Readers(h)' = read_locks'[h]
        BY <3>1 DEF Readers, Succeeded
      <3>3. CASE PopsReader(h)
        <4> DEFINE n == Len(read_locks[h])
        <4>1. /\ n \in Nat \ {0} /\ DOMAIN read_locks'[h] = 1 .. n - 1
              /\ \A j \in 1 .. n - 1 : read_locks'[h][j] = read_locks[h][j]
              /\ req'[h].id = read_locks[h][n] /\ at'[h] = "releaseRead"
          BY <3>3, PopFacts DEF PopsReader
        <4>2. DOMAIN read_locks[h] = 1 .. n
          BY ReadersFacts
        <4>3. i \in 1 .. n
          BY <2>2, <3>1, <4>2
        <4> HIDE DEF n
        <4>4. CASE i = n
          BY <1>2, <2>2, <3>1, <4>1, <4>4 DEF ReadBy
        <4>5. CASE i # n
          <5>1. i \in 1 .. n - 1
            BY <4>1, <4>3, <4>5
          <5>2. i \in DOMAIN Readers(h)' /\ Readers(h)'[i] = id
            BY <2>2, <3>1, <3>2, <4>1, <5>1
          <5> QED  BY <1>2, <5>2 DEF ReadBy
        <4> QED  BY <4>4, <4>5
      <3>4. CASE read_locks'[h] = read_locks[h]
        BY <1>2, <2>2, <3>1, <3>2, <3>4 DEF ReadBy
      <3> QED  BY <2>3, <3>3, <3>4 DEF Begun
    <2>4. CASE Ended(h) \/ Passed(h)
      <3>1. Readers(h)' = read_locks'[h]
        BY <2>4 DEF Ended, Passed, Readers, Succeeded
      <3>2. read_locks'[h] = Readers(h)
        BY <2>4 DEF Ended, Passed, Readers
      <3> QED  BY <1>2, <2>2, <3>1, <3>2 DEF ReadBy
    <2> QED  BY <1>0, <2>3, <2>4
  <1> QED  BY <1>1, <1>2

(* What a handle does by itself, sending a command or reading its answer,  *)
(* leaves nothing: its count and its read locks move on with its place.    *)
LEMMA HandlePlain ==
  ASSUME Base, PlainLeak, NEW h \in Handles, HandleStep(h)
  PROVE  PlainLeak'
  <1>0. ClientInv /\ ClientInv' /\ UNCHANGED <<role, size, serverVars>>
    BY ClientStep, StepKinds DEF Base
  <1>1. \A q \in Handles : Backing(q) \in Nat /\ Backing(q)' = Backing(q)
    BY <1>0, BackingSame, ReliedFacts
  <1>2. \A id : \A q \in Handles : ReadBy(q, id) => ReadBy(q, id)'
    BY <1>0, ReadByKept
  <1>3. Orphans' \subseteq Orphans
    <2>1. \A q \in Handles : KeyOf(q) = "key" => Backing(q) =< Backing(q)'
      BY <1>1
    <2>2. holders'["key"] = holders["key"] /\ role' = role
      BY <1>0 DEF serverVars
    <2> QED  BY <1>0, <1>2, <2>1, <2>2, OrphansSame
  <1> SUFFICES ASSUME Plain'
               PROVE  (IsFiniteSet(Orphans) /\ Cardinality(Orphans) + Cardinality(LateLocks) =< losses)'
    BY DEF PlainLeak
  <1>4. Plain /\ losses' = losses /\ LateLocks' = LateLocks /\ losses \in Nat /\ IsFiniteSet(LateLocks)
    <2>1. losses \in Nat /\ IsFiniteSet(late)
      BY PrimitivesAssumption DEF Base, ServerInv
    <2>2. LateLocks \subseteq late
      BY DEF LateLocks
    <2> QED  BY <1>0, <2>1, <2>2, FS_Subset DEF Plain, serverVars, LateLocks
  <1> QED  BY <1>3, <1>4, LeakCounts DEF PlainLeak

(* How many orphans and late locks a step may add: none, or one of either  *)
(* for one more command given up.                                          *)
LEMMA PlainCounts ==
  ASSUME ServerInv, ServerInv', PlainLeak, role' = role,
         Plain => \/ /\ Orphans' \subseteq Orphans /\ LateLocks' \subseteq LateLocks
                     /\ losses' >= losses
                  \/ /\ losses' = losses + 1 /\ LateLocks' \subseteq LateLocks
                     /\ \E p : Orphans' \subseteq Orphans \cup {p}
                  \/ /\ losses' = losses + 1 /\ Orphans' \subseteq Orphans
                     /\ \E x : LateLocks' \subseteq LateLocks \cup {x}
                  \/ /\ losses' = losses /\ \E p : Orphans' \subseteq Orphans \cup {p}
                     /\ \E x \in LateLocks : LateLocks' = LateLocks \ {x}
  PROVE  PlainLeak'
  <1>1. losses \in Nat /\ losses' \in Nat /\ IsFiniteSet(late)
    BY PrimitivesAssumption DEF ServerInv
  <1>2. LateLocks \subseteq late
    BY DEF LateLocks
  <1>3. IsFiniteSet(LateLocks)
    BY <1>1, <1>2, FS_Subset
  <1>4. ASSUME Plain
        PROVE  (IsFiniteSet(Orphans) /\ Cardinality(Orphans) + Cardinality(LateLocks) =< losses)'
    BY <1>1, <1>3, <1>4, LeakCounts DEF PlainLeak
  <1> QED  BY <1>4 DEF PlainLeak, Plain

(* What a handle that is no semaphore and no event asks of "key". *)
LEMMA PlainWaits ==
  ASSUME ClientInv, ReadIds, Plain, NEW h \in Handles, at[h] # "idle"
  PROVE  /\ req[h].mode # "first"
         /\ at[h] \in {"acquire", "leaf"} =>
              req[h].cmd = "lock" /\ req[h].id = OwnId(h) /\ req[h].key = KeyOf(h)
         /\ at[h] = "acquire" => req[h].mode = "keep"
         /\ at[h] = "leaf" => KeyOf(h) # "key"
         /\ at[h] = "release" =>
              req[h].cmd = "unlock" /\ req[h].id = OwnId(h) /\ req[h].key = KeyOf(h)
         /\ at[h] = "acquireRead" =>
              /\ req[h].cmd = "lock" /\ req[h].mode = "keep" /\ req[h].key = "key"
              /\ req[h].id \notin OwnIds
         /\ at[h] = "releaseRead" =>
              /\ req[h].cmd = "unlock" /\ req[h].mode = "own" /\ req[h].key = "key"
              /\ req[h].id \notin OwnIds
         /\ at[h] \notin {"acquire", "release", "acquireRead", "releaseRead"} =>
              req[h].key # "key"
  <1>0. role[h] \notin EventRoles \cup {"semaphore"}
    BY DEF Plain
  <1>a. \A cmd, k, id, count, rcount, mode :
          LET r == Request(cmd, k, id, count, rcount, mode)
          IN  r.cmd = cmd /\ r.key = k /\ r.id = id /\ r.mode = mode
    BY DEF Request
  <1>b. Waits(h, at[h], req[h])
    BY DEF ClientInv, Asked
  <1>1. CASE LockWaits(h, at[h], req[h])
    BY <1>1, <1>a DEF LockWaits, OwnRequest
  <1>2. CASE ReadWaits(h, at[h], req[h])
    <2>1. CASE at[h] = "acquireRead"
      <3>1. /\ req[h].cmd = "lock" /\ req[h].mode = "keep" /\ req[h].key = "key"
            /\ req[h].id = <<h, calls[h]>>
        BY <1>2, <1>a, <2>1 DEF ReadWaits
      <3>2. calls[h] # 0
        BY WaitsFit
      <3> QED  BY <2>1, <3>1, <3>2, ForeignIds
    <2>2. CASE at[h] = "releaseRead"
      <3>1. req[h].cmd = "unlock" /\ req[h].mode = "own" /\ req[h].key = "key"
        BY <1>2, <1>a, <2>2 DEF ReadWaits
      <3>2. PICK n \in 1 .. calls[h] : req[h].id = <<h, n>>
        BY <2>2 DEF ReadIds, ReadIdsOf
      <3>3. n # 0
        BY <3>2
      <3> QED  BY <2>2, <3>1, <3>2, <3>3, ForeignIds
    <2> QED  BY <1>2, <2>1, <2>2 DEF ReadWaits
  <1>3. CASE LeafWaits(h, at[h], req[h])
    <2>1. KeyOf(h) \in {"child", "root"}
      BY <1>3 DEF LeafWaits, KeyOf
    <2> QED  BY <1>3, <1>a, <2>1 DEF LeafWaits, OwnRequest, ChildLink, ParentLink
  <1> QED  BY <1>0, <1>1, <1>2, <1>3, <1>b DEF Waits, SemaphoreWaits, EventWaits

(* What the execution of its command changes for the handle that waits. *)
LEMMA ExecuteFacts ==
  ASSUME Base, NEW h \in Handles, Execute(h)
  PROVE  /\ ClientInv /\ ClientInv' /\ ServerInv /\ ServerInv'
         /\ at[h] # "idle" /\ reply[h] = "none"
         /\ reply'[h] = ResultOf(holders[req[h].key], req[h]) /\ reply'[h] # "none"
         /\ req[h] \in LockCommands /\ Fits(req[h]) /\ holders' = Executed(req[h])
         /\ UNCHANGED <<role, size, at, req, calls, held, read_locks, late, losses, shed>>
         /\ Backing(h) = held[h] /\ held[h] \in Nat
         /\ Backing(h)' = (IF at[h] \in {"acquire", "leaf"} /\ reply'[h] = "succed"
                           THEN held[h] + 1
                           ELSE IF at[h] = "release" /\ reply'[h] = "succed" THEN Less(held[h])
                           ELSE held[h])
         /\ \A q \in Handles \ {h} :
              Backing(q)' = Backing(q) /\ \A id : ReadBy(q, id)' <=> ReadBy(q, id)
         /\ \A q \in Handles : Backing(q) \in Nat
  <1>0. ClientInv /\ ClientInv' /\ ServerInv /\ ServerInv'
    BY ExecuteClient, ExecuteServer DEF Base
  <1>1. /\ at[h] # "idle" /\ reply[h] = "none"
        /\ reply'[h] = ResultOf(holders[req[h].key], req[h])
        /\ \A q \in Handles \ {h} : reply'[q] = reply[q]
        /\ holders' = Executed(req[h])
        /\ UNCHANGED <<role, size, at, req, calls, held, read_locks, late, losses, shed>>
    BY <1>0 DEF ClientInv, ClientType, Asked, Execute
  <1>2. req[h] \in LockCommands /\ Fits(req[h])
    BY <1>0, <1>1, WaitsFit
  <1>3. reply'[h] # "none"
    <2>1. req[h].key \in Keys /\ holders[req[h].key] \in Seq(Holders)
      BY <1>0, <1>2 DEF ServerInv, Queues, LockCommands
    <2> QED  BY <1>1, <1>2, <2>1, ServerType DEF ReplyCodes
  <1>4. Backing(h) = held[h] /\ held[h] \in Nat
    BY <1>0, <1>1 DEF Backing, Succeeded, ClientInv, ClientType
  <1>5. Backing(h)' = (IF at[h] \in {"acquire", "leaf"} /\ reply'[h] = "succed"
                       THEN held[h] + 1
                       ELSE IF at[h] = "release" /\ reply'[h] = "succed" THEN Less(held[h])
                       ELSE held[h])
    BY <1>1 DEF Backing, Succeeded
  <1>6. \A q \in Handles \ {h} :
              Backing(q)' = Backing(q) /\ \A id : ReadBy(q, id)' <=> ReadBy(q, id)
    BY <1>1 DEF Backing, ReadBy, Readers, Succeeded
  <1>7. \A q \in Handles : Backing(q) \in Nat
    BY <1>0, ReliedFacts
  <1> QED  BY <1>0, <1>1, <1>2, <1>3, <1>4, <1>5, <1>6, <1>7

(* No command that is executed while its caller waits leaves an orphan. *)
LEMMA ExecuteOrphans ==
  ASSUME Base, ReadIds, Plain, NEW h \in Handles, Execute(h)
  PROVE  Orphans' \subseteq Orphans
  <1> DEFINE r == req[h]
             hs == holders["key"]
  <1>0. /\ ClientInv /\ ClientInv' /\ at[h] # "idle" /\ reply[h] = "none" /\ reply'[h] # "none"
        /\ reply'[h] = ResultOf(holders[r.key], r)
        /\ r \in LockCommands /\ Fits(r) /\ holders' = Executed(r) /\ Queues
        /\ UNCHANGED <<role, size, at, req, calls, held, read_locks, late, losses, shed>>
        /\ Backing(h) = held[h] /\ held[h] \in Nat
        /\ Backing(h)' = (IF at[h] \in {"acquire", "leaf"} /\ reply'[h] = "succed"
                           THEN held[h] + 1
                           ELSE IF at[h] = "release" /\ reply'[h] = "succed" THEN Less(held[h])
                           ELSE held[h])
        /\ \A q \in Handles \ {h} :
              Backing(q)' = Backing(q) /\ \A id : ReadBy(q, id)' <=> ReadBy(q, id)
        /\ \A q \in Handles : Backing(q) \in Nat
    BY ExecuteFacts DEF ServerInv
  <1>a. hs \in Seq(Holders) /\ Orderly(hs)
    BY <1>0 DEF Queues, Keys
  <1>1. /\ req[h].mode # "first"
        /\ at[h] \in {"acquire", "leaf"} =>
             req[h].cmd = "lock" /\ req[h].id = OwnId(h) /\ req[h].key = KeyOf(h)
        /\ at[h] = "acquire" => req[h].mode = "keep"
        /\ at[h] = "leaf" => KeyOf(h) # "key"
        /\ at[h] = "release" =>
             req[h].cmd = "unlock" /\ req[h].id = OwnId(h) /\ req[h].key = KeyOf(h)
        /\ at[h] = "acquireRead" =>
             /\ req[h].cmd = "lock" /\ req[h].mode = "keep" /\ req[h].key = "key"
             /\ req[h].id \notin OwnIds
        /\ at[h] = "releaseRead" =>
             /\ req[h].cmd = "unlock" /\ req[h].mode = "own" /\ req[h].key = "key"
             /\ req[h].id \notin OwnIds
        /\ at[h] \notin {"acquire", "release", "acquireRead", "releaseRead"} =>
             req[h].key # "key"
    BY <1>0, PlainWaits
  <1>2. at[h] # "releaseRead" => \A id : ReadBy(h, id) => ReadBy(h, id)'
    <2> SUFFICES ASSUME at[h] # "releaseRead", NEW id, ReadBy(h, id) PROVE ReadBy(h, id)'
      OBVIOUS
    <2>1. Readers(h) = read_locks[h]
      BY <1>0 DEF Readers, Succeeded
    <2>2. PICK i \in DOMAIN read_locks[h] : read_locks[h][i] = id
      BY <2>1 DEF ReadBy
    <2>3. CASE at[h] = "acquireRead"
      <3>1. /\ DOMAIN Append(read_locks[h], req[h].id) = 1 .. Len(read_locks[h]) + 1
            /\ \A j \in DOMAIN read_locks[h] : Append(read_locks[h], req[h].id)[j] = read_locks[h][j]
            /\ DOMAIN read_locks[h] = 1 .. Len(read_locks[h]) /\ Len(read_locks[h]) \in Nat
        BY <1>0, <2>3, ReadersFacts
      <3>2. i \in DOMAIN Append(read_locks[h], req[h].id)
            /\ Append(read_locks[h], req[h].id)[i] = id
        BY <2>2, <3>1
      <3>3. \/ Readers(h)' = read_locks[h] \/ Readers(h)' = Append(read_locks[h], req[h].id)
        BY <1>0 DEF Readers
      <3>4. \E j \in DOMAIN Readers(h)' : Readers(h)'[j] = id
        BY <2>2, <3>2, <3>3
      <3> QED  BY <3>4 DEF ReadBy
    <2>4. CASE at[h] # "acquireRead"
      <3>1. Readers(h)' = read_locks[h]
        BY <1>0, <2>4 DEF Readers
      <3> QED  BY <2>2, <3>1 DEF ReadBy
    <2> QED  BY <2>3, <2>4
  <1>3. CASE r.key # "key"
    <2>1. at[h] # "releaseRead" /\ holders'["key"] = hs
      BY <1>0, <1>1, <1>3, ExecutedKeeps
    <2>2. \A q \in Handles : KeyOf(q) = "key" => Backing(q) =< Backing(q)'
      <3>1. KeyOf(h) = "key" => Backing(h)' = Backing(h)
        BY <1>0, <1>1, <1>3
      <3> QED  BY <1>0, <3>1
    <2>3. \A id : \A q \in Handles : ReadBy(q, id) => ReadBy(q, id)'
      BY <1>0, <1>2, <2>1
    <2> QED  BY <1>0, <2>1, <2>2, <2>3, OrphansSame
  <1>4. CASE r.key = "key"
    <2>0. holders'["key"] = AfterOf(hs, r) /\ reply'[h] = ResultOf(hs, r)
      BY <1>0, <1>4, ExecutedKeeps
    <2>k. KeyOf(h)' = KeyOf(h) /\ \A q \in Handles : OwnId(q)' = OwnId(q) /\ KeyOf(q)' = KeyOf(q)
      BY <1>0 DEF KeyOf, OwnId
    <2>1. ASSUME NEW id, NEW n \in Nat, NEW d \in Int, Deep(AfterOf(hs, r), id, d),
                 Spare(id, n, d)'
          PROVE  \E e \in Int : Deep(hs, id, e) /\ Spare(id, n, e)
      <3>1. n \in 1 .. d /\ \A q \in Handles : ~ReadBy(q, id)'
        BY <2>1 DEF Spare
      <3>2. ASSUME Deep(hs, id, d), id # r.id \/ (Backing(h)' = Backing(h) /\ at[h] # "releaseRead")
            PROVE  Spare(id, n, d)
        <4>1. \A q \in Handles : KeyOf(q) = "key" /\ id = OwnId(q) =>
                 Backing(q) + d =< Backing(q)' + d
          <5>1. ASSUME NEW q \in Handles, id = OwnId(q)
                PROVE  Backing(q)' = Backing(q)
            <6>1. q = h => Backing(h)' = Backing(h)
              BY <1>0, <1>1, <3>2, <5>1
            <6> QED  BY <1>0, <6>1
          <5> QED  BY <1>0, <5>1
        <4>2. \A q \in Handles : ReadBy(q, id) => ReadBy(q, id)'
          <5>1. CASE at[h] # "releaseRead"
            BY <1>0, <1>2, <5>1
          <5>2. CASE at[h] = "releaseRead"
            <6>1. Readers(h) = read_locks[h] /\ Readers(h)' = read_locks[h] /\ id # r.id
              BY <1>0, <3>2, <5>2 DEF Readers
            <6>2. ReadBy(h, id) => ReadBy(h, id)'
              BY <6>1 DEF ReadBy
            <6> QED  BY <1>0, <6>2
          <5> QED  BY <5>1, <5>2
        <4> QED  BY <1>0, <2>1, <3>1, <4>1, <4>2, SpareBefore
      <3>3. CASE at[h] = "acquire"
        <4>1. r.cmd = "lock" /\ r.mode = "keep" /\ r.id = OwnId(h) /\ KeyOf(h) = "key"
          BY <1>1, <1>4, <3>3
        <4>2. \/ Deep(hs, id, d) /\ ~(id = r.id /\ ResultOf(hs, r) = "succed")
              \/ /\ id = r.id /\ ResultOf(hs, r) = "succed"
                 /\ d = 1 \/ Deep(hs, id, d - 1)
          BY <1>0, <1>a, <2>1, <4>1, LockDeep
        <4>3. CASE Deep(hs, id, d) /\ ~(id = r.id /\ ResultOf(hs, r) = "succed")
          <5>1. id # r.id \/ (Backing(h)' = Backing(h) /\ at[h] # "releaseRead")
            BY <1>0, <2>0, <3>3, <4>3
          <5> QED  BY <3>2, <4>3, <5>1
        <4>4. CASE /\ id = r.id /\ ResultOf(hs, r) = "succed"
                   /\ d = 1 \/ Deep(hs, id, d - 1)
          <5>1. Backing(h)' = held[h] + 1
            BY <1>0, <2>0, <3>3, <4>4
          <5>2. n + Backing(h)' =< d
            BY <2>1, <2>k, <4>1, <4>4 DEF Spare
          <5>3. n =< d - 1 /\ Deep(hs, id, d - 1)
            BY <1>0, <3>1, <4>4, <5>1, <5>2
          <5>4. \A q \in Handles : KeyOf(q) = "key" /\ id = OwnId(q) =>
                  Backing(q) + d =< Backing(q)' + (d - 1)
            <6>1. \A q \in Handles : id = OwnId(q) => q = h
              BY <4>1, <4>4, ForeignIds
            <6> QED  BY <1>0, <5>1, <6>1
          <5>5. \A q \in Handles : ReadBy(q, id) => ReadBy(q, id)'
            BY <1>0, <1>2, <3>3
          <5>6. Spare(id, n, d - 1)
            BY <1>0, <2>1, <5>3, <5>4, <5>5, SpareBefore
          <5> QED  BY <5>3, <5>6
        <4> QED  BY <4>2, <4>3, <4>4
      <3>4. CASE at[h] = "release"
        <4>1. r.cmd = "unlock" /\ r.id = OwnId(h) /\ KeyOf(h) = "key" /\ r.mode # "first"
          BY <1>1, <1>4, <3>4
        <4>2. \/ Deep(hs, id, d) /\ (ResultOf(hs, r) = "succed" => id # Victim(hs, r))
              \/ Deep(hs, id, d + 1) /\ ResultOf(hs, r) = "succed" /\ id = Victim(hs, r)
          BY <1>0, <1>a, <2>1, <4>1, UnlockDeep
        <4>3. ResultOf(hs, r) = "succed" => Victim(hs, r) = r.id
          BY <1>0, <1>a, <4>1, UnlockCases DEF ResultOf
        <4>4. CASE Deep(hs, id, d) /\ (ResultOf(hs, r) = "succed" => id # Victim(hs, r))
          <5>1. id # r.id \/ (Backing(h)' = Backing(h) /\ at[h] # "releaseRead")
            BY <1>0, <2>0, <3>4, <4>3, <4>4
          <5> QED  BY <3>2, <4>4, <5>1
        <4>5. CASE Deep(hs, id, d + 1) /\ ResultOf(hs, r) = "succed" /\ id = Victim(hs, r)
          <5>1. Backing(h)' = Less(held[h]) /\ Less(held[h]) \in Nat /\ held[h] =< Less(held[h]) + 1
            BY <1>0, <2>0, <3>4, <4>5 DEF Less
          <5>2. \A q \in Handles : KeyOf(q) = "key" /\ id = OwnId(q) =>
                  Backing(q) + d =< Backing(q)' + (d + 1)
            <6>1. \A q \in Handles : id = OwnId(q) => q = h
              BY <4>1, <4>3, <4>5, ForeignIds
            <6> QED  BY <1>0, <5>1, <6>1
          <5>3. \A q \in Handles : ReadBy(q, id) => ReadBy(q, id)'
            BY <1>0, <1>2, <3>4
          <5>4. n =< d + 1
            BY <3>1
          <5>5. Spare(id, n, d + 1)
            BY <1>0, <2>1, <5>2, <5>3, <5>4, SpareBefore
          <5> QED  BY <4>5, <5>5
        <4> QED  BY <4>2, <4>4, <4>5
      <3>5. CASE at[h] = "acquireRead"
        <4>1. r.cmd = "lock" /\ r.mode = "keep" /\ Backing(h)' = Backing(h)
          BY <1>0, <1>1, <3>5
        <4>2. id = r.id => ResultOf(hs, r) # "succed"
          <5> SUFFICES ASSUME id = r.id, ResultOf(hs, r) = "succed" PROVE FALSE
            OBVIOUS
          <5>1. Readers(h)' = Append(read_locks[h], req[h].id)
            BY <1>0, <2>0, <3>5 DEF Readers, Succeeded
          <5>2. /\ DOMAIN Append(read_locks[h], req[h].id) = 1 .. Len(read_locks[h]) + 1
                /\ Append(read_locks[h], req[h].id)[Len(read_locks[h]) + 1] = req[h].id
                /\ Len(read_locks[h]) \in Nat
            BY <1>0, <3>5, ReadersFacts
          <5>3. Len(read_locks[h]) + 1 \in DOMAIN Readers(h)'
                /\ Readers(h)'[Len(read_locks[h]) + 1] = id
            BY <5>1, <5>2
          <5>4. ReadBy(h, id)'
            BY <5>3 DEF ReadBy
          <5> QED  BY <3>1, <5>4
        <4>3. Deep(hs, id, d)
          BY <1>0, <1>a, <2>1, <4>1, <4>2, LockDeep
        <4> QED  BY <3>2, <3>5, <4>1, <4>3
      <3>6. CASE at[h] = "releaseRead"
        <4>1. r.cmd = "unlock" /\ r.mode = "own" /\ r.id \notin OwnIds
          BY <1>1, <3>6
        <4>2. r.id \notin Ids(Executed(r)["key"])
          <5>1. "key" \in Keys
            BY DEF Keys
          <5> QED  BY <1>0, <1>4, <4>1, <5>1, UnlockedGone
        <4>3. id # r.id
          BY <1>0, <2>0, <2>1, <4>2 DEF Deep, Ids
        <4>4. ResultOf(hs, r) = "succed" => Victim(hs, r) = r.id
          BY <1>0, <1>a, <4>1, UnlockCases DEF ResultOf
        <4>5. Deep(hs, id, d)
          BY <1>0, <1>a, <2>1, <4>1, <4>3, <4>4, UnlockDeep
        <4> QED  BY <3>2, <4>3, <4>5
      <3> QED  BY <1>1, <1>4, <3>3, <3>4, <3>5, <3>6
    <2>2. \A id : \A n \in Nat : Orphaned(id, n)' => Orphaned(id, n) \/ <<id, n>> \in {}
      <3> SUFFICES ASSUME NEW id, NEW n \in Nat, Orphaned(id, n)' PROVE Orphaned(id, n)
        OBVIOUS
      <3>1. PICK d \in Int : Deep(holders["key"], id, d)' /\ Spare(id, n, d)'
        BY DEF Orphaned
      <3>2. Deep(AfterOf(hs, r), id, d)
        BY <2>0, <3>1 DEF Deep
      <3> QED  BY <2>1, <3>1, <3>2 DEF Orphaned
    <2>3. Orphans' \subseteq Orphans \cup {}
      BY <2>2, OrphansFrom
    <2> QED  BY <2>3
  <1> QED  BY <1>3, <1>4

(* The server adds no orphan by executing a command whose caller waits.    *)
LEMMA ExecutePlain ==
  ASSUME Base, ReadIds, PlainLeak, NEW h \in Handles, Execute(h)
  PROVE  PlainLeak'
  <1>1. ServerInv /\ ServerInv' /\ UNCHANGED <<role, late, losses>> /\ losses \in Nat
    <2>1. ServerInv /\ ServerInv' /\ UNCHANGED <<role, late, losses>>
      BY ExecuteFacts
    <2> QED  BY <2>1, PrimitivesAssumption DEF ServerInv
  <1>2. Plain => Orphans' \subseteq Orphans
    BY ExecuteOrphans
  <1>3. LateLocks' \subseteq LateLocks /\ losses' >= losses
    BY <1>1 DEF LateLocks
  <1> QED  BY <1>1, <1>2, <1>3, PlainCounts

(* An orphan more, if any two new ones are the same. *)
LEMMA OneMore ==
  ASSUME NEW O, NEW O2, \A p, q \in O2 \ O : p = q
  PROVE  \E p : O2 \subseteq O \cup {p}
  OBVIOUS

(* An entry has one depth, which is 1 unless a handle keeps its id. *)
LEMMA DeepOnce ==
  ASSUME NEW hs \in Seq(Holders), Orderly(hs), NEW id
  PROVE  /\ \A d \in Int : \A e \in Int : Deep(hs, id, d) /\ Deep(hs, id, e) => d = e
         /\ id \notin OwnIds => \A d \in Int : Deep(hs, id, d) => d = 1
  BY DEF Orderly, Sane, FitsIn, Deep

(* If the server and the counts stay, and one read lock is forgotten, its  *)
(* entry, entered once, is the only new orphan.                            *)
LEMMA OrphanedReader ==
  ASSUME ServerInv, ClientInv, ClientInv', role' = role, holders'["key"] = holders["key"],
         \A q \in Handles : KeyOf(q) = "key" => Backing(q) =< Backing(q)',
         NEW lost, lost \notin OwnIds,
         \A id : id # lost => \A q \in Handles : ReadBy(q, id) => ReadBy(q, id)'
  PROVE  \E p : Orphans' \subseteq Orphans \cup {p}
  <1>1. ASSUME NEW id, NEW n \in Nat, Orphaned(id, n)'
        PROVE  Orphaned(id, n) \/ <<id, n>> \in {<<lost, 1>>}
    <2>1. PICK d \in Int : Deep(holders["key"], id, d)' /\ Spare(id, n, d)'
      BY <1>1 DEF Orphaned
    <2>2. Deep(holders["key"], id, d) /\ n \in 1 .. d
      BY <2>1 DEF Deep, Spare
    <2>3. CASE id = lost
      <3>1. holders["key"] \in Seq(Holders) /\ Orderly(holders["key"])
        BY DEF ServerInv, Queues, Keys
      <3>2. d = 1
        BY <2>2, <2>3, <3>1, DeepOnce
      <3> QED  BY <2>2, <2>3, <3>2
    <2>4. CASE id # lost
      <3>1. \A q \in Handles : KeyOf(q) = "key" => Backing(q) + d =< Backing(q)' + d
        <4> SUFFICES ASSUME NEW q \in Handles, KeyOf(q) = "key" PROVE Backing(q) + d =< Backing(q)' + d
          OBVIOUS
        <4>1. Backing(q) \in Nat /\ Backing(q) =< Backing(q)'
          BY ReliedFacts
        <4>2. Backing(q)' \in Nat
          <5>1. held' \in [Handles -> Nat]
            BY DEF ClientInv, ClientType
          <5> QED  BY <5>1 DEF Backing, Less
        <4> QED  BY <4>1, <4>2
      <3>2. Spare(id, n, d)
        BY <2>1, <2>2, <2>4, <3>1, SpareBefore
      <3> QED  BY <2>2, <3>2 DEF Orphaned
    <2> QED  BY <2>3, <2>4
  <1>2. Orphans' \subseteq Orphans \cup {<<lost, 1>>}
    BY <1>1, OrphansFrom
  <1> QED  BY <1>2

(* A command given up leaves an orphan, if it was an unlock, or a late     *)
(* lock that may make one.                                                 *)
LEMMA GiveUpPlain ==
  ASSUME Base, ReadIds, PlainLeak, NEW h \in Handles, GiveUp(h)
  PROVE  PlainLeak'
  <1>0. /\ ClientInv /\ ClientInv' /\ ServerInv /\ ServerInv'
        /\ at[h] # "idle" /\ reply[h] = "none" /\ reply'[h] = "error"
        /\ \A q \in Handles \ {h} : reply'[q] = reply[q]
        /\ late' = late \cup {[n |-> losses, req |-> req[h]]} /\ losses' = losses + 1
        /\ UNCHANGED <<role, at, req, held, read_locks, holders>>
    <2>1. ClientInv /\ ClientInv' /\ ServerInv /\ ServerInv'
      BY GiveUpClient, GiveUpServer DEF Base
    <2> QED  BY <2>1 DEF ClientInv, ClientType, Asked, GiveUp
  <1> DEFINE x == [n |-> losses, req |-> req[h]]
  <1>1. \A q \in Handles : Backing(q) \in Nat /\ Backing(q)' = Backing(q)
    <2>1. \A q \in Handles : Backing(q)' = Backing(q)
      BY <1>0 DEF Backing, Succeeded
    <2> QED  BY <1>0, <2>1, ReliedFacts
  <1>2. \A q \in Handles : KeyOf(q) = "key" => Backing(q) =< Backing(q)'
    BY <1>1
  <1>3. \A q \in Handles : Readers(q)' = Readers(q)
    BY <1>0 DEF Readers, Succeeded
  <1>4. \A id : \A q \in Handles :
          ReadBy(q, id) => ReadBy(q, id)' \/ (q = h /\ at[h] = "releaseRead" /\ id = req[h].id)
    BY <1>0, <1>3 DEF ReadBy
  <1>5. x.req = req[h]
    OBVIOUS
  <1>6. LateLocks' \subseteq LateLocks \cup {x}
    BY <1>0 DEF LateLocks
  <1>7. CASE at[h] # "releaseRead"
    <2>1. Orphans' \subseteq Orphans
      BY <1>0, <1>2, <1>4, <1>7, OrphansSame
    <2> QED  BY <1>0, <1>6, <2>1, PlainCounts
  <1>8. CASE at[h] = "releaseRead"
    <2>1. ASSUME Plain
          PROVE  LateLocks' \subseteq LateLocks /\ \E p : Orphans' \subseteq Orphans \cup {p}
      <3>1. req[h].cmd = "unlock" /\ req[h].id \notin OwnIds
        BY <1>0, <1>8, <2>1, PlainWaits
      <3>2. LateLocks' \subseteq LateLocks
        BY <1>0, <1>5, <3>1 DEF LateLocks
      <3>3. \A id : id # req[h].id => \A q \in Handles : ReadBy(q, id) => ReadBy(q, id)'
        BY <1>4
      <3>4. \E p : Orphans' \subseteq Orphans \cup {p}
        BY <1>0, <1>2, <3>1, <3>3, OrphanedReader
      <3> QED  BY <3>2, <3>4
    <2> QED  BY <1>0, <2>1, PlainCounts
  <1> QED  BY <1>7, <1>8

(* A lock that is executed late leaves at most one orphan more, the hold   *)
(* it adds, and an unlock none.                                            *)
LEMMA LateOrphans ==
  ASSUME Base, Base', UNCHANGED <<role, size, clientVars>>, NEW r \in LockCommands, Fits(r),
         holders' = Executed(r)
  PROVE  /\ r.cmd = "unlock" => Orphans' \subseteq Orphans
         /\ r.cmd = "lock" => \E p : Orphans' \subseteq Orphans \cup {p}
  <1> DEFINE hs == holders["key"]
             as == AfterOf(hs, r)
  <1>0. ClientInv /\ ClientInv' /\ Queues /\ Queues'
    BY DEF Base, ServerInv
  <1>1. hs \in Seq(Holders) /\ Orderly(hs) /\ as \in Seq(Holders) /\ Orderly(as)
    <2>1. hs \in Seq(Holders) /\ Orderly(hs)
      BY <1>0 DEF Queues, Keys
    <2> QED  BY <2>1, AfterOrderly
  <1>2. holders'["key"] = as \/ holders'["key"] = hs
    BY <1>0, ExecutedKeeps
  <1>3. /\ \A q \in Handles : Backing(q) \in Nat /\ Backing(q)' = Backing(q)
        /\ \A q \in Handles : KeyOf(q)' = KeyOf(q) /\ OwnId(q)' = OwnId(q)
        /\ \A id : \A q \in Handles : ReadBy(q, id)' <=> ReadBy(q, id)
    <2>1. \A q \in Handles : Backing(q)' = Backing(q) /\ KeyOf(q)' = KeyOf(q) /\ OwnId(q)' = OwnId(q)
          /\ \A id : ReadBy(q, id)' <=> ReadBy(q, id)
      BY DEF Backing, Succeeded, KeyOf, OwnId, ReadBy, Readers, clientVars
    <2> QED  BY <1>0, <2>1, ReliedFacts
  <1>4. CASE holders'["key"] = hs
    <2>1. \A q \in Handles : KeyOf(q) = "key" => Backing(q) =< Backing(q)'
      BY <1>3
    <2>2. Orphans' \subseteq Orphans
      BY <1>0, <1>3, <1>4, <2>1, OrphansSame
    <2> QED  BY <2>2
  <1>5. CASE holders'["key"] = as
    <2>1. \A id : \A n : \A d : Spare(id, n, d)' <=> Spare(id, n, d)
      BY <1>3 DEF Spare
    <2>2. CASE r.cmd = "unlock"
      <3>1. ASSUME NEW id, NEW n \in Nat, Orphaned(id, n)'
            PROVE  Orphaned(id, n)
        <4>1. PICK d \in Int : Deep(as, id, d) /\ Spare(id, n, d)
          BY <1>5, <2>1, <3>1 DEF Orphaned, Deep
        <4>2. \E e \in {d, d + 1} : Deep(hs, id, e)
          BY <1>1, <2>2, <4>1, UnlockDeep
        <4>3. PICK e \in {d, d + 1} : Deep(hs, id, e)
          BY <4>2
        <4>4. e \in Int /\ d =< e
          BY <4>3
        <4>5. n \in 1 .. e /\ \A q \in Handles : ~ReadBy(q, id)
          BY <4>1, <4>4 DEF Spare
        <4>6. \A q \in Handles : KeyOf(q) = "key" /\ id = OwnId(q) => n + Backing(q) =< e
          BY <1>3, <4>1, <4>4 DEF Spare
        <4>7. Spare(id, n, e)
          BY <4>5, <4>6 DEF Spare
        <4> QED  BY <4>3, <4>4, <4>7 DEF Orphaned
      <3>2. Orphans' \subseteq Orphans \cup {}
        BY <3>1, OrphansFrom
      <3> QED  BY <2>2, <3>2
    <2>3. CASE r.cmd = "lock"
      <3>1. ASSUME NEW id, NEW n \in Nat, Orphaned(id, n)', ~Orphaned(id, n)
            PROVE  /\ id = r.id
                   /\ \E d \in Int :
                        /\ Deep(as, id, d) /\ n \in 1 .. d
                        /\ \A q \in Handles : KeyOf(q) = "key" /\ id = OwnId(q) =>
                             n + Backing(q) =< d
                        /\ \/ n = d
                           \/ \E q \in Handles : KeyOf(q) = "key" /\ id = OwnId(q) /\ n + Backing(q) = d
        <4>1. PICK d \in Int : Deep(as, id, d) /\ Spare(id, n, d)
          BY <1>5, <2>1, <3>1 DEF Orphaned, Deep
        <4>2. id = r.id /\ (d = 1 \/ Deep(hs, id, d - 1))
          <5>1. ~Deep(hs, id, d)
            BY <3>1, <4>1 DEF Orphaned
          <5> QED  BY <1>1, <2>3, <4>1, <5>1, LockDeep
        <4>3. /\ n \in 1 .. d /\ \A q \in Handles : ~ReadBy(q, id)
              /\ \A q \in Handles : KeyOf(q) = "key" /\ id = OwnId(q) => n + Backing(q) =< d
          BY <4>1 DEF Spare
        <4>4. CASE d = 1
          BY <4>1, <4>2, <4>3, <4>4
        <4>5. CASE Deep(hs, id, d - 1)
          <5>1. ~Spare(id, n, d - 1)
            BY <3>1, <4>5 DEF Orphaned
          <5>2. CASE n \notin 1 .. d - 1
            <6>1. n = d
              BY <4>3, <5>2
            <6> QED  BY <4>1, <4>2, <4>3, <6>1
          <5>3. CASE n \in 1 .. d - 1
            <6>1. PICK q \in Handles : KeyOf(q) = "key" /\ id = OwnId(q) /\ ~(n + Backing(q) =< d - 1)
              BY <4>3, <5>1, <5>3 DEF Spare
            <6>2. n + Backing(q) =< d
              BY <4>3, <6>1
            <6>3. n + Backing(q) = d
              BY <1>3, <6>1, <6>2
            <6> QED  BY <4>1, <4>2, <4>3, <6>1, <6>3
          <5> QED  BY <5>2, <5>3
        <4> QED  BY <4>2, <4>4, <4>5
      <3>2. ASSUME NEW p \in Orphans' \ Orphans, NEW q \in Orphans' \ Orphans
            PROVE  p = q
        <4>1. p[2] \in Nat /\ q[2] \in Nat /\ p = <<p[1], p[2]>> /\ q = <<q[1], q[2]>>
              /\ Orphaned(p[1], p[2])' /\ ~Orphaned(p[1], p[2])
              /\ Orphaned(q[1], q[2])' /\ ~Orphaned(q[1], q[2])
          BY <3>2 DEF Orphans
        <4> DEFINE id == r.id
        <4>2. p[1] = id /\ q[1] = id
          BY <3>1, <4>1
        <4>3. PICK d \in Int :
                /\ Deep(as, id, d) /\ p[2] \in 1 .. d
                /\ \A g \in Handles : KeyOf(g) = "key" /\ id = OwnId(g) => p[2] + Backing(g) =< d
                /\ \/ p[2] = d
                   \/ \E g \in Handles : KeyOf(g) = "key" /\ id = OwnId(g) /\ p[2] + Backing(g) = d
          BY <3>1, <4>1, <4>2
        <4>4. PICK e \in Int :
                /\ Deep(as, id, e) /\ q[2] \in 1 .. e
                /\ \A g \in Handles : KeyOf(g) = "key" /\ id = OwnId(g) => q[2] + Backing(g) =< e
                /\ \/ q[2] = e
                   \/ \E g \in Handles : KeyOf(g) = "key" /\ id = OwnId(g) /\ q[2] + Backing(g) = e
          BY <3>1, <4>1, <4>2
        <4>5. d = e
          BY <1>1, <4>3, <4>4, DeepOnce
        <4>6. p[2] = q[2]
          <5>1. \A g \in Handles : Backing(g) \in Nat
            BY <1>3
          <5>2. \A f, g \in Handles : id = OwnId(f) /\ id = OwnId(g) => f = g
            BY ForeignIds
          <5> HIDE DEF id
          <5>3. CASE p[2] = d /\ q[2] = e
            BY <4>5, <5>3
          <5>4. CASE p[2] = d /\ \E g \in Handles : KeyOf(g) = "key" /\ id = OwnId(g) /\ q[2] + Backing(g) = e
            BY <4>1, <4>3, <4>5, <5>1, <5>4
          <5>5. CASE q[2] = e /\ \E g \in Handles : KeyOf(g) = "key" /\ id = OwnId(g) /\ p[2] + Backing(g) = d
            BY <4>1, <4>4, <4>5, <5>1, <5>5
          <5>6. CASE /\ \E g \in Handles : KeyOf(g) = "key" /\ id = OwnId(g) /\ p[2] + Backing(g) = d
                     /\ \E g \in Handles : KeyOf(g) = "key" /\ id = OwnId(g) /\ q[2] + Backing(g) = e
            <6>1. PICK g \in Handles : id = OwnId(g) /\ p[2] + Backing(g) = d
              BY <5>6
            <6>2. PICK f \in Handles : id = OwnId(f) /\ q[2] + Backing(f) = e
              BY <5>6
            <6>3. f = g /\ Backing(g) \in Nat
              BY <5>1, <5>2, <6>1, <6>2
            <6> QED  BY <4>1, <4>5, <6>1, <6>2, <6>3
          <5> QED  BY <4>3, <4>4, <5>3, <5>4, <5>5, <5>6
        <4> QED  BY <4>1, <4>2, <4>6
      <3> QED  BY <2>3, <3>2, OneMore
    <2> QED  BY <2>2, <2>3
  <1> QED  BY <1>2, <1>4, <1>5

(* A late lock executed turns into the orphan it was counted as.           *)
LEMMA ExecuteLatePlain ==
  ASSUME Base, PlainLeak, ExecuteLate
  PROVE  PlainLeak'
  <1>1. PICK x \in late :
          /\ late' = late \ {x} /\ holders' = Executed(x.req)
          /\ UNCHANGED <<role, size, clientVars, losses>>
    BY DEF ExecuteLate
  <1>2. ClientInv' /\ ServerInv' /\ Base' /\ ServerInv
    BY <1>1, ClientSame, ExecuteLateServer DEF Base
  <1>3. x.req \in LockCommands /\ Fits(x.req) /\ losses \in Nat
    BY <1>2, PrimitivesAssumption DEF ServerInv
  <1>4. /\ x.req.cmd = "unlock" => Orphans' \subseteq Orphans
        /\ x.req.cmd = "lock" => \E p : Orphans' \subseteq Orphans \cup {p}
    BY <1>1, <1>2, <1>3, LateOrphans
  <1>5. CASE x.req.cmd = "lock"
    <2>1. x \in LateLocks /\ LateLocks' = LateLocks \ {x}
      BY <1>1, <1>5 DEF LateLocks
    <2> QED  BY <1>1, <1>2, <1>4, <1>5, <2>1, PlainCounts
  <1>6. CASE x.req.cmd = "unlock"
    <2>1. LateLocks' \subseteq LateLocks /\ losses' >= losses
      BY <1>1, <1>3 DEF LateLocks
    <2> QED  BY <1>1, <1>2, <1>4, <1>6, <2>1, PlainCounts
  <1> QED  BY <1>3, <1>5, <1>6 DEF LockCommands

(* What expires is no orphan any more.                                     *)
LEMMA ExpirePlain ==
  ASSUME Base, PlainLeak, Expire
  PROVE  PlainLeak'
  <1>0. UNCHANGED <<role, size, clientVars, late, losses>>
    BY DEF Expire
  <1>1. ClientInv /\ ClientInv' /\ ServerInv /\ ServerInv' /\ losses \in Nat
    <2>1. ClientInv /\ ClientInv' /\ ServerInv /\ ServerInv'
      BY <1>0, ClientSame, ExpireServer DEF Base
    <2> QED  BY <2>1, PrimitivesAssumption DEF ServerInv
  <1> DEFINE hs == holders["key"]
  <1>2. hs \in Seq(Holders) /\ holders \in [Keys -> Seq(Holders)] /\ "key" \in Keys
    BY <1>1 DEF ServerInv, Queues, Keys
  <1>3. holders'["key"] = hs \/ \E id : holders'["key"] = Without(hs, id)
    <2>1. PICK k \in Keys : \E i \in DOMAIN holders[k] :
            holders' = [holders EXCEPT ![k] = Without(@, @[i].id)]
      BY DEF Expire
    <2> QED  BY <1>2, <2>1
  <1>4. \A id : \A d \in Int : Deep(holders["key"], id, d)' => Deep(hs, id, d)
    <2>1. ASSUME NEW v, NEW id, NEW d \in Int, Deep(Without(hs, v), id, d)
          PROVE  Deep(hs, id, d)
      <3>1. \A i \in DOMAIN Without(hs, v) : \E j \in DOMAIN hs : hs[j] = Without(hs, v)[i]
        BY <1>2, OutFacts
      <3> QED  BY <2>1, <3>1 DEF Deep
    <2>2. CASE holders'["key"] = hs
      BY <2>2 DEF Deep
    <2>3. ASSUME NEW v, holders'["key"] = Without(hs, v)
          PROVE  \A id : \A d \in Int : Deep(holders["key"], id, d)' => Deep(hs, id, d)
      <3>1. \A id : \A d \in Int : Deep(holders["key"], id, d)' => Deep(Without(hs, v), id, d)
        BY <2>3 DEF Deep
      <3> QED  BY <2>1, <3>1
    <2> QED  BY <1>3, <2>2, <2>3
  <1>5. \A id : \A n : \A d : Spare(id, n, d)' <=> Spare(id, n, d)
    BY <1>0 DEF Spare, Backing, Succeeded, KeyOf, OwnId, ReadBy, Readers, clientVars
  <1>6. Orphans' \subseteq Orphans
    BY <1>4, <1>5 DEF Orphans, Orphaned
  <1>7. LateLocks' \subseteq LateLocks /\ losses' >= losses
    BY <1>0, <1>1 DEF LateLocks
  <1> QED  BY <1>0, <1>1, <1>6, <1>7, PlainCounts

(* With no call under way, an entry without an orphan is a place of its    *)
(* own that callers rely on.                                               *)
LEMMA PlainPlaces ==
  ASSUME ClientInv, ServerInv, ReadIds, Plain, PlainLeak, \A h \in Handles : at[h] = "idle"
  PROVE  Len(holders["key"]) =< PlacesAt("key") + losses
  <1> DEFINE hs == holders["key"]
             D == DOMAIN hs
             Lone == {i \in D : Orphaned(hs[i].id, 1)}
             S == PlacesOf("key")
             IdOf(p) == IF p[2] =< Len(read_locks[p[1]]) THEN read_locks[p[1]][p[2]]
                                                         ELSE OwnId(p[1])
             f == [i \in D \ Lone |-> CHOOSE p \in S : IdOf(p) = hs[i].id]
             g == [i \in Lone |-> <<hs[i].id, 1>>]
  <1>0. /\ hs \in Seq(Holders) /\ Orderly(hs) /\ "key" \in Keys
        /\ Len(hs) \in Nat /\ D = 1 .. Len(hs) /\ losses \in Nat
        /\ IsFiniteSet(D) /\ Cardinality(D) = Len(hs)
        /\ \A i \in D : hs[i].id \in LockIds /\ hs[i].depth \in Int /\ hs[i].depth >= 1
        /\ \A i, j \in D : hs[i].id = hs[j].id => i = j
    <2>1. hs \in Seq(Holders) /\ Orderly(hs) /\ "key" \in Keys /\ losses \in Nat
      BY PrimitivesAssumption DEF ServerInv, Queues, Keys
    <2>2. /\ Len(hs) \in Nat /\ D = 1 .. Len(hs)
          /\ \A i \in D : hs[i].id \in LockIds /\ hs[i].depth \in Int
      BY <2>1, EntryFacts
    <2>3. IsFiniteSet(D) /\ Cardinality(D) = Len(hs)
      BY <2>2, FirstNumbers
    <2> QED  BY <2>1, <2>2, <2>3 DEF Orderly, Sane
  <1>1. ASSUME NEW h \in Handles
        PROVE  /\ Len(read_locks[h]) \in Nat /\ Places(h) \in Nat /\ Places(h) =< MaxCalls + 1
               /\ Backing(h) = held[h] /\ held[h] \in Nat
               /\ held[h] > 0 => Places(h) = Len(read_locks[h]) + 1
               /\ Places(h) >= Len(read_locks[h])
               /\ Readers(h) = read_locks[h] /\ DOMAIN read_locks[h] = 1 .. Len(read_locks[h])
    <2>1. at[h] = "idle" /\ role[h] # "semaphore"
      BY DEF Plain
    <2>2. /\ Relied(h) = held[h] /\ held[h] \in Nat /\ Backing(h) = held[h]
          /\ Readers(h) = read_locks[h]
      BY <2>1 DEF Relied, Backing, Readers, ClientInv, ClientType
    <2>3. Len(read_locks[h]) =< calls[h] /\ calls[h] \in 0 .. MaxCalls /\ MaxCalls \in Nat
      BY PrimitivesAssumption DEF ClientInv, ClientType, CallerType, Counted
    <2>4. /\ Len(read_locks[h]) \in Nat /\ Places(h) \in Nat
          /\ Relied(h) > 0 => Places(h) = Len(read_locks[h]) + 1
          /\ ~(Relied(h) > 0) => Places(h) = Len(read_locks[h])
      BY <2>1, PlacesFacts
    <2>5. DOMAIN read_locks[h] = 1 .. Len(read_locks[h])
      BY ReadersFacts
    <2> QED  BY <2>2, <2>3, <2>4, <2>5
  <1>2. IsFiniteSet(S) /\ Cardinality(S) \in Nat /\ PlacesAt("key") = Cardinality(S)
    <2>1. IsFiniteSet(Handles \X (1 .. MaxCalls + 1)) /\ MaxCalls \in Nat
      <3>1. MaxCalls \in Nat /\ MaxCalls + 1 \in Nat
        BY PrimitivesAssumption
      <3>2. IsFiniteSet(Handles) /\ IsFiniteSet(1 .. MaxCalls + 1)
        BY <3>1, HandlesAssumption, FirstNumbers
      <3> QED  BY <3>1, <3>2, FS_Product
    <2>2. \A h \in Handles : \A n \in 1 .. Places(h) : n \in 1 .. MaxCalls + 1
      <3> SUFFICES ASSUME NEW h \in Handles, NEW n \in 1 .. Places(h) PROVE n \in 1 .. MaxCalls + 1
        OBVIOUS
      <3>1. Places(h) \in Nat /\ Places(h) =< MaxCalls + 1
        BY <1>1
      <3> QED  BY <2>1, <3>1
    <2>3. S \subseteq Handles \X (1 .. MaxCalls + 1)
      BY <2>2 DEF PlacesOf
    <2>4. IsFiniteSet(S) /\ Cardinality(S) \in Nat
      BY <2>1, <2>3, FS_Subset, FS_CardinalityType
    <2> QED  BY <2>4 DEF PlacesAt, PlacesOf
  <1>3. ASSUME NEW i \in D \ Lone
        PROVE  \E p \in S : IdOf(p) = hs[i].id
    <2> DEFINE id == hs[i].id
               d == hs[i].depth
    <2>1. d \in Int /\ d >= 1 /\ Deep(hs, id, d)
      BY <1>0 DEF Deep
    <2>2. ~Spare(id, 1, d)
      BY <2>1 DEF Orphaned
    <2>3. 1 \in 1 .. d
      BY <2>1
    <2>4. CASE \E h \in Handles : KeyOf(h) = "key" /\ id = OwnId(h) /\ ~(1 + Backing(h) =< d)
      <3>1. PICK h \in Handles : KeyOf(h) = "key" /\ id = OwnId(h) /\ ~(1 + Backing(h) =< d)
        BY <2>4
      <3> HIDE DEF d, id
      <3>2. held[h] > 0 /\ Places(h) = Len(read_locks[h]) + 1 /\ Len(read_locks[h]) \in Nat
        BY <1>1, <2>1, <3>1
      <3> DEFINE p == <<h, Len(read_locks[h]) + 1>>
      <3>3. Len(read_locks[h]) + 1 \in 1 .. Places(h)
        BY <3>2
      <3>4. p \in S
        BY <3>1, <3>3 DEF PlacesOf
      <3>5. IdOf(p) = OwnId(h)
        BY <3>2
      <3> HIDE DEF IdOf, S, p
      <3> QED  BY <3>1, <3>4, <3>5 DEF id
    <2>5. CASE \E h \in Handles : ReadBy(h, id)
      <3>1. PICK h \in Handles : ReadBy(h, id)
        BY <2>5
      <3> HIDE DEF d, id
      <3>2. PICK j \in DOMAIN read_locks[h] : read_locks[h][j] = id
        BY <1>1, <3>1 DEF ReadBy
      <3>3. j \in 1 .. Len(read_locks[h]) /\ Len(read_locks[h]) \in Nat
            /\ Places(h) >= Len(read_locks[h]) /\ Places(h) \in Nat
        BY <1>1
      <3>4. KeyOf(h) = "key"
        BY <3>2 DEF ReadIds, ReadIdsOf, KeyOf
      <3>5. j \in 1 .. Places(h) /\ j =< Len(read_locks[h])
        BY <3>3
      <3> DEFINE p == <<h, j>>
      <3>6. p \in S
        BY <3>4, <3>5 DEF PlacesOf
      <3>7. IdOf(p) = id
        BY <3>2, <3>5
      <3> HIDE DEF IdOf, S, p
      <3> QED  BY <3>6, <3>7 DEF id
    <2> HIDE DEF id, d, IdOf, S
    <2>6. \/ \E h \in Handles : KeyOf(h) = "key" /\ id = OwnId(h) /\ ~(1 + Backing(h) =< d)
          \/ \E h \in Handles : ReadBy(h, id)
      BY <2>2, <2>3 DEF Spare
    <2> QED  BY <2>4, <2>5, <2>6 DEF id
  <1>4. Cardinality(D \ Lone) =< Cardinality(S) /\ Cardinality(D \ Lone) \in Nat
    <2> HIDE DEF IdOf, S
    <2>1. \A i \in D \ Lone : f[i] \in S /\ IdOf(f[i]) = hs[i].id
      BY <1>3
    <2>2. f \in [D \ Lone -> S]
      BY <2>1
    <2>3. \A i, j \in D \ Lone : f[i] = f[j] => i = j
      BY <1>0, <2>1
    <2> HIDE DEF f, Lone, D
    <2>4. IsFiniteSet(D \ Lone) /\ Cardinality(D \ Lone) =< Cardinality(S)
      BY <1>2, <2>2, <2>3, Injected
    <2> QED  BY <2>4, FS_CardinalityType
  <1>5. Cardinality(Lone) =< Cardinality(Orphans) /\ Cardinality(Lone) \in Nat
        /\ Cardinality(Orphans) \in Nat
    <2>1. IsFiniteSet(Orphans)
      BY DEF PlainLeak
    <2>2. \A i \in Lone : g[i] \in Orphans /\ g[i][1] = hs[i].id
      BY <1>0 DEF Orphans
    <2>3. g \in [Lone -> Orphans]
      BY <2>2
    <2>4. \A i, j \in Lone : g[i] = g[j] => i = j
      BY <1>0, <2>2
    <2> HIDE DEF g, Lone, D
    <2>5. IsFiniteSet(Lone) /\ Cardinality(Lone) =< Cardinality(Orphans)
      BY <2>1, <2>3, <2>4, Injected
    <2> QED  BY <2>1, <2>5, FS_CardinalityType
  <1>6. Cardinality(D) = Cardinality(D \ Lone) + Cardinality(Lone)
    <2>1. Lone \subseteq D
      OBVIOUS
    <2> HIDE DEF Lone, D
    <2>2. IsFiniteSet(D) /\ IsFiniteSet(Lone) /\ IsFiniteSet(D \ Lone)
      BY <1>0, <2>1, FS_Subset
    <2>3. (D \ Lone) \cup Lone = D /\ (D \ Lone) \cap Lone = {}
      BY <2>1
    <2>4. Cardinality({}) = 0
      BY FS_EmptySet
    <2>5. Cardinality(D) = Cardinality(D \ Lone) + Cardinality(Lone) - Cardinality({})
      BY <2>2, <2>3, FS_Union
    <2> QED  BY <1>4, <1>5, <2>4, <2>5
  <1>7. Cardinality(Orphans) =< losses
    <2>1. Cardinality(LateLocks) \in Nat
      <3>1. LateLocks \subseteq late /\ IsFiniteSet(late)
        BY DEF LateLocks, ServerInv
      <3> QED  BY <3>1, FS_Subset, FS_CardinalityType
    <2> QED  BY <1>0, <1>5, <2>1 DEF PlainLeak
  <1> HIDE DEF Lone, D, S, hs
  <1>8. Len(hs) =< PlacesAt("key") + losses
    BY <1>0, <1>2, <1>4, <1>5, <1>6, <1>7
  <1> QED  BY <1>8 DEF hs

(* Of semaphores: there are no more permits at the server than callers     *)
(* have, but for one per command given up.                                 *)
PermitSlack ==
  Permits => Len(holders["key"]) + Cardinality(LateLocks) =< Cardinality(Tokens) + losses

(* What PermitSlack counts is finite.                                      *)
LEMMA SlackNumbers ==
  ASSUME Base
  PROVE  /\ holders["key"] \in Seq(Holders) /\ Orderly(holders["key"]) /\ Queues
         /\ Len(holders["key"]) \in Nat /\ losses \in Nat
         /\ IsFiniteSet(LateLocks) /\ Cardinality(LateLocks) \in Nat
         /\ IsFiniteSet(Tokens) /\ Cardinality(Tokens) \in Nat
  <1>1. /\ holders["key"] \in Seq(Holders) /\ Orderly(holders["key"]) /\ Queues /\ losses \in Nat
        /\ IsFiniteSet(late)
    BY PrimitivesAssumption DEF Base, ServerInv, Queues, Keys
  <1>2. Len(holders["key"]) \in Nat
    BY <1>1, EntryFacts
  <1>3. LateLocks \subseteq late
    BY DEF LateLocks
  <1>4. IsFiniteSet(LateLocks) /\ Cardinality(LateLocks) \in Nat
    BY <1>1, <1>3, FS_Subset, FS_CardinalityType
  <1>5. IsFiniteSet(Tokens) /\ Cardinality(Tokens) \in Nat
    BY TokensFacts DEF Base
  <1> QED  BY <1>1, <1>2, <1>4, <1>5

(* A lock command adds an entry at most, an unlock none, and nothing       *)
(* changes at the server unless it succeeds.                               *)
LEMMA AfterLen ==
  ASSUME NEW hs \in Seq(Holders), Orderly(hs), NEW r \in LockCommands
  PROVE  /\ r.cmd = "lock" => Len(AfterOf(hs, r)) =< Len(hs) + 1
         /\ r.cmd = "unlock" => Len(AfterOf(hs, r)) =< Len(hs)
         /\ ResultOf(hs, r) # "succed" => AfterOf(hs, r) = hs
         /\ Len(AfterOf(hs, r)) \in Nat
  <1>0. Len(hs) \in Nat
    BY EntryFacts
  <1>1. CASE r.cmd = "lock"
    <2>1. AfterOf(hs, r) = AfterLock(hs, r)
      BY <1>1 DEF AfterOf
    <2>2. Len(Deepen(hs, r.id, 1)) = Len(hs)
      BY DeepenFacts
    <2>3. Len(Append(hs, [id |-> r.id, count |-> r.count, depth |-> 1])) = Len(hs) + 1
      <3>1. [id |-> r.id, count |-> r.count, depth |-> 1] \in Holders
        BY DEF Holders, LockCommands
      <3> QED  BY <3>1, AppendProperties
    <2>4. ResultOf(hs, r) # "succed" => AfterOf(hs, r) = hs
      BY <1>1, LockHolding
    <2>5. \/ AfterLock(hs, r) = hs \/ AfterLock(hs, r) = Deepen(hs, r.id, 1)
          \/ AfterLock(hs, r) = Append(hs, [id |-> r.id, count |-> r.count, depth |-> 1])
      BY LockCases
    <2>6. Len(AfterOf(hs, r)) = Len(hs) \/ Len(AfterOf(hs, r)) = Len(hs) + 1
      BY <2>1, <2>2, <2>3, <2>5
    <2> QED  BY <1>0, <1>1, <2>4, <2>6
  <1>2. CASE r.cmd = "unlock"
    <2>1. AfterOf(hs, r) = AfterUnlock(hs, r)
      BY <1>2 DEF AfterOf
    <2>2. Len(Deepen(hs, Victim(hs, r), -1)) = Len(hs)
      BY DeepenFacts
    <2>3. Len(Without(hs, Victim(hs, r))) =< Len(hs) /\ Len(Without(hs, Victim(hs, r))) \in Nat
      BY OutFacts
    <2>4. ResultOf(hs, r) # "succed" => AfterOf(hs, r) = hs
      BY <1>2, UnlockHolding
    <2> QED  BY <1>0, <1>2, <2>1, <2>2, <2>3, <2>4, UnlockCases
  <1> QED  BY <1>1, <1>2 DEF LockCommands

(* A step of a handle changes neither the permits relied on nor the        *)
(* server.                                                                 *)
LEMMA HandleSlack ==
  ASSUME Base, PermitSlack, NEW h \in Handles, HandleStep(h)
  PROVE  PermitSlack'
  <1>0. ClientInv /\ UNCHANGED <<role, size, serverVars>>
    BY StepKinds DEF Base
  <1>1. \A q \in Handles : Backing(q)' = Backing(q)
    BY <1>0, BackingSame
  <1>2. Tokens' = Tokens /\ LateLocks' = LateLocks /\ UNCHANGED <<role, holders, losses>>
    BY <1>0, <1>1 DEF Tokens, LateLocks, serverVars
  <1> QED  BY <1>2 DEF PermitSlack, Permits

(* An executed acquire is a permit relied on at once, and a permit is      *)
(* given up as soon as its release is executed.                            *)
LEMMA ExecuteSlack ==
  ASSUME Base, PermitInv, PermitSlack, NEW h \in Handles, Execute(h)
  PROVE  PermitSlack'
  <1> SUFFICES ASSUME Permits'
               PROVE  (Len(holders["key"]) + Cardinality(LateLocks) =< Cardinality(Tokens) + losses)'
    BY DEF PermitSlack
  <1> DEFINE r == req[h]
             hs == holders["key"]
             as == AfterOf(hs, r)
  <1>0. /\ ClientInv /\ at[h] # "idle" /\ reply[h] = "none"
        /\ reply'[h] = ResultOf(holders[r.key], r)
        /\ r \in LockCommands /\ Fits(r) /\ holders' = Executed(r)
        /\ UNCHANGED <<role, late, losses>> /\ Backing(h) = held[h] /\ held[h] \in Nat
        /\ Backing(h)' = (IF at[h] \in {"acquire", "leaf"} /\ reply'[h] = "succed"
                           THEN held[h] + 1
                           ELSE IF at[h] = "release" /\ reply'[h] = "succed" THEN Less(held[h])
                           ELSE held[h])
        /\ \A q \in Handles \ {h} : Backing(q)' = Backing(q)
    BY ExecuteFacts
  <1>1. /\ Permits /\ PermitIds /\ PermitReleases
        /\ Len(hs) + Cardinality(LateLocks) =< Cardinality(Tokens) + losses
    BY <1>0 DEF Permits, PermitInv, PermitSlack
  <1>2. /\ hs \in Seq(Holders) /\ Orderly(hs) /\ Queues /\ Len(hs) \in Nat /\ losses \in Nat
        /\ Cardinality(LateLocks) \in Nat /\ IsFiniteSet(Tokens) /\ Cardinality(Tokens) \in Nat
    BY SlackNumbers
  <1>3. LateLocks' = LateLocks
    BY <1>0 DEF LateLocks
  <1>4. r.key = "key" /\ at[h] \in {"acquire", "release"}
        /\ (at[h] = "acquire" => r.cmd = "lock") /\ (at[h] = "release" => r.cmd = "unlock")
    BY <1>0, <1>1, PermitWaits
  <1>5. holders'["key"] = as /\ reply'[h] = ResultOf(hs, r) /\ Len(as) \in Nat
    BY <1>0, <1>2, <1>4, ExecutedKeeps, AfterLen
  <1>6. CASE ResultOf(hs, r) # "succed"
    <2>1. as = hs /\ Backing(h)' = Backing(h)
      BY <1>0, <1>2, <1>5, <1>6, AfterLen
    <2>2. Tokens' = Tokens
      BY <1>0, <2>1 DEF Tokens
    <2> QED  BY <1>0, <1>1, <1>3, <1>5, <2>1, <2>2
  <1>7. CASE at[h] = "acquire" /\ ResultOf(hs, r) = "succed"
    <2>1. Backing(h)' = held[h] + 1 /\ Len(as) =< Len(hs) + 1
      BY <1>0, <1>2, <1>4, <1>5, <1>7, AfterLen
    <2> DEFINE p == <<h, held[h] + 1>>
    <2>2. Tokens' = Tokens \cup {p}
      <3>1. \A q \in Handles : \A n : n \in 1 .. Backing(q)' <=>
                                        n \in 1 .. Backing(q) \/ (q = h /\ n = held[h] + 1)
        BY <1>0, <2>1
      <3> QED  BY <3>1 DEF Tokens
    <2>3. p \notin Tokens
      <3>1. held[h] + 1 \notin 1 .. Backing(h)
        BY <1>0
      <3> QED  BY <1>0, <3>1, TokensFacts
    <2> HIDE DEF p
    <2>4. Cardinality(Tokens') = Cardinality(Tokens) + 1
      BY <1>2, <2>2, <2>3, FS_AddElement
    <2>5. Len(as) + Cardinality(LateLocks) =< Cardinality(Tokens') + losses
      BY <1>1, <1>2, <1>5, <2>1, <2>4
    <2> QED  BY <1>0, <1>3, <1>5, <2>5
  <1>8. CASE at[h] = "release" /\ ResultOf(hs, r) = "succed"
    <2>1. Victim(hs, r) \notin OwnIds
      <3>1. Holds(hs, Victim(hs, r))
        BY <1>0, <1>2, <1>4, <1>8, UnlockHolding
      <3>2. Victim(hs, r) \in Ids(hs)
        BY <3>1 DEF Holds, Ids
      <3> QED  BY <1>1, <3>2, GivenFacts DEF PermitIds
    <2>2. Len(as) = Len(hs) - 1
      BY <1>0, <1>2, <1>4, <1>8, <2>1, UnlockHolding
    <2>3. held[h] > 0
      BY <1>1, <1>8 DEF PermitReleases
    <2>4. Backing(h)' = held[h] - 1
      BY <1>0, <1>5, <1>8, <2>3 DEF Less
    <2> DEFINE p == <<h, held[h]>>
    <2>5. Tokens' = Tokens \ {p} /\ p \in Tokens
      <3>1. \A q \in Handles : \A n : n \in 1 .. Backing(q)' <=>
                                        n \in 1 .. Backing(q) /\ ~(q = h /\ n = held[h])
        BY <1>0, <2>3, <2>4
      <3>2. held[h] \in 1 .. Backing(h)
        BY <1>0, <2>3
      <3>3. p \in Tokens
        BY <1>0, <3>2, TokensFacts
      <3> QED  BY <3>1, <3>3 DEF Tokens
    <2> HIDE DEF p
    <2>6. Cardinality(Tokens') = Cardinality(Tokens) - 1
      BY <1>2, <2>5, FS_RemoveElement
    <2>7. Len(as) + Cardinality(LateLocks) =< Cardinality(Tokens') + losses
      BY <1>1, <1>2, <1>5, <2>2, <2>6
    <2> QED  BY <1>0, <1>3, <1>5, <2>7
  <1> QED  BY <1>4, <1>6, <1>7, <1>8

(* A command of a semaphore given up costs a late lock, or a permit that   *)
(* may stay at the server.                                                 *)
LEMMA GiveUpSlack ==
  ASSUME Base, PermitSlack, NEW h \in Handles, GiveUp(h)
  PROVE  PermitSlack'
  <1> DEFINE x == [n |-> losses, req |-> req[h]]
  <1>0. /\ reply[h] = "none" /\ reply'[h] = "error"
        /\ \A q \in Handles \ {h} : reply'[q] = reply[q]
        /\ late' = late \cup {x} /\ losses' = losses + 1
        /\ UNCHANGED <<role, at, held, holders>>
    BY DEF Base, ClientInv, ClientType, GiveUp
  <1>1. Tokens' = Tokens
    <2>1. \A q \in Handles : Backing(q)' = Backing(q)
      BY <1>0 DEF Backing, Succeeded
    <2> QED  BY <2>1 DEF Tokens
  <1>2. /\ Len(holders["key"]) \in Nat /\ losses \in Nat
        /\ IsFiniteSet(LateLocks) /\ Cardinality(LateLocks) \in Nat
        /\ Cardinality(Tokens) \in Nat
    BY SlackNumbers
  <1> HIDE DEF x
  <1>3. LateLocks' = LateLocks \/ LateLocks' = LateLocks \cup {x}
    BY <1>0 DEF LateLocks
  <1>4. Cardinality(LateLocks') \in Nat /\ Cardinality(LateLocks') =< Cardinality(LateLocks) + 1
    <2>1. Cardinality(LateLocks \cup {x}) \in {Cardinality(LateLocks), Cardinality(LateLocks) + 1}
      BY <1>2, FS_AddElement
    <2>2. CASE LateLocks' = LateLocks
      BY <1>2, <2>2
    <2>3. CASE LateLocks' = LateLocks \cup {x}
      BY <1>2, <2>1, <2>3
    <2> QED  BY <1>3, <2>2, <2>3
  <1>5. ASSUME Permits
        PROVE  Len(holders["key"]) + Cardinality(LateLocks') =< Cardinality(Tokens) + (losses + 1)
    BY <1>2, <1>4, <1>5 DEF PermitSlack
  <1> QED  BY <1>0, <1>1, <1>5 DEF PermitSlack, Permits

(* A late acquire adds the permit it was counted as, a late release none.  *)
LEMMA ExecuteLateSlack ==
  ASSUME Base, PermitSlack, ExecuteLate
  PROVE  PermitSlack'
  <1>1. PICK x \in late :
          /\ late' = late \ {x} /\ holders' = Executed(x.req)
          /\ UNCHANGED <<role, size, clientVars, losses>>
    BY DEF ExecuteLate
  <1> DEFINE hs == holders["key"]
  <1>2. /\ hs \in Seq(Holders) /\ Orderly(hs) /\ Queues /\ Len(hs) \in Nat /\ losses \in Nat
        /\ IsFiniteSet(LateLocks) /\ Cardinality(LateLocks) \in Nat
        /\ Cardinality(Tokens) \in Nat
    BY SlackNumbers
  <1>3. x.req \in LockCommands /\ Fits(x.req)
    BY DEF Base, ServerInv
  <1>4. Tokens' = Tokens
    BY <1>1 DEF Tokens, Backing, Succeeded, clientVars
  <1>5. holders'["key"] = AfterOf(hs, x.req) \/ holders'["key"] = hs
    BY <1>1, <1>2, <1>3, ExecutedKeeps
  <1>6. CASE x.req.cmd = "lock"
    <2>1. x \in LateLocks /\ LateLocks' = LateLocks \ {x}
      BY <1>1, <1>6 DEF LateLocks
    <2>2. Cardinality(LateLocks') = Cardinality(LateLocks) - 1
      BY <1>2, <2>1, FS_RemoveElement
    <2>3. Len(holders'["key"]) =< Len(hs) + 1 /\ Len(holders'["key"]) \in Nat
      BY <1>2, <1>3, <1>5, <1>6, AfterLen
    <2>4. ASSUME Permits
          PROVE  Len(holders'["key"]) + Cardinality(LateLocks') =< Cardinality(Tokens) + losses
      BY <1>2, <2>2, <2>3, <2>4 DEF PermitSlack
    <2> QED  BY <1>1, <1>4, <2>4 DEF PermitSlack, Permits
  <1>7. CASE x.req.cmd = "unlock"
    <2>1. LateLocks' = LateLocks
      BY <1>1, <1>7 DEF LateLocks
    <2>2. Len(holders'["key"]) =< Len(hs) /\ Len(holders'["key"]) \in Nat
      BY <1>2, <1>3, <1>5, <1>7, AfterLen
    <2>3. ASSUME Permits
          PROVE  Len(holders'["key"]) + Cardinality(LateLocks) =< Cardinality(Tokens) + losses
      BY <1>2, <2>2, <2>3 DEF PermitSlack
    <2> QED  BY <1>1, <1>4, <2>1, <2>3 DEF PermitSlack, Permits
  <1> QED  BY <1>3, <1>6, <1>7 DEF LockCommands

(* Permits that expire only leave the server.                              *)
LEMMA ExpireSlack ==
  ASSUME Base, PermitSlack, Expire
  PROVE  PermitSlack'
  <1> DEFINE hs == holders["key"]
  <1>1. /\ hs \in Seq(Holders) /\ Len(hs) \in Nat /\ losses \in Nat
        /\ Cardinality(LateLocks) \in Nat /\ Cardinality(Tokens) \in Nat
        /\ holders \in [Keys -> Seq(Holders)] /\ "key" \in Keys
    BY SlackNumbers DEF Queues, Keys
  <1>2. UNCHANGED <<role, size, clientVars, late, losses>>
    BY DEF Expire
  <1>3. Tokens' = Tokens /\ LateLocks' = LateLocks
    BY <1>2 DEF Tokens, Backing, Succeeded, LateLocks, clientVars
  <1>4. holders'["key"] = hs \/ \E id : holders'["key"] = Without(hs, id)
    <2>1. PICK k \in Keys : \E i \in DOMAIN holders[k] :
            holders' = [holders EXCEPT ![k] = Without(@, @[i].id)]
      BY DEF Expire
    <2> QED  BY <1>1, <2>1
  <1>5. Len(holders'["key"]) =< Len(hs) /\ Len(holders'["key"]) \in Nat
    <2>1. \A id : Len(Without(hs, id)) =< Len(hs) /\ Len(Without(hs, id)) \in Nat
      BY <1>1, OutFacts
    <2> QED  BY <1>1, <1>4, <2>1
  <1>6. ASSUME Permits
        PROVE  Len(holders'["key"]) + Cardinality(LateLocks) =< Cardinality(Tokens) + losses
    BY <1>1, <1>5, <1>6 DEF PermitSlack
  <1> QED  BY <1>2, <1>3, <1>6 DEF PermitSlack, Permits

(* With no call under way, the tokens are the places of the handles.       *)
LEMMA PermitsLeft ==
  ASSUME Base, ReadIds, Permits, PermitSlack, \A h \in Handles : at[h] = "idle"
  PROVE  Len(holders["key"]) =< PlacesAt("key") + losses
  <1>1. /\ Len(holders["key"]) \in Nat /\ losses \in Nat /\ Cardinality(LateLocks) \in Nat
        /\ Cardinality(Tokens) \in Nat
    BY SlackNumbers
  <1>2. \A h \in Handles : Places(h) = Backing(h) /\ KeyOf(h) = "key"
    <2> SUFFICES ASSUME NEW h \in Handles PROVE Places(h) = Backing(h) /\ KeyOf(h) = "key"
      OBVIOUS
    <2>1. role[h] = "semaphore" /\ at[h] = "idle"
      BY DEF Permits
    <2> QED  BY <2>1, PlacesFacts DEF Base, Relied, Backing, KeyOf
  <1>3. PlacesAt("key") = Cardinality(Tokens)
    <2>1. UNION {{h} \X (1 .. Places(h)) : h \in {g \in Handles : KeyOf(g) = "key"}} = Tokens
      BY <1>2 DEF Tokens
    <2> QED  BY <2>1 DEF PlacesAt
  <1> QED  BY <1>1, <1>3 DEF PermitSlack

-----------------------------------------------------------------------------
(* At first nothing is at the server.                                      *)
LEMMA LeakInit == Init => PlainLeak /\ PermitSlack
  <1> SUFFICES ASSUME Init PROVE PlainLeak /\ PermitSlack
    OBVIOUS
  <1>1. holders["key"] = << >> /\ late = {} /\ losses = 0
    BY DEF Init, Keys
  <1>2. Orphans = {} /\ LateLocks = {}
    BY <1>1 DEF Orphans, Orphaned, Deep, LateLocks
  <1>3. IsFiniteSet({}) /\ Cardinality({}) = 0
    BY FS_EmptySet
  <1>4. PlainLeak
    BY <1>1, <1>2, <1>3 DEF PlainLeak
  <1>5. Cardinality(Tokens) \in Nat
    BY BaseInit, SlackNumbers
  <1>6. Len(holders["key"]) = 0
    BY <1>1
  <1> QED  BY <1>1, <1>2, <1>3, <1>4, <1>5, <1>6 DEF PermitSlack

(* Both counts are kept by every step, whichever kind of handles there is. *)
LEMMA LeakStep == KeptInv /\ PlainLeak /\ PermitSlack /\ [Next]_vars => PlainLeak' /\ PermitSlack'
  <1> SUFFICES ASSUME KeptInv, PlainLeak, PermitSlack, [Next]_vars
               PROVE  PlainLeak' /\ PermitSlack'
    OBVIOUS
  <1>0. Base /\ ReadIds /\ PermitInv
    BY DEF KeptInv, BackedInv
  <1>1. ASSUME NEW h \in Handles, HandleStep(h)
        PROVE  PlainLeak' /\ PermitSlack'
    BY <1>0, <1>1, HandlePlain, HandleSlack
  <1>2. ASSUME NEW h \in Handles, Execute(h)
        PROVE  PlainLeak' /\ PermitSlack'
    BY <1>0, <1>2, ExecutePlain, ExecuteSlack
  <1>3. ASSUME NEW h \in Handles, GiveUp(h)
        PROVE  PlainLeak' /\ PermitSlack'
    BY <1>0, <1>3, GiveUpPlain, GiveUpSlack
  <1>4. CASE ExecuteLate
    BY <1>0, <1>4, ExecuteLatePlain, ExecuteLateSlack
  <1>5. CASE Expire
    BY <1>0, <1>5, ExpirePlain, ExpireSlack
  <1>6. CASE UNCHANGED vars
    <2>1. PlainLeak'
      <3>1. \A id : \A n : \A d : Spare(id, n, d)' <=> Spare(id, n, d)
        BY <1>6 DEF Spare, ReadBy, Readers, Backing, Succeeded, KeyOf, OwnId, vars, clientVars
      <3>2. Orphans' = Orphans
        BY <1>6, <3>1 DEF Orphans, Orphaned, Deep, vars, serverVars
      <3>3. LateLocks' = LateLocks /\ UNCHANGED <<role, losses>>
        BY <1>6 DEF LateLocks, vars, serverVars
      <3> QED  BY <3>2, <3>3 DEF PlainLeak, Plain
    <2>2. PermitSlack'
      BY <1>6 DEF PermitSlack, Permits, Tokens, Backing, Succeeded, LateLocks, vars, clientVars,
                  serverVars
    <2> QED  BY <2>1, <2>2
  <1> QED  BY <1>1, <1>2, <1>3, <1>4, <1>5, <1>6 DEF Next, ServerStep

(* With no call under way, the counts are the promise: the handles are all *)
(* of semaphores, or none is.                                              *)
LEMMA LeakBound == KeptInv /\ PlainLeak /\ PermitSlack => NothingLeaks
  <1> SUFFICES ASSUME KeptInv, PlainLeak, PermitSlack,
                      \A h \in Handles : at[h] = "idle" /\ role[h] \notin EventRoles
               PROVE  Len(holders["key"]) =< PlacesAt("key") + losses
    BY DEF NothingLeaks
  <1>0. Base /\ ClientInv /\ ServerInv /\ ReadIds /\ Mixed
    BY DEF KeptInv, BackedInv, Base
  <1>1. CASE Permits
    BY <1>0, <1>1, PermitsLeft
  <1>2. CASE ~Permits
    <2>1. Plain
      BY <1>0, <1>2 DEF Plain, Permits, Mixed
    <2> QED  BY <1>0, <2>1, PlainPlaces
  <1> QED  BY <1>1, <1>2

(* When no call is under way, the server has no more locks of a key than   *)
(* callers rely on, but for one per command that was given up: a lock      *)
(* executed after its caller's error, or the read lock that release_read   *)
(* (457-463) pops before it knows whether the server released it.          *)
THEOREM NothingLeaksHolds == Spec => []NothingLeaks
  <1>1. Init => KeptInv /\ PlainLeak /\ PermitSlack
    BY KeptInit, LeakInit
  <1>2. KeptInv /\ PlainLeak /\ PermitSlack /\ [Next]_vars => (KeptInv /\ PlainLeak /\ PermitSlack)'
    BY KeptStep, LeakStep
  <1> QED  BY <1>1, <1>2, LeakBound, PTL DEF Spec
=============================================================================
