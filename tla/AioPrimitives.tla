----------------------------- MODULE AioPrimitives -----------------------------
(***************************************************************************)
(* The primitives of src/src/aio/primitives.rs, group events among them.   *)
(* They are those of Primitives and GroupEvent, statement by statement, up *)
(* to one thing: each of their awaits is a point where the caller may drop *)
(* the future, in the middle of an operation of several commands too. The  *)
(* command may be executed later or never, and nothing of the operation    *)
(* that comes behind its await is done.  (LockGuard is a clone of a Lock   *)
(* whose release is the lock's; dropping it does nothing.)                 *)
(***************************************************************************)
EXTENDS Primitives, GroupEvent

aioVars == <<vars, groupVars>>

AioInit ==
  /\ Init
  /\ GroupInit
  /\ \A m \in Members : role[m] # "group" => version[m] = 0

\* a caller who drops the release of a lock does not rely on that lock any more
FutureDropped(h) ==
  /\ at[h] # "idle" /\ losses < MaxLosses
  /\ losses' = losses + 1
  /\ lostAt' = lostAt \cup {"dropped"}
  /\ late' = IF reply[h] = "none" THEN late \cup {[n |-> losses, req |-> req[h]]} ELSE late
  /\ at' = [at EXCEPT ![h] = "idle"]
  /\ req' = [req EXCEPT ![h] = NoReq]
  /\ reply' = [reply EXCEPT ![h] = "none"]
  /\ held' = [held EXCEPT ![h] = IF at[h] = "release" THEN Less(@) ELSE @]
  /\ alone' = alone \ {h}
  /\ UNCHANGED <<role, size, calls, read_locks, holders, shed, expiries, won,
                 truth, asked, answer>>

GroupFutureDropped(m) ==
  /\ ask[m] # NoAsk /\ misses < MaxMisses
  /\ misses' = misses + 1
  /\ lateAsks' = IF told[m] = NoTold THEN lateAsks \cup {[n |-> misses, ask |-> ask[m]]}
                                     ELSE lateAsks
  /\ ask' = [ask EXCEPT ![m] = NoAsk]
  /\ told' = [told EXCEPT ![m] = NoTold]
  /\ UNCHANGED <<version, asks, gate, wakes, epoch, mark>>

------------------------------------------------------------------------------
(* The steps of the futures of each type, between its awaits. *)
AioLockStep(h) == Acquire(h) \/ AcquireReturn(h) \/ Release(h) \/ ReleaseReturn(h)
AioSemaphoreStep(h) == SemaphoreAcquire(h) \/ SemaphoreRelease(h)
AioReadLockStep(h) ==
  AcquireRead(h) \/ AcquireReadReturn(h) \/ ReleaseRead(h) \/ ReleaseReadReturn(h)
AioLeafStep(h) ==
  \/ LeafAcquire(h) \/ LeafChildChecked(h) \/ LeafParentChecked(h) \/ LeafAcquired(h)
  \/ LeafFailed(h) \/ LeafUndoParent(h) \/ LeafUndone(h) \/ LeafRelease(h)
AioEventStep(h) ==
  \/ (\E op \in {"set", "clear"} : EventChange(h, op)) \/ EventChanged(h)
  \/ IsSet(h) \/ IsSetReturn(h)
AioGroupStep(m) == role[m] = "group" /\ (MemberStep(m) \/ GroupFutureDropped(m))

AioHandleStep(h) ==
  \/ AioLockStep(h) \/ AioSemaphoreStep(h) \/ AioReadLockStep(h) \/ AioLeafStep(h)
  \/ AioEventStep(h) \/ FutureDropped(h)

AioNext ==
  \/ ((\E h \in Handles : AioHandleStep(h)) \/ ServerStep) /\ UNCHANGED groupVars
  \/ /\ (\E m \in Members : AioGroupStep(m)) \/ GroupExecuteLate \/ GroupExpire
     /\ UNCHANGED vars

AioSpec == AioInit /\ [][AioNext]_aioVars
=============================================================================
