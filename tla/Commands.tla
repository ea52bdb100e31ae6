------------------------------ MODULE Commands ------------------------------
(***************************************************************************)
(* The lock commands the primitives send: src/src/blocking/primitives.rs   *)
(* with database.rs (the aio ones are the same up to await). Primitives    *)
(* models what a sequence of them does; here is what one of them says:     *)
(* its type, flags, ids, times and counts.                                 *)
(*                                                                         *)
(* An operation o names a primitive, one of its methods and the arguments  *)
(* of both: key, timeout, expired, n (a count, a priority, or 1 for an     *)
(* event that starts set), period (in tenths of a millisecond), flag,      *)
(* data, wait (the timeout of a wait), client, version and parent.         *)
(***************************************************************************)
EXTENDS Codec

U16MAX == 65535
\* flags of a lock command, of an unlock command, and of the two times
SHOW == 1
UPDATE == 2
LOCK_TREE == 16
UNLOCK_FIRST == 1
TO_LOCK_WAIT == 8
UNLOCK_TREE == 16
RCOUNT_IS_PRIORITY == 16
MINUTE == 64
LOCK_WAIT == 512
MILLISECOND == 1024
LESS_VERSION == 16384

(* The methods of the primitives, and the operations there are, by the types *)
(* of the arguments. Only a lock takes flags, and few methods take data.     *)
AcquireRelease == {"acquire", "release"}
Methods ==
  [ping |-> {"ping"}, read |-> {"acquire"}, token |-> {"acquire"},
   semaphore |-> AcquireRelease, reentrant |-> AcquireRelease, priority |-> AcquireRelease,
   flow |-> AcquireRelease, event |-> {"is_set", "wait", "set", "clear"},
   lock |-> AcquireRelease \cup {"show", "update", "release_head", "to_lock_wait"},
   group |-> {"is_set", "wait", "set", "clear", "wakeup"},
   tree |-> AcquireRelease \cup {"wait"}, leaf |-> AcquireRelease \cup {"child", "parent"}]
Operation ==
  {o \in [prim : DOMAIN Methods, op : STRING, key : Seq(Byte), timeout : 0 .. U16MAX,
          expired : 0 .. U16MAX, n : 0 .. U16MAX, period : Nat, flag : SUBSET Flags8,
          data : LockDatas[Nesting] \cup {NoData}, wait : 0 .. U16MAX, client : Nat,
          version : Nat, parent : Seq(Byte)] :
     /\ o.op \in Methods[o.prim] /\ (o.prim = "priority" => o.n \in Byte)
     /\ o.prim # "lock" => o.flag = {}
     /\ o.prim \notin {"lock", "event", "group"} => o.data = NoData}

\* a Database: its id and the default flags its clones share
Database(id, timeout_flags, expired_flags) ==
  [id |-> id, timeout_flags |-> timeout_flags, expired_flags |-> expired_flags]

\* Lock::new and Lock::with_lock_id
NewLock(d, key, id, timeout, expired, count, rcount) ==
  [db |-> d.id, key |-> Key16(key), id |-> id,
   timeout |-> WithFlags(timeout, d.timeout_flags),
   expired |-> WithFlags(expired, d.expired_flags),
   count |-> count, rcount |-> rcount]

MergeTimeout(l, flags) == [l EXCEPT !.timeout = MergeFlags(@, flags)]

\* a lock derived from another one: its key, and the flags the database has now
Derived(d, l, id, timeout, expired, count, rcount) ==
  NewLock(d, l.key, id, timeout, expired, count, rcount)

SendLock(l, type, flag, id, data, request) ==
  [type |-> type, flag |-> flag, db |-> l.db, request |-> request, key |-> l.key, id |-> id,
   timeout |-> l.timeout, expired |-> l.expired, count |-> l.count, rcount |-> l.rcount,
   data |-> data]

WithDataFlag(flag, data) == IF data = NoData THEN flag ELSE flag \cup {CONTAINS_DATA}

AcquireWith(l, flag, data, request) ==
  SendLock(l, LOCK, WithDataFlag(flag, data), l.id, data, request)
ReleaseWith(l, flag, data, request) ==
  SendLock(l, UNLOCK, WithDataFlag(flag, data), l.id, data, request)
AcquirePlain(l, request) == AcquireWith(l, {}, NoData, request)
ShowLock(l, request) == AcquireWith(l, {SHOW}, NoData, request)
UpdateLock(l, data, request) == AcquireWith(l, {UPDATE}, data, request)
ReleaseHead(l, data, request) ==
  SendLock(l, UNLOCK, WithDataFlag({UNLOCK_FIRST}, data), ZeroId16, data, request)
ReleaseHeadToLockWait(l, data, request) ==
  ReleaseWith(l, {UNLOCK_FIRST, TO_LOCK_WAIT}, data, request)

SaturatingLess(n) == IF n = 0 THEN 0 ELSE n - 1

(* TokenBucketFlow: a period under three seconds is counted in milliseconds *)
CeilDiv(a, b) == (a + b - 1) \div b
IsShort(period) == period < 30000
\* Seeded fault: a period of whole seconds is cut, not rounded up.
TokenExpiredCut(period) ==
  IF IsShort(period) THEN Max({CeilDiv(period, 10), 1})
  ELSE Min({period \div 10000, U16MAX})
TokenExpired(period) ==
  IF IsShort(period) THEN Max({CeilDiv(period, 10), 1})
  ELSE Min({CeilDiv(period, 10000), U16MAX})

TokenBucket(d, o, id) ==
  LET l == NewLock(d, o.key, id, o.timeout, TokenExpired(o.period),
                   SaturatingLess(o.n), 0)
  IN  IF IsShort(o.period) THEN [l EXCEPT !.expired = MergeFlags(@, {MILLISECOND})] ELSE l

\* the lock a primitive keeps from its creation on
Handle(o, d, id) ==
  LET plain == NewLock(d, o.key, id, o.timeout, o.expired, 0, 0)
  IN  CASE o.prim = "reentrant" -> [plain EXCEPT !.rcount = 255]
        [] o.prim = "priority"  -> [MergeTimeout(plain, {RCOUNT_IS_PRIORITY}) EXCEPT !.rcount = o.n]
        [] o.prim = "flow"      -> [plain EXCEPT !.count = SaturatingLess(o.n)]
        [] o.prim = "token"     -> TokenBucket(d, o, id)
        [] o.prim = "group"     ->
             [MergeTimeout(plain, {LESS_VERSION}) EXCEPT !.id = GroupEventId(o.client, o.version)]
        [] o.prim \in {"tree", "leaf"} ->
             [MergeTimeout(plain, {RCOUNT_IS_PRIORITY}) EXCEPT !.count = U16MAX, !.rcount = 1]
        [] OTHER                -> plain

LockCommand(o, l, request) ==
  CASE o.op = "acquire"      -> AcquireWith(l, o.flag, o.data, request)
    [] o.op = "release"      -> ReleaseWith(l, o.flag, o.data, request)
    [] o.op = "show"         -> ShowLock(l, request)
    [] o.op = "update"       -> UpdateLock(l, o.data, request)
    [] o.op = "release_head" -> ReleaseHead(l, o.data, request)
    [] o.op = "to_lock_wait" -> ReleaseHeadToLockWait(l, o.data, request)

SemaphoreCommand(o, d, fresh, request) ==
  LET l(id) == NewLock(d, o.key, id, o.timeout, o.expired, SaturatingLess(o.n), 0)
  IN  IF o.op = "acquire" THEN AcquirePlain(l(fresh), request)
                          ELSE ReleaseHead(l(ZeroId16), NoData, request)

\* acquire_read; the write lock is a plain one
ReadCommand(o, d, fresh, request) ==
  AcquirePlain(NewLock(d, o.key, fresh, o.timeout, o.expired, U16MAX, 0), request)

\* the lock of an event has the key for its id; n says that the event starts set
SetByDefault(o) == o.n = 1
EventLock(d, l, count) ==
  Derived(d, l, l.key, l.timeout.value, l.expired.value, count, 0)
\* an event that starts unset asks with flags of its own in place of the database's
EventProbe(o, d, l, fresh, timeout) ==
  IF SetByDefault(o) THEN Derived(d, l, fresh, timeout, 0, 0, 0)
  ELSE [Derived(d, l, fresh, timeout, 0, 1, 0) EXCEPT !.timeout = WithFlags(timeout, {LOCK_WAIT})]
SetEvent(o, d, l, request) ==
  IF SetByDefault(o) THEN ReleaseWith(EventLock(d, l, 0), {}, o.data, request)
                     ELSE UpdateLock(EventLock(d, l, 1), o.data, request)
ClearEvent(o, d, l, request) ==
  IF SetByDefault(o) THEN UpdateLock(EventLock(d, l, 0), NoData, request)
                     ELSE ReleaseWith(EventLock(d, l, 1), {}, NoData, request)
EventCommand(o, d, l, fresh, request) ==
  CASE o.op = "is_set" -> AcquirePlain(EventProbe(o, d, l, fresh, 0), request)
    [] o.op = "wait"   -> AcquirePlain(EventProbe(o, d, l, fresh, o.wait), request)
    [] o.op = "set"    -> SetEvent(o, d, l, request)
    [] o.op = "clear"  -> ClearEvent(o, d, l, request)

GroupLock(d, l, id) == Derived(d, l, id, l.timeout.value, l.expired.value, 0, 0)
GroupCommand(o, d, l, fresh, request) ==
  CASE o.op = "is_set" -> AcquirePlain(Derived(d, l, fresh, 0, 0, 0, 0), request)
    [] o.op = "set"    -> ReleaseHead(GroupLock(d, l, ZeroId16), NoData, request)
    [] o.op = "clear"  -> UpdateLock(MergeTimeout(GroupLock(d, l, GroupEventId(0, o.version)),
                                                  {LESS_VERSION}), NoData, request)
    [] o.op = "wakeup" -> ReleaseHeadToLockWait(MergeTimeout(GroupLock(d, l, ZeroId16),
                                                             {LESS_VERSION}), o.data, request)
    [] o.op = "wait"   -> AcquirePlain(
                            MergeTimeout(Derived(d, l, GroupEventId(o.client, o.version), o.wait,
                                                 0, 0, 0), {LESS_VERSION}), request)

TreeCommand(o, d, l, fresh, request) ==
  CASE o.op = "acquire" -> AcquireWith(l, {LOCK_TREE}, NoData, request)
    [] o.op = "release" -> ReleaseWith(l, {UNLOCK_TREE}, NoData, request)
    [] o.op = "wait"    -> AcquirePlain(Derived(d, l, fresh, o.wait, 0, 0, 0), request)

\* the checks of a leaf: the lock on one node whose id is the key of the other
LinkLock(d, l, key, other) ==
  MergeTimeout(NewLock(d, key, other, 0, l.expired.value, U16MAX, 1), {RCOUNT_IS_PRIORITY})
LeafCommand(o, d, l, request) ==
  CASE o.op = "acquire" -> AcquirePlain(l, request)
    [] o.op = "release" -> ReleaseWith(l, {UNLOCK_TREE}, NoData, request)
    [] o.op = "child"   -> AcquireWith(LinkLock(d, l, l.key, Key16(o.parent)), {LOCK_TREE}, NoData,
                                       request)
    [] o.op = "parent"  -> AcquirePlain(LinkLock(d, l, Key16(o.parent), l.key), request)

\* the command of operation o of the primitive that keeps l, in database d as it is now
CommandOf(o, d, l, fresh, request) ==
  CASE o.prim = "ping"      -> PingCommand(request)
    [] o.prim = "semaphore" -> SemaphoreCommand(o, d, fresh, request)
    [] o.prim = "read"      -> ReadCommand(o, d, fresh, request)
    [] o.prim = "event"     -> EventCommand(o, d, l, fresh, request)
    [] o.prim = "group"     -> GroupCommand(o, d, l, fresh, request)
    [] o.prim = "tree"      -> TreeCommand(o, d, l, fresh, request)
    [] o.prim = "leaf"      -> LeafCommand(o, d, l, request)
    [] OTHER                -> LockCommand(o, l, request)
==============================================================================
