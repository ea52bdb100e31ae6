------------------------------ MODULE LockServer ------------------------------
(***************************************************************************)
(* The slock server as the primitives of the client use it (external: its  *)
(* code is in another repository).  A key has a sequence of holders, the   *)
(* earliest first; each has the id and the count of its lock command and   *)
(* the number of times it entered.  The requests and results are those of  *)
(* src/src/blocking/primitives.rs and of tests/primitive_state_mock.rs;    *)
(* that a tree unlock goes on to the parent is what the tree lock test of  *)
(* tests/java_parity_flow_tree.rs relies on.                               *)
(***************************************************************************)
EXTENDS Retain

(* A request names its key, the lock id, how many other holders it admits  *)
(* (count), how often its id may enter again (rcount), and its mode:       *)
(*   lock:   "keep"; "probe" (expires at once, so nothing is kept);        *)
(*           "probeLocked" (the same with LOCK_WAIT_WHEN_UNLOCK)           *)
(*   unlock: "own"; "first" (UNLOCK_FIRST_LOCK); "tree" (UNLOCK_TREE_LOCK) *)

Holds(hs, id) == \E i \in DOMAIN hs : hs[i].id = id
Deepen(hs, id, d) ==
  [i \in DOMAIN hs |-> IF hs[i].id = id THEN [hs[i] EXCEPT !.depth = @ + d]
                                        ELSE hs[i]]

Reenters(hs, r) ==
  \E i \in DOMAIN hs : hs[i].id = r.id /\ hs[i].depth =< r.rcount
Admits(hs, r) ==
  /\ ~Holds(hs, r.id)
  /\ Len(hs) =< r.count
  /\ \A i \in DOMAIN hs : Len(hs) =< hs[i].count
  /\ r.mode = "probeLocked" => hs # << >>

LockResult(hs, r) ==
  IF Admits(hs, r) \/ Reenters(hs, r) THEN "succed"
  ELSE IF Holds(hs, r.id) THEN "locked" ELSE "timeout"

AfterLock(hs, r) ==
  IF LockResult(hs, r) # "succed" \/ r.mode # "keep" THEN hs
  ELSE IF Holds(hs, r.id) THEN Deepen(hs, r.id, 1)
  ELSE Append(hs, [id |-> r.id, count |-> r.count, depth |-> 1])

UnlockResult(hs, r) ==
  IF Holds(hs, r.id) \/ (r.mode = "first" /\ hs # << >>) THEN "succed"
  ELSE IF hs = << >> THEN "unlock_error" ELSE "unown_error"

\* the id an unlock that succeeds takes out
Victim(hs, r) == IF Holds(hs, r.id) THEN r.id ELSE hs[1].id

AfterUnlock(hs, r) ==
  IF UnlockResult(hs, r) # "succed" THEN hs
  ELSE LET id == Victim(hs, r)
           deep == \E i \in DOMAIN hs : hs[i].id = id /\ hs[i].depth > 1
       IN  IF deep THEN Deepen(hs, id, -1) ELSE Without(hs, id)

ResultOf(hs, r) == IF r.cmd = "lock" THEN LockResult(hs, r) ELSE UnlockResult(hs, r)
AfterOf(hs, r) == IF r.cmd = "lock" THEN AfterLock(hs, r) ELSE AfterUnlock(hs, r)
=============================================================================
