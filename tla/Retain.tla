-------------------------------- MODULE Retain --------------------------------
(***************************************************************************)
(* Taking an entry out of a queue of entries with ids: retain of           *)
(* remove_pending_command (src/blocking/replset.rs), and the same at       *)
(* the lock server.  It is SelectSeq, written without recursion so that    *)
(* the proofs of Retain_proofs can look into it.                           *)
(***************************************************************************)
EXTENDS Integers, Sequences, FiniteSets

\* the k-th smallest of a finite set of numbers
Nth(S, k) == CHOOSE i \in S : Cardinality({j \in S : j =< i}) = k

Kept(queue, id) == {i \in DOMAIN queue : queue[i].id # id}

\* the entries of another id, in their order
Without(queue, id) ==
  [k \in 1 .. Cardinality(Kept(queue, id)) |-> queue[Nth(Kept(queue, id), k)]]
=============================================================================
