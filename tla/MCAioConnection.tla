-------------------------- MODULE MCAioConnection --------------------------
(* Small instances of AioConnection for TLC. *)
EXTENDS AioConnection, TLC

(* Calls, connections, openers and closers are told apart only by name. *)
Symmetry ==
    Permutations(Requests) \cup Permutations(Conns)
        \cup Permutations(Openers) \cup Permutations(Closers)
===========================================================================
