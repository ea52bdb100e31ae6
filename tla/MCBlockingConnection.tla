----------------------- MODULE MCBlockingConnection -----------------------
(* Small instances of BlockingConnection for TLC. *)
EXTENDS BlockingConnection, TLC

(* Calls, connections, openers and closers are told apart only by name. *)
Symmetry ==
    Permutations(Requests) \cup Permutations(Conns)
        \cup Permutations(Openers) \cup Permutations(Closers)
===========================================================================
