----------------------------- MODULE MCPrimitives -----------------------------
(* Small instances of Primitives and AioPrimitives. *)
EXTENDS AioPrimitives, TLC

\* handles of one role, and the roles that callers may mix on a key
AllMixes == {{"lock", "flow"}, {"reentrant"}, {"token"}, {"semaphore"}, {"rw"},
             {"eventSet"}, {"eventUnset"}, {"group"},
             {"childLeaf", "rootLeaf", "rootLock", "childLock"}}
LeafMix == {{"childLeaf"}}

Symmetry == Permutations(Handles)
=============================================================================
