----------------------------- MODULE MCReplset -----------------------------
(* Small instances of AioReplset for TLC. *)
EXTENDS AioReplset

(* A tick for every command. *)
ShortBudget == [r \in Requests |-> 1]

(* One command may take longer than the others: a call that begins later   *)
(* may have the earlier deadline.                                          *)
LongCall == CHOOSE r \in Requests : TRUE
MixedBudget == [r \in Requests |-> IF r = LongCall THEN 2 ELSE 1]

(* Where a run asks only for behaviours in which no two open() of a client *)
(* meet, it need not follow the others.                                    *)
NoOrphans == \A n \in Nodes : orphan[n] = "none"
============================================================================
