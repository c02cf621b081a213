--------------------------- MODULE MCToolInventory ---------------------------
(* Instances of ToolInventory for TLC. *)
EXTENDS ToolInventory, TLC

CONSTANTS t1, t2, p1, p2, d1, d2

\* every kind of command, and those that delete nothing
Everything == AllCommands
NoDeletion == {"refresh", "edit", "enable", "disable", "describe"}

WorkerSymmetry == Permutations({p1, p2}) \cup Permutations({d1, d2})
ToolSymmetry == Permutations({t1, t2}) \cup Permutations({d1, d2})

=============================================================================
