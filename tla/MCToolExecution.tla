--------------------------- MODULE MCToolExecution ---------------------------
(* Small instances of ToolExecution. *)
EXTENDS ToolExecution, TLC

CONSTANTS s1, t1

OneSourceOf == t1 :> s1
=============================================================================
