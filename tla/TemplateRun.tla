----------------------------- MODULE TemplateRun -----------------------------
(***************************************************************************)
(* What running a conversation through its template promises, whatever     *)
(* connections, restarts and failures it takes: the items are answered one *)
(* after the other in template order, and the conversation may be marked   *)
(* completed only after the last one.                                      *)
(***************************************************************************)
EXTENDS Integers

CONSTANT N   \* number of template items

VARIABLES
  answered,   \* items the user has answered to the end
  completed   \* the conversation is stored as completed

Items == 0 .. N - 1

Init ==
  /\ answered = {}
  /\ completed = FALSE

AnswerItem(i) ==
  /\ i \notin answered
  /\ \A j \in 0 .. i - 1 : j \in answered
  /\ answered' = answered \cup {i}
  /\ UNCHANGED completed

Complete ==
  /\ answered = Items
  /\ completed' = TRUE
  /\ UNCHANGED answered

Next == Complete \/ \E i \in Items : AnswerItem(i)

Spec == Init /\ [][Next]_<<answered, completed>>

=============================================================================
