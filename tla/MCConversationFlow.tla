------------------------- MODULE MCConversationFlow -------------------------
(* Instances of ConversationFlow for TLC. *)
EXTENDS ConversationFlow, TLC

CONSTANTS c1, c2, w1, w2

\* one required widget per item, and a confirmation button on the second
TwoRequired == (0 :> {w1}) @@ (1 :> {w1})
TwoConfirm == {1}

\* a confirmation button, then two widgets, then one of these widgets
ThreeRequired == (0 :> {w1}) @@ (1 :> {w1, w2}) @@ (2 :> {w2})
ThreeConfirm == {0}

=============================================================================
