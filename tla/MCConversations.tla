--------------------------- MODULE MCConversations ---------------------------
(* Two tabs. *)
EXTENDS Conversations, TLC

CONSTANTS t1, t2

TwoTabs == {t1, t2}

=============================================================================
