--------------------------- MODULE MCConversation ---------------------------
(* Instances of Conversation for TLC.                                       *)
EXTENDS Conversation, TLC

Symmetry == Permutations(Client) \union Permutations(Request)
=============================================================================
