--------------------------- MODULE MCConversations ---------------------------
(* Instances of Conversations for TLC. *)
EXTENDS Conversations, TLC

(* Peers and message ids are interchangeable. *)
Interchangeable == Permutations(Peers) \cup Permutations(Ids)
=============================================================================
