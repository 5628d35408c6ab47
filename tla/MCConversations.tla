----------------------------- MODULE MCConversations -----------------------------
(* Three Direct messages of a pair and of the successor of one of them, or *)
(* two Group messages, of which one may be a reply to the other.           *)
EXTENDS Conversations, TLC

CONSTANTS a, a2, b, d, toB, toA, fromHeir

MCSuccessor == a2 :> a
MCFrom == toB :> a @@ toA :> b @@ fromHeir :> a2
MCTo == toB :> b @@ toA :> a @@ fromHeir :> b
MCGroupFrom == 1 :> a @@ 2 :> b @@ 3 :> a
MCParent == 1 :> None @@ 2 :> None @@ 3 :> 1
MCWorkloads == {{toB, toA, fromHeir}, {1, 2}, {1, 3}}
=============================================================================
