--------------------------- MODULE MCChatHistory ---------------------------
(***************************************************************************)
(* Instance of ChatHistory for TLC: two turns and a third call that takes  *)
(* an answer or the session away.  See MCChatTurns for the order of the    *)
(* calls.  The session has a title, so that only the summary takes its row *)
(* lock.                                                                   *)
(***************************************************************************)
EXTENDS ChatHistory

Rank == [send |-> 1, stream |-> 2, regenerate |-> 3, rename |-> 4, delete |-> 5]

CallsInOrder == \A r, q \in Requests : r < q => Rank[kind[r]] <= Rank[kind[q]]
Turns == {r \in Requests : IsTurn(r)}

MCInit == InitHistory /\ CallsInOrder /\ Cardinality(Turns) = 2 /\ title = "chosen"

MCSpec == MCInit /\ [][NextHistory]_historyVars
=============================================================================
