---------------------------- MODULE MCChatTurns ----------------------------
(***************************************************************************)
(* Instances of ChatTurns for TLC.  Requests are numbers, and the calls    *)
(* they make are listed in a fixed order: two requests that only swap      *)
(* their numbers give the same behaviours, and a symmetry set cannot be    *)
(* used where liveness is checked.  At most one of the calls renames or    *)
(* deletes, and the session starts untitled; a rename makes the rest of    *)
(* the titles.                                                             *)
(***************************************************************************)
EXTENDS ChatTurns

Rank == [send |-> 1, stream |-> 2, regenerate |-> 3, rename |-> 4, delete |-> 5]

CallsInOrder == \A r, q \in Requests : r < q => Rank[kind[r]] <= Rank[kind[q]]
OneUpdate == Cardinality({r \in Requests : kind[r] \in {"rename", "delete"}}) <= 1

MCInit == Init /\ CallsInOrder /\ OneUpdate /\ title = "New chat"

MCSpec == MCInit /\ [][Next]_vars /\ \A r \in Requests : WF_vars(Handle(r))
=============================================================================
