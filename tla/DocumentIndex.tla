--------------------------- MODULE DocumentIndex ---------------------------
(***************************************************************************)
(* What the document subsystem promises to search (ai/rag/retriever.py):   *)
(* a document is uploaded once, is (re)indexed as one indivisible step     *)
(* that leaves exactly one complete set of chunks behind, and may be       *)
(* soft-deleted for good.  Retries, duplicate deliveries, crashes and      *)
(* partial work are invisible.  DocumentIngest implements this module.     *)
(***************************************************************************)
EXTENDS Naturals

CONSTANT Docs

VARIABLES
    status,   \* [Docs -> {"absent", "pending", "ready"}]
    deleted,  \* [Docs -> BOOLEAN]
    copies    \* [Docs -> Nat], complete chunk sets a search would see

vars == <<status, deleted, copies>>

Init ==
    /\ status  = [d \in Docs |-> "absent"]
    /\ deleted = [d \in Docs |-> FALSE]
    /\ copies  = [d \in Docs |-> 0]

Upload(d) ==
    /\ status[d] = "absent"
    /\ status' = [status EXCEPT ![d] = "pending"]
    /\ UNCHANGED <<deleted, copies>>

\* Indexing and re-indexing are the same step: one complete chunk set remains.
Index(d) ==
    /\ status[d] \in {"pending", "ready"}
    /\ status' = [status EXCEPT ![d] = "ready"]
    /\ copies' = [copies EXCEPT ![d] = 1]
    /\ UNCHANGED deleted

Delete(d) ==
    /\ status[d] # "absent"
    /\ ~deleted[d]
    /\ deleted' = [deleted EXCEPT ![d] = TRUE]
    /\ UNCHANGED <<status, copies>>

Next == \E d \in Docs : Upload(d) \/ Index(d) \/ Delete(d)

Spec == Init /\ [][Next]_vars
=============================================================================
