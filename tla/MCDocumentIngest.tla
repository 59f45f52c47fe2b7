-------------------------- MODULE MCDocumentIngest --------------------------
(* Instances of DocumentIngest for TLC: everything is in the .cfg files. *)
EXTENDS DocumentIngest
=============================================================================
