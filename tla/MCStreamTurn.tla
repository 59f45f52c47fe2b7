---------------------------- MODULE MCStreamTurn ----------------------------
(* Instances of StreamTurn for TLC: everything is in the .cfg files. *)
EXTENDS StreamTurn
=============================================================================
