---------------------------- MODULE MCChatScreen ----------------------------
(***************************************************************************)
(* Instances of ChatScreen for TLC, in a session that has an earlier turn  *)
(* (without one there is less a late frame could write over).              *)
(***************************************************************************)
EXTENDS ChatScreen

MCInit == ScreenInit /\ earlier

MCSpec == MCInit /\ [][ScreenNext]_everything /\ ScreenFairness
=============================================================================
