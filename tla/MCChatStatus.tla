---------------------------- MODULE MCChatStatus ----------------------------
(* The chat status for TLC: two applications, which no definition tells apart. *)
EXTENDS ChatStatus, TLC

Applications == Permutations(App)
=============================================================================
