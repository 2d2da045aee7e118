------------------------------ MODULE MCSession ------------------------------
(* The session for TLC: one application, one connection. *)
EXTENDS Session
=============================================================================
