------------------------- MODULE MCApplicationList -------------------------
(***************************************************************************)
(* The application list for TLC: the sets of the .cfg files are model      *)
(* values, and connections, or applications, that are the same to the      *)
(* specification are interchanged.  No run with a liveness property uses   *)
(* symmetry.                                                               *)
(***************************************************************************)
EXTENDS ApplicationList

Connections == Permutations(Conn)
Applications == Permutations(App)

=============================================================================
