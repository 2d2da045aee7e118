--------------------------------- MODULE MCMenus -------------------------------
(* Applications whose names sort against the order of their ids.           *)
EXTENDS Menus

CONSTANTS a1, a2, a3, a4

Names == a1 :> 2 @@ a2 :> 1 @@ a3 :> 3 @@ a4 :> 4

=============================================================================
