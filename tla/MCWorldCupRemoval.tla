------------------------- MODULE MCWorldCupRemoval -------------------------
(* Two games and a comment about candidates of two images, two requests at    *)
(* once, three attempts to delete an object as in the code.                   *)
EXTENDS WorldCupRemoval
=============================================================================
