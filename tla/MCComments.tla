----------------------------- MODULE MCComments -----------------------------
(* Two members and guests, two comments, three overlapping requests. *)
EXTENDS Comments, TLC

Symmetry == Permutations(Comments) \cup Permutations(Members) \cup Permutations(Requests)
=============================================================================
