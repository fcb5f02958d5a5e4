---------------------------- MODULE MCGameRounds ----------------------------
(* Symmetric candidates and requests. *)
EXTENDS GameRounds, TLC

Symmetry == Permutations(Candidates) \cup Permutations(Requests)
=============================================================================
