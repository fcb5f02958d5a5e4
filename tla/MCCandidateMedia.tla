-------------------------- MODULE MCCandidateMedia --------------------------
(* One candidate or three, three keys, two overlapping requests. *)
EXTENDS CandidateMedia, TLC

Symmetry == Permutations(Candidates) \cup Permutations(Keys) \cup Permutations(Requests)
=============================================================================
