--------------------------- MODULE MCGameResults ---------------------------
(* Two world cups, two candidates of the first; three bodies: a final, the   *)
(* same final the other way round, and the first final sent to the wrong     *)
(* world cup.                                                                *)
EXTENDS GameResults, TLC
CONSTANTS w1, w2, c1, c2

Final(w, first, second) ==
  [worldCup |-> w, round |-> 2,
   placements |-> {[rank |-> 1, candidate |-> first], [rank |-> 2, candidate |-> second]}]

MCCupOf == [c \in Candidates |-> w1]
MCResults == {Final(w1, c1, c2), Final(w1, c2, c1), Final(w2, c1, c2)}
MCFinals == {Final(w1, c1, c2), Final(w1, c2, c1)}

Symmetry == Permutations(Requests) \cup Permutations(Candidates)
=============================================================================
