----------------------------- MODULE MCRankings -----------------------------
(* Batches of one or two candidates for two world cups, two requests that add *)
(* them, and lists of up to four candidates with any pattern of ties.         *)
EXTENDS Rankings, TLC

MCScores == {0} \cup {ScoreForRank(r) : r \in 1..4}

Symmetry == Permutations(Requests) \cup Permutations(WorldCups)

(* A bound: a list is read and ranked while nobody adds a candidate, and of   *)
(* candidates numbered in the order of their ids.  It reads committed rows    *)
(* only, never their numbers, and nobody reads its variables: its steps       *)
(* commute with those they are kept apart from.                               *)
ListsApart ==
  listing # "idle" \/ listing' # "idle" =>
     /\ UNCHANGED vars
     /\ \A r \in Requests : req[r].pc = "idle"
     /\ \A c, d \in Candidates : cup[c] = cup[d] /\ cup[c] # "none" /\ c < d => order[c] < order[d]
=============================================================================
