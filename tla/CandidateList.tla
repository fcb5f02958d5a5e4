--------------------------- MODULE CandidateList ---------------------------
(* What the owners of world cups are promised about the candidates they add:  *)
(* a world cup has a list of them, a request puts all of its candidates at    *)
(* the end at once or none, and a place in the list is for ever, whatever     *)
(* becomes of the candidate that has it.                                      *)
EXTENDS Naturals, Sequences

CONSTANTS WorldCups, Candidates, Requests,
          MaxBatch     \* candidates of one request

VARIABLES list,    \* list[w]: the candidates of w in their order
          hidden,  \* those that were removed, and keep their places
          asked    \* asked[r]: how many candidates r wants, and where

vars == <<list, hidden, asked>>

Nothing == [cup |-> "none", count |-> 0]

Init == /\ list = [w \in WorldCups |-> <<>>]
        /\ hidden = {}
        /\ asked = [r \in Requests |-> Nothing]

Listed(c) == \E w \in WorldCups : \E i \in DOMAIN list[w] : list[w][i] = c

Ask(r, w, n) == /\ asked[r] = Nothing
                /\ asked' = [asked EXCEPT ![r] = [cup |-> w, count |-> n]]
                /\ UNCHANGED <<list, hidden>>

(* New candidates, each of them once, as many as r asked for. *)
Grant(r, batch) ==
  /\ asked[r] # Nothing
  /\ \A i, j \in DOMAIN batch : batch[i] = batch[j] => i = j
  /\ \A i \in DOMAIN batch : ~Listed(batch[i])
  /\ list' = [list EXCEPT ![asked[r].cup] = @ \o batch]
  /\ asked' = [asked EXCEPT ![r] = Nothing]
  /\ UNCHANGED hidden

Refuse(r) == /\ asked[r] # Nothing
             /\ asked' = [asked EXCEPT ![r] = Nothing]
             /\ UNCHANGED <<list, hidden>>

Hide(c) == /\ Listed(c)
           /\ c \notin hidden
           /\ hidden' = hidden \cup {c}
           /\ UNCHANGED <<list, asked>>

Next == \/ \E r \in Requests :
             \/ \E w \in WorldCups, n \in 1..MaxBatch : Ask(r, w, n)
             \/ \E batch \in [1..asked[r].count -> Candidates] : Grant(r, batch)
             \/ Refuse(r)
        \/ \E c \in Candidates : Hide(c)

Spec == Init /\ [][Next]_vars
=============================================================================
