---------------------------- MODULE ResultStore ----------------------------
(* What the clients of saveGameResult are promised: a store in which each     *)
(* playId is given a result once, and every client that gets an answer about  *)
(* a playId is told whether the result it holds is the one it asked for.      *)
(* The removal of a world cup takes its results with it.                      *)
CONSTANTS WorldCups, PlayIds, Results, NoResult

VARIABLES play,     \* the result of each playId, or NoResult
          removed,  \* the world cups that are gone
          answers   \* the answers so far

vars == <<play, removed, answers>>

Init == play = [i \in PlayIds |-> NoResult] /\ removed = {} /\ answers = {}

(* A playId gets its result. *)
Store(i, x) == /\ play[i] = NoResult
               /\ x.worldCup \notin removed
               /\ play' = [play EXCEPT ![i] = x]
               /\ UNCHANGED <<removed, answers>>

(* A world cup goes with its results; the others stay. *)
Remove(w) ==
  /\ w \notin removed
  /\ removed' = removed \cup {w}
  /\ play' = [i \in PlayIds |->
               IF play[i] # NoResult /\ play[i].worldCup = w THEN NoResult ELSE play[i]]
  /\ UNCHANGED answers

(* A client that asked to save x is told; its result may be gone by the time  *)
(* the answer arrives.                                                        *)
Tell(i, x, status) ==
  /\ \/ status = "saved" /\ (play[i] = x \/ x.worldCup \in removed)
     \/ status = "conflict" /\ play[i] \notin {x, NoResult}
  /\ answers' = answers \cup {[id |-> i, result |-> x, status |-> status]}
  /\ UNCHANGED <<play, removed>>

Next == \/ \E i \in PlayIds, x \in Results :
             Store(i, x) \/ \E status \in {"saved", "conflict"} : Tell(i, x, status)
        \/ \E w \in WorldCups : Remove(w)

Spec == Init /\ [][Next]_vars
=============================================================================
