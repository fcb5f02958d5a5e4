------------------------------ MODULE Tournament ------------------------------
(* What a player is promised, whatever becomes of the world cup meanwhile: a  *)
(* game of rounds, each of them drawn at once and complete, without those     *)
(* that have lost, until two are left.  It is refused only if something was   *)
(* withdrawn, and others than the winners come in only if others were added.  *)
EXTENDS Naturals, FiniteSets

CONSTANTS Candidates, Rounds

VARIABLES phase,      \* "over", "open": the round is to be drawn, "drawn" or "refused"
          round,      \* how many candidates it has
          hand,       \* those that were drawn
          winners,    \* those of the round before, {} in the first one
          lost,       \* those that have lost
          withdrawn,  \* candidates or the world cup were withdrawn since the beginning
          others      \* there are more candidates than the first round has

vars == <<phase, round, hand, winners, lost, withdrawn, others>>

Init == /\ phase = "over" /\ round = 0
        /\ hand = {} /\ winners = {} /\ lost = {}
        /\ withdrawn = FALSE /\ others = FALSE

Begin(n) == /\ phase = "over"
            /\ phase' = "open" /\ round' = n
            /\ others' \in BOOLEAN
            /\ UNCHANGED <<hand, winners, lost, withdrawn>>

Draw(S) == /\ phase = "open"
           /\ S \cap lost = {} /\ Cardinality(S) = round
           /\ winners = {} \/ S = winners \/ others
           /\ phase' = "drawn" /\ hand' = S
           /\ UNCHANGED <<round, winners, lost, withdrawn, others>>

Refuse == /\ phase = "open" /\ withdrawn
          /\ phase' = "refused"
          /\ UNCHANGED <<round, hand, winners, lost, withdrawn, others>>

Advance(W) == /\ phase = "drawn" /\ round > 2
              /\ W \subseteq hand /\ Cardinality(W) = round \div 2
              /\ phase' = "open" /\ round' = round \div 2
              /\ hand' = {} /\ winners' = W /\ lost' = lost \cup (hand \ W)
              /\ UNCHANGED <<withdrawn, others>>

End == /\ phase = "refused" \/ (phase = "drawn" /\ round = 2)
       /\ phase' = "over" /\ round' = 0
       /\ hand' = {} /\ winners' = {} /\ lost' = {}
       /\ withdrawn' = FALSE /\ others' = FALSE

(* The owner edits the world cup. *)
Edit == /\ phase # "over"
        /\ withdrawn' \in {withdrawn, TRUE} /\ others' \in {others, TRUE}
        /\ UNCHANGED <<phase, round, hand, winners, lost>>

Next == \/ \E n \in Rounds : Begin(n)
        \/ \E S \in SUBSET Candidates : Draw(S) \/ Advance(S)
        \/ Refuse \/ End \/ Edit

Spec == Init /\ [][Next]_vars
=============================================================================
