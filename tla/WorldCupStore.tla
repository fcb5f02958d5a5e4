--------------------------- MODULE WorldCupStore ---------------------------
(* What a world cup is to those who use it: candidates that have an image,    *)
(* results and comments that are about all the candidates they were sent for, *)
(* until one removal takes everything at once and for good.                   *)
CONSTANTS Images,  \* 0 is none of them
          Rows     \* ids of the results and comments

VARIABLES cup,     \* the world cup is there
          image,   \* image[c]: the image of candidate c, 0 without a candidate
          on,      \* on[i]: the candidates that i is about, {} without a row
          asked    \* asked[i]: those it shall be about, {} if nobody sends it

vars == <<cup, image, on, asked>>

Init == /\ cup = TRUE
        /\ image = [c \in Images |-> 0]
        /\ on = [i \in Rows |-> {}]
        /\ asked = [i \in Rows |-> {}]

Candidates == {c \in Images : image[c] # 0}
Unused(k) == \A c \in Images : image[c] # k

Create(c) == /\ cup
             /\ c \notin Candidates /\ Unused(c)
             /\ image' = [image EXCEPT ![c] = c]
             /\ UNCHANGED <<cup, on, asked>>

Replace(c, k) == /\ c \in Candidates /\ Unused(k)
                 /\ image' = [image EXCEPT ![c] = k]
                 /\ UNCHANGED <<cup, on, asked>>

(* A result or a comment is sent, once, and recorded or refused. *)
Ask(i, S) == /\ on[i] = {} /\ asked[i] = {}
             /\ S \subseteq Candidates /\ S # {}
             /\ asked' = [asked EXCEPT ![i] = S]
             /\ UNCHANGED <<cup, image, on>>

Record(i) == /\ asked[i] # {} /\ asked[i] \subseteq Candidates
             /\ on' = [on EXCEPT ![i] = asked[i]]
             /\ asked' = [asked EXCEPT ![i] = {}]
             /\ UNCHANGED <<cup, image>>

Refuse(i) == /\ asked[i] # {}
             /\ asked' = [asked EXCEPT ![i] = {}]
             /\ UNCHANGED <<cup, image, on>>

Remove == /\ cup
          /\ cup' = FALSE
          /\ image' = [c \in Images |-> 0]
          /\ on' = [i \in Rows |-> {}]
          /\ UNCHANGED asked

Next == \/ \E c \in Images : Create(c) \/ (\E k \in Images : Replace(c, k))
        \/ \E i \in Rows : (\E S \in SUBSET Images : Ask(i, S)) \/ Record(i) \/ Refuse(i)
        \/ Remove

Spec == Init /\ [][Next]_vars
=============================================================================
