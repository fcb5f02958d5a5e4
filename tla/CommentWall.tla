---------------------------- MODULE CommentWall ----------------------------
(* What visitors and members can rely on about comments: one is posted about  *)
(* a candidate that was on show after its request was sent, so never by a     *)
(* request sent after the removal; only its author takes it down, once, and   *)
(* is told so once at most.                                                   *)
EXTENDS Naturals

CONSTANTS Comments, Candidates, Members, Requests

VARIABLES open,    \* whether the world cup is public
          shown,   \* the candidates on show
          gone,    \* the candidates that were removed
          post,    \* what a comment is about, and by whom
          down,    \* the comments taken down
          told,    \* how often that was confirmed
          asked,   \* what each request wants
          seen     \* what it has seen on show since it was sent

vars == <<open, shown, gone, post, down, told, asked, seen>>
wall == <<post, down, told>>

Nothing == [op |-> "none", what |-> "none", member |-> "none"]
Blank == [candidate |-> "none", author |-> "none"]

Init == /\ open \in BOOLEAN
        /\ shown \in SUBSET Candidates
        /\ gone = {}
        /\ post = [k \in Comments |-> Blank]
        /\ down = {}
        /\ told = [k \in Comments |-> 0]
        /\ asked = [r \in Requests |-> Nothing]
        /\ seen = [r \in Requests |-> {}]

Want(r, x) == asked' = [asked EXCEPT ![r] = x]
Blind(r) == seen' = [seen EXCEPT ![r] = {}]

Ask(r, op, x, m) ==
  /\ asked[r] = Nothing
  /\ Want(r, [op |-> op, what |-> x, member |-> m])
  /\ UNCHANGED <<open, shown, gone, wall, seen>>

See(r, x) ==
  /\ asked[r].op = "write"
  /\ x = "world cup" => open
  /\ x = "candidate" => asked[r].what \in shown
  /\ seen' = [seen EXCEPT ![r] = @ \cup {x}]
  /\ UNCHANGED <<open, shown, gone, wall, asked>>

(* What a request saw in time is enough here.  The deletion policy asks more: *)
(* NoCommentOnDeleted of Comments.                                            *)
Post(r, k) ==
  /\ asked[r].op = "write"
  /\ seen[r] = {"world cup", "candidate"}
  /\ post[k] = Blank
  /\ post' = [post EXCEPT ![k] = [candidate |-> asked[r].what, author |-> asked[r].member]]
  /\ Want(r, Nothing) /\ Blind(r)
  /\ UNCHANGED <<open, shown, gone, down, told>>

TakeDown(r) ==
  /\ asked[r].op = "remove"
  /\ asked[r].what \notin down
  /\ asked[r].member \in Members
  /\ post[asked[r].what].author = asked[r].member
  /\ down' = down \cup {asked[r].what}
  /\ Want(r, [asked[r] EXCEPT !.op = "tell"])
  /\ UNCHANGED <<open, shown, gone, post, told, seen>>

Tell(r) ==
  /\ asked[r].op = "tell"
  /\ told[asked[r].what] = 0
  /\ told' = [told EXCEPT ![asked[r].what] = 1]
  /\ Want(r, Nothing)
  /\ UNCHANGED <<open, shown, gone, post, down, seen>>

Leave(r) ==
  /\ asked[r] # Nothing
  /\ Want(r, Nothing) /\ Blind(r)
  /\ UNCHANGED <<open, shown, gone, wall>>

Owner == /\ open' \in BOOLEAN
         /\ gone \subseteq gone'
         /\ shown' \subseteq Candidates \ gone'
         /\ UNCHANGED <<wall, asked, seen>>

Next == \/ \E r \in Requests :
             \/ \E c \in Candidates, m \in Members \cup {"guest"} : Ask(r, "write", c, m)
             \/ \E k \in Comments, m \in Members : Ask(r, "remove", k, m)
             \/ \E x \in {"world cup", "candidate"} : See(r, x)
             \/ \E k \in Comments : Post(r, k)
             \/ TakeDown(r) \/ Tell(r) \/ Leave(r)
        \/ Owner

Spec == Init /\ [][Next]_vars
=============================================================================
