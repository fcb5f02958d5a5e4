--------------------------- MODULE CommentsProofs ---------------------------
(* Theorems about Comments for any number of comments, members and requests.  *)
EXTENDS Comments, FiniteSetTheorems, TLAPS

(* What a request knows of the comment it creates or removes.                 *)
RequestInv(r) ==
  /\ req[r].pc \in {"worldCup", "candidate", "insert"} => /\ req[r].candidate \in Candidates
                                                          /\ req[r].member \in Members \cup {"guest"}
  /\ req[r].pc \in {"find", "update", "respond"} => /\ req[r].comment \in Comments
                                                    /\ req[r].member \in Members
  /\ req[r].pc = "respond" => req[r].comment \in removed

(* A removal is told once, or about to be told by one request, or neither.    *)
ToldOnce(k) ==
  /\ k \notin removed => told[k] = 0
  /\ told[k] \in {0, 1}
  /\ told[k] = 1 => Removing(k) = {}
  /\ \A r, q \in Removing(k) : r = q

IInv == TypeOK /\ (\A r \in Requests : RequestInv(r)) /\ (\A k \in Comments : ToldOnce(k))

(* What an assignment to one request's record does to req.                    *)
LEMMA BecomeSetsOne ==
  ASSUME TypeOK, NEW r \in Requests, NEW x \in Request, Become(r, x)
  PROVE  /\ req' \in [Requests -> Request]
         /\ req'[r] = x
         /\ \A q \in Requests : q # r => req'[q] = req[q]
  BY DEF TypeOK, Become

(* The request record without a request.                                      *)
LEMMA IdleIsRequest == Idle \in Request /\ Idle.pc = "idle"
  BY DEF Idle, Request, Steps

(* Initially nobody has written anything.                                     *)
LEMMA InitInvariant == Init => IInv
<1> SUFFICES ASSUME Init PROVE IInv
  OBVIOUS
<1>1. TypeOK
  BY IdleIsRequest DEF Init, TypeOK
<1>2. \A r \in Requests : RequestInv(r)
  BY IdleIsRequest DEF Init, RequestInv
<1>3. \A k \in Comments : ToldOnce(k)
  BY IdleIsRequest DEF Init, ToldOnce, Removing
<1> QED
  BY <1>1, <1>2, <1>3 DEF IInv

(* A request moves on, or ends, and the comments stay as they are.            *)
LEMMA GoesOn ==
  ASSUME IInv, NEW r \in Requests, NEW x \in Request, Become(r, x), UNCHANGED <<rows, told>>,
         public' \in BOOLEAN, hidden' \subseteq Candidates, deleted' \subseteq Candidates,
         x.pc # "respond",
         x.pc \in {"worldCup", "candidate", "insert"} => /\ x.candidate \in Candidates
                                                         /\ x.member \in Members \cup {"guest"},
         x.pc \in {"find", "update"} => x.comment \in Comments /\ x.member \in Members
  PROVE  IInv'
<1>1. /\ req' \in [Requests -> Request]
      /\ req'[r] = x
      /\ \A q \in Requests : q # r => req'[q] = req[q]
  BY BecomeSetsOne DEF IInv
<1>2. TypeOK'
  BY <1>1 DEF IInv, TypeOK, rows
<1>3. ASSUME NEW q \in Requests PROVE RequestInv(q)'
  <2>1. RequestInv(q)
    BY DEF IInv
  <2> QED
    BY <1>1, <2>1 DEF RequestInv, rows
<1>4. ASSUME NEW k \in Comments PROVE ToldOnce(k)'
  <2>1. ToldOnce(k)
    BY DEF IInv
  <2>2. Removing(k)' \subseteq Removing(k)
    BY <1>1 DEF Removing
  <2> QED
    BY <2>1, <2>2 DEF ToldOnce, rows
<1> QED
  BY <1>2, <1>3, <1>4 DEF IInv

(* The INSERT of a comment: its id is in no request that removes and is not   *)
(* removed yet.                                                               *)
LEMMA InsertInvariant ==
  ASSUME IInv, NEW r \in Requests, NEW k \in Comments, Insert(r, k)
  PROVE  IInv'
<1>1. /\ req' \in [Requests -> Request]
      /\ req'[r] = Idle
      /\ \A q \in Requests : q # r => req'[q] = req[q]
  BY BecomeSetsOne, IdleIsRequest DEF IInv, Insert
<1>2. /\ req[r].candidate \in Candidates /\ req[r].member \in Members \cup {"guest"}
      /\ "none" \notin Candidates /\ "none" \notin Members
  BY NamesAssumption DEF IInv, RequestInv, Insert, NamesAssumption
<1>3. /\ about' \in [Comments -> Candidates \cup {"none"}]
      /\ author' \in [Comments -> Members \cup {"guest", "none"}]
      /\ \A l \in Comments : about'[l] = "none" <=> author'[l] = "none"
      /\ removed' = removed /\ removed \subseteq {l \in Comments : about'[l] # "none"}
  BY <1>2 DEF Insert, IInv, TypeOK
<1>4. TypeOK'
  BY <1>1, <1>3 DEF Insert, IInv, TypeOK, owned
<1>5. ASSUME NEW q \in Requests PROVE RequestInv(q)'
  BY <1>1, <1>3, IdleIsRequest DEF RequestInv, IInv
<1>6. ASSUME NEW l \in Comments PROVE ToldOnce(l)'
  <2>1. Removing(l)' \subseteq Removing(l)
    BY <1>1, IdleIsRequest DEF Removing
  <2> QED
    BY <1>3, <2>1 DEF ToldOnce, IInv, Insert
<1> QED
  BY <1>4, <1>5, <1>6 DEF IInv

(* The conditional update: only the first one finds the comment not removed.  *)
LEMMA UpdateInvariant ==
  ASSUME IInv, NEW r \in Requests, Update(r)
  PROVE  IInv'
<1> DEFINE k == req[r].comment
<1>1. k \in Comments /\ req[r].member \in Members /\ req[r] \in Request
  BY DEF Update, IInv, TypeOK, RequestInv
<1>2. CASE ~(author[k] = req[r].member /\ k \notin removed)
  <2>1. Become(r, Idle) /\ UNCHANGED <<rows, told>> /\ UNCHANGED owned
    BY <1>2 DEF Update, rows
  <2> QED
    BY <2>1, IdleIsRequest, GoesOn DEF IInv, TypeOK, owned
<1>3. CASE author[k] = req[r].member /\ k \notin removed
  <2> DEFINE x == [req[r] EXCEPT !.pc = "respond"]
  <2>1. x \in Request /\ x.pc = "respond" /\ x.comment = k /\ x.member = req[r].member
    BY <1>1 DEF Request, Steps
  <2>2. Become(r, x) /\ removed' = removed \cup {k} /\ UNCHANGED <<about, author, owned, told>>
    BY <1>3 DEF Update, Goto
  <2> HIDE DEF x
  <2>3. /\ req' \in [Requests -> Request]
        /\ req'[r] = x
        /\ \A q \in Requests : q # r => req'[q] = req[q]
    BY <2>1, <2>2, BecomeSetsOne DEF IInv
  <2>4. about[k] # "none"
    BY <1>1, <1>3, NamesAssumption DEF IInv, TypeOK, NamesAssumption
  <2>5. TypeOK'
    BY <1>1, <2>2, <2>3, <2>4 DEF IInv, TypeOK, owned
  <2>6. ASSUME NEW q \in Requests PROVE RequestInv(q)'
    BY <1>1, <2>1, <2>2, <2>3 DEF RequestInv, IInv
  <2>7. ASSUME NEW l \in Comments PROVE ToldOnce(l)'
    <3>1. ToldOnce(l) /\ (l = k => told[l] = 0 /\ Removing(l) = {})
      BY <1>1, <1>3 DEF IInv, ToldOnce, RequestInv, Removing
    <3>2. /\ l # k => Removing(l)' \subseteq Removing(l)
          /\ l = k => Removing(l)' \subseteq {r}
      BY <2>1, <2>3, <3>1 DEF Removing
    <3> QED
      BY <2>2, <3>1, <3>2 DEF ToldOnce
  <2> QED
    BY <2>5, <2>6, <2>7 DEF IInv
<1> QED
  BY <1>2, <1>3

(* The 204.                                                                   *)
LEMMA RespondInvariant ==
  ASSUME IInv, NEW r \in Requests, Respond(r)
  PROVE  IInv'
<1> DEFINE k == req[r].comment
<1>1. /\ k \in Comments /\ k \in removed /\ r \in Removing(k)
      /\ ToldOnce(k) /\ told \in [Comments -> Nat]
  BY DEF Respond, IInv, TypeOK, RequestInv, Removing
<1>2. told[k] = 0
  BY <1>1 DEF ToldOnce
<1>3. /\ req' \in [Requests -> Request]
      /\ req'[r] = Idle
      /\ \A q \in Requests : q # r => req'[q] = req[q]
  BY BecomeSetsOne, IdleIsRequest DEF IInv, Respond
<1>4. /\ told' \in [Comments -> Nat] /\ told'[k] = 1
      /\ \A l \in Comments : l # k => told'[l] = told[l]
      /\ UNCHANGED <<about, author, removed, public, hidden, deleted>>
  BY <1>1, <1>2 DEF Respond, rows, owned
<1>5. TypeOK'
  BY <1>3, <1>4 DEF IInv, TypeOK
<1>6. ASSUME NEW q \in Requests PROVE RequestInv(q)'
  BY <1>3, <1>4, IdleIsRequest DEF RequestInv, IInv
<1>7. ASSUME NEW l \in Comments PROVE ToldOnce(l)'
  <2>1. Removing(l)' \subseteq Removing(l) \ {r} /\ ToldOnce(l)
    BY <1>3, IdleIsRequest DEF Removing, IInv
  <2>2. CASE l = k
    <3>1. Removing(l)' = {}
      BY <1>1, <2>1, <2>2 DEF ToldOnce
    <3> QED
      BY <1>1, <1>4, <2>2, <3>1 DEF ToldOnce
  <2>3. CASE l # k
    BY <1>4, <2>1, <2>3 DEF ToldOnce
  <2> QED
    BY <2>2, <2>3
<1> QED
  BY <1>5, <1>6, <1>7 DEF IInv
-----------------------------------------------------------------------------
(* Every step preserves the invariant.                                        *)
LEMMA NextInvariant == IInv /\ [Next]_vars => IInv'
<1> SUFFICES ASSUME IInv, [Next]_vars PROVE IInv'
  OBVIOUS
<1> USE IdleIsRequest
<1>t. /\ public \in BOOLEAN /\ hidden \subseteq Candidates /\ deleted \subseteq Candidates
      /\ \A r \in Requests : req[r] \in Request /\ RequestInv(r)
  BY DEF IInv, TypeOK
<1>1. ASSUME NEW r \in Requests, NEW c \in Candidates, NEW m \in Members \cup {"guest"}, Create(r, c, m)
      PROVE  IInv'
  <2> DEFINE x == [Idle EXCEPT !.pc = "worldCup", !.candidate = c, !.member = m]
  <2>1. x \in Request /\ x.pc = "worldCup" /\ x.candidate = c /\ x.member = m
    BY DEF Idle, Request, Steps
  <2>2. Become(r, x) /\ UNCHANGED <<rows, told>> /\ UNCHANGED owned
    BY <1>1 DEF Create
  <2> HIDE DEF x
  <2> QED
    BY <1>t, <2>1, <2>2, GoesOn DEF owned
<1>2. ASSUME NEW r \in Requests, NEW k \in Comments, NEW m \in Members, Remove(r, k, m)
      PROVE  IInv'
  <2> DEFINE x == [Idle EXCEPT !.pc = "find", !.comment = k, !.member = m]
  <2>1. x \in Request /\ x.pc = "find" /\ x.comment = k /\ x.member = m
    BY DEF Idle, Request, Steps
  <2>2. Become(r, x) /\ UNCHANGED <<rows, told>> /\ UNCHANGED owned
    BY <1>2 DEF Remove
  <2> HIDE DEF x
  <2> QED
    BY <1>t, <2>1, <2>2, GoesOn DEF owned
<1>3. ASSUME NEW r \in Requests, FindWorldCup(r) \/ FindCandidate(r) \/ FindComment(r) \/ Fail(r)
      PROVE  IInv'
  <2>1. UNCHANGED <<rows, told>> /\ UNCHANGED owned
    BY <1>3 DEF FindWorldCup, FindCandidate, FindComment, Fail
  <2>2. CASE Become(r, Idle)
    BY <1>t, <2>1, <2>2, GoesOn DEF owned
  <2>3. ASSUME NEW s \in Steps, Goto(r, s), s \in {"candidate", "insert"},
               req[r].pc \in {"worldCup", "candidate"}
        PROVE  IInv'
    <3> DEFINE x == [req[r] EXCEPT !.pc = s]
    <3>1. x \in Request /\ x.pc = s /\ x.candidate = req[r].candidate /\ x.member = req[r].member
      BY <1>t, <2>3 DEF Request
    <3>2. Become(r, x) /\ x.candidate \in Candidates /\ x.member \in Members \cup {"guest"}
      BY <1>t, <2>3, <3>1 DEF Goto, RequestInv
    <3> HIDE DEF x
    <3> QED
      BY <1>t, <2>1, <2>3, <3>1, <3>2, GoesOn DEF owned
  <2>4. ASSUME Goto(r, "update"), req[r].pc = "find" PROVE IInv'
    <3> DEFINE x == [req[r] EXCEPT !.pc = "update"]
    <3>1. x \in Request /\ x.pc = "update" /\ x.comment = req[r].comment /\ x.member = req[r].member
      BY <1>t DEF Request, Steps
    <3>2. Become(r, x) /\ x.comment \in Comments /\ x.member \in Members
      BY <1>t, <2>4, <3>1 DEF Goto, RequestInv
    <3> HIDE DEF x
    <3> QED
      BY <1>t, <2>1, <3>1, <3>2, GoesOn DEF owned
  <2> QED
    BY <1>3, <2>2, <2>3, <2>4 DEF FindWorldCup, FindCandidate, FindComment, Fail, Steps
<1>4. CASE UpdateWorldCup \/ (\E c \in Candidates : UpdateCandidate(c) \/ RemoveCandidate(c))
           \/ UNCHANGED vars
  <2>1. UNCHANGED <<about, author, removed, told, req>>
    BY <1>4 DEF UpdateWorldCup, UpdateCandidate, RemoveCandidate, vars, rows
  <2>2. public' \in BOOLEAN /\ hidden' \subseteq Candidates /\ deleted' \subseteq Candidates
    BY <1>t, <1>4 DEF UpdateWorldCup, UpdateCandidate, RemoveCandidate, vars
  <2> QED
    BY <2>1, <2>2 DEF IInv, TypeOK, RequestInv, ToldOnce, Removing
<1> QED
  BY <1>1, <1>2, <1>3, <1>4, InsertInvariant, UpdateInvariant, RespondInvariant DEF Next, Step

(* The invariant holds throughout.                                            *)
THEOREM Invariance == Spec => []IInv
  BY InitInvariant, NextInvariant, PTL DEF Spec

(* Type correctness.                                                          *)
THEOREM TypeCorrect == Spec => []TypeOK
<1>1. IInv => TypeOK
  BY DEF IInv
<1> QED
  BY <1>1, Invariance, PTL

(* One 204 at most is sent or about to be sent for a comment, and only for a  *)
(* comment that is removed.                                                   *)
THEOREM OneRemoval == Spec => []RemovedOnce
<1>1. ASSUME IInv, NEW k \in Comments
      PROVE  told[k] + Cardinality(Removing(k)) <= IF k \in removed THEN 1 ELSE 0
  <2>1. ToldOnce(k) /\ told[k] \in {0, 1}
    BY <1>1 DEF IInv, ToldOnce
  <2>2. Removing(k) # {} => k \in removed
    BY <1>1 DEF IInv, RequestInv, Removing
  <2>3. CASE Removing(k) = {}
    BY <2>1, <2>3, FS_EmptySet DEF ToldOnce
  <2>4. CASE Removing(k) # {}
    <3>1. PICK r : Removing(k) = {r}
      BY <2>1, <2>4 DEF ToldOnce
    <3>2. Cardinality(Removing(k)) = 1
      BY <3>1, FS_Singleton
    <3> QED
      BY <2>1, <2>2, <2>4, <3>2 DEF ToldOnce
  <2> QED
    BY <2>3, <2>4
<1>2. IInv => RemovedOnce
  BY <1>1 DEF RemovedOnce
<1> QED
  BY <1>2, Invariance, PTL

(* Only a request of a comment's author removes it.                           *)
THEOREM AuthorsRemove == Spec => RemovedByAuthor
<1> DEFINE A == \A k \in removed' \ removed :
                  \E r \in Requests : /\ req[r].pc = "update"
                                      /\ req[r].comment = k
                                      /\ req[r].member = author[k]
                                      /\ author[k] \in Members
<1>1. IInv /\ [Next]_vars => [A]_vars
  <2> SUFFICES ASSUME IInv, Next, NEW k \in removed' \ removed
               PROVE  \E r \in Requests : /\ req[r].pc = "update"
                                          /\ req[r].comment = k
                                          /\ req[r].member = author[k]
                                          /\ author[k] \in Members
    BY DEF vars
  <2>1. PICK r \in Requests : Update(r)
    BY DEF Next, Step, Create, Remove, FindWorldCup, FindCandidate, Insert, FindComment, Respond,
           Fail, UpdateWorldCup, UpdateCandidate, RemoveCandidate, rows
  <2>2. req[r].member \in Members
    BY <2>1 DEF Update, IInv, RequestInv
  <2> QED
    BY <2>1, <2>2 DEF Update
<1>2. ([][A]_vars) => RemovedByAuthor
  BY PTL DEF RemovedByAuthor
<1> HIDE DEF A
<1> QED
  BY <1>1, <1>2, Invariance, PTL DEF Spec
-----------------------------------------------------------------------------
(* What Wish and Found make of a request at each of its steps.                *)
LEMMA Wishes ==
  ASSUME NEW x
  PROVE  /\ x.pc \in {"worldCup", "candidate", "insert"}
              => Wish(x) = [op |-> "write", what |-> x.candidate, member |-> x.member]
         /\ x.pc \in {"find", "update"}
              => Wish(x) = [op |-> "remove", what |-> x.comment, member |-> x.member]
         /\ x.pc = "respond" => Wish(x) = [op |-> "tell", what |-> x.comment, member |-> x.member]
         /\ x.pc = "idle" => Wish(x) = Wall!Nothing
         /\ x.pc \in Steps \ {"idle"} => Wish(x) # Wall!Nothing
         /\ x.pc \notin {"candidate", "insert"} => Found(x) = {}
         /\ x.pc = "candidate" => Found(x) = {"world cup"}
         /\ x.pc = "insert" => Found(x) = {"world cup", "candidate"}
<1>1. Wall!Nothing = [op |-> "none", what |-> "none", member |-> "none"]
  BY DEF Wall!Nothing
<1>2. /\ x.pc \notin {"candidate", "insert"} => Found(x) = {}
      /\ x.pc = "candidate" => Found(x) = {"world cup"}
      /\ x.pc = "insert" => Found(x) = {"world cup", "candidate"}
  BY DEF Found
<1> QED
  BY <1>1, <1>2 DEF Wish, Steps

(* The same for a request to write, field by field.                           *)
LEMMA WritesWish ==
  ASSUME NEW x, x.pc \in {"worldCup", "candidate", "insert"}
  PROVE  Wish(x).op = "write" /\ Wish(x).what = x.candidate /\ Wish(x).member = x.member
<1> DEFINE w == [op |-> "write", what |-> x.candidate, member |-> x.member]
<1>1. Wish(x) = w
  BY Wishes
<1>2. w.op = "write" /\ w.what = x.candidate /\ w.member = x.member
  OBVIOUS
<1> QED
  BY <1>1, <1>2

(* Every step of an overlapping request, and every edit of the owner, is a    *)
(* step of the wall or none: what is posted was seen, a removal is one step.  *)
THEOREM Refinement == Spec => ImplementsCommentWall
<1> DEFINE post == [k \in Comments |-> [candidate |-> about[k], author |-> author[k]]]
           shown == Candidates \ (hidden \cup deleted)
           asked == [r \in Requests |-> Wish(req[r])]
           seen == [r \in Requests |-> Found(req[r])]
<1>i. Wish(Idle) = Wall!Nothing /\ Found(Idle) = {}
  BY IdleIsRequest, Wishes
<1>1. Init => Wall!Init
  <2> SUFFICES ASSUME Init PROVE Wall!Init
    OBVIOUS
  <2>1. asked = [r \in Requests |-> Wall!Nothing] /\ seen = [r \in Requests |-> {}]
    BY <1>i DEF Init
  <2>2. public \in BOOLEAN /\ shown \in SUBSET Candidates /\ deleted = {} /\ removed = {}
    BY DEF Init
  <2>3. /\ post = [k \in Comments |-> Wall!Blank]
        /\ told = [k \in Comments |-> 0]
    BY DEF Init, Wall!Blank
  <2> QED
    BY <2>1, <2>2, <2>3 DEF Wall!Init
<1>2. IInv /\ [Next]_vars => [Wall!Next]_(Wall!vars)
  <2> SUFFICES ASSUME IInv, [Next]_vars PROVE Wall!Next \/ UNCHANGED Wall!vars
    OBVIOUS
  <2>t. /\ TypeOK
        /\ \A r \in Requests : RequestInv(r) /\ req[r] \in Request /\ req[r].pc \in Steps
        /\ \A k \in Comments : ToldOnce(k)
    BY DEF IInv, TypeOK, Request
  <2>m. ASSUME NEW r \in Requests, NEW x \in Request, Become(r, x)
        PROVE  /\ asked' = [asked EXCEPT ![r] = Wish(x)]
               /\ seen' = [seen EXCEPT ![r] = Found(x)]
    <3>1. /\ req' \in [Requests -> Request]
          /\ req'[r] = x
          /\ \A q \in Requests : q # r => req'[q] = req[q]
      BY <2>t, <2>m, BecomeSetsOne
    <3> QED
      BY <3>1
  <2>s. ASSUME NEW r \in Requests, NEW s \in Steps
        PROVE  /\ [req[r] EXCEPT !.pc = s] \in Request
               /\ [req[r] EXCEPT !.pc = s].pc = s
               /\ [req[r] EXCEPT !.pc = s].candidate = req[r].candidate
               /\ [req[r] EXCEPT !.pc = s].comment = req[r].comment
               /\ [req[r] EXCEPT !.pc = s].member = req[r].member
    BY <2>t DEF Request
  <2>u. ASSUME UNCHANGED rows
        PROVE  post' = post
    BY <2>u DEF rows
  <2>o. ASSUME UNCHANGED owned
        PROVE  public' = public /\ shown' = shown /\ deleted' = deleted
    BY <2>o DEF owned
  <2>w. ASSUME NEW r \in Requests, req[r].pc = "worldCup" \/ req[r].pc = "candidate" \/ req[r].pc = "insert"
        PROVE  /\ asked[r].op = "write" /\ asked[r].what = req[r].candidate
               /\ asked[r].member = req[r].member
    <3>1. /\ Wish(req[r]).op = "write" /\ Wish(req[r]).what = req[r].candidate
          /\ Wish(req[r]).member = req[r].member
      BY <2>w, WritesWish
    <3>2. asked[r] = Wish(req[r])
      OBVIOUS
    <3> HIDE DEF asked
    <3> QED
      BY <3>1, <3>2
  (* A request that ends is one that leaves the wall as it is.                *)
  <2>e. ASSUME NEW r \in Requests, req[r].pc # "idle", Become(r, Idle), UNCHANGED <<rows, owned, told>>
        PROVE  Wall!Next
    <3>1. asked' = [asked EXCEPT ![r] = Wall!Nothing] /\ seen' = [seen EXCEPT ![r] = {}]
      BY <2>e, <2>m, IdleIsRequest, <1>i
    <3>2. asked[r] # Wall!Nothing
      BY <2>e, <2>t, Wishes
    <3>3. post' = post /\ public' = public /\ shown' = shown /\ UNCHANGED <<deleted, removed, told>>
      BY <2>e, <2>u, <2>o DEF rows
    <3>4. Wall!Leave(r)
      BY <3>1, <3>2, <3>3 DEF Wall!Leave, Wall!Want, Wall!Blind, Wall!wall
    <3> QED
      BY <3>4 DEF Wall!Next
  <2>1. ASSUME NEW r \in Requests, NEW c \in Candidates, NEW m \in Members \cup {"guest"}, Create(r, c, m)
        PROVE  Wall!Next
    <3> DEFINE x == [Idle EXCEPT !.pc = "worldCup", !.candidate = c, !.member = m]
    <3>1. x \in Request /\ x.pc = "worldCup" /\ x.candidate = c /\ x.member = m
      BY DEF Idle, Request, Steps
    <3>2. Become(r, x) /\ UNCHANGED <<rows, owned, told>> /\ req[r].pc = "idle"
      BY <2>1 DEF Create
    <3> HIDE DEF x
    <3>w. Wish(x) = [op |-> "write", what |-> c, member |-> m] /\ Found(x) = {}
      BY <3>1, Wishes
    <3>3. /\ asked' = [asked EXCEPT ![r] = [op |-> "write", what |-> c, member |-> m]]
          /\ seen' = [seen EXCEPT ![r] = {}]
      <4>1. asked' = [asked EXCEPT ![r] = Wish(x)] /\ seen' = [seen EXCEPT ![r] = Found(x)]
        BY <2>m, <3>1, <3>2
      <4> QED
        BY <3>w, <4>1
    <3>4. asked[r] = Wall!Nothing /\ seen[r] = {}
      BY <3>2, Wishes
    <3>5. seen' = seen
      BY <3>3, <3>4
    <3>6. post' = post /\ public' = public /\ shown' = shown /\ UNCHANGED <<deleted, removed, told>>
      BY <3>2, <2>u, <2>o DEF rows
    <3>7. Wall!Ask(r, "write", c, m)
      BY <3>3, <3>4, <3>5, <3>6 DEF Wall!Ask, Wall!Want, Wall!wall
    <3> QED
      BY <3>7 DEF Wall!Next
  <2>2. ASSUME NEW r \in Requests, NEW k \in Comments, NEW m \in Members, Remove(r, k, m)
        PROVE  Wall!Next
    <3> DEFINE x == [Idle EXCEPT !.pc = "find", !.comment = k, !.member = m]
    <3>1. x \in Request /\ x.pc = "find" /\ x.comment = k /\ x.member = m
      BY DEF Idle, Request, Steps
    <3>2. Become(r, x) /\ UNCHANGED <<rows, owned, told>> /\ req[r].pc = "idle"
      BY <2>2 DEF Remove
    <3> HIDE DEF x
    <3>w. Wish(x) = [op |-> "remove", what |-> k, member |-> m] /\ Found(x) = {}
      BY <3>1, Wishes
    <3>3. /\ asked' = [asked EXCEPT ![r] = [op |-> "remove", what |-> k, member |-> m]]
          /\ seen' = [seen EXCEPT ![r] = {}]
      <4>1. asked' = [asked EXCEPT ![r] = Wish(x)] /\ seen' = [seen EXCEPT ![r] = Found(x)]
        BY <2>m, <3>1, <3>2
      <4> QED
        BY <3>w, <4>1
    <3>4. asked[r] = Wall!Nothing /\ seen[r] = {}
      BY <3>2, Wishes
    <3>5. seen' = seen
      BY <3>3, <3>4
    <3>6. post' = post /\ public' = public /\ shown' = shown /\ UNCHANGED <<deleted, removed, told>>
      BY <3>2, <2>u, <2>o DEF rows
    <3>7. Wall!Ask(r, "remove", k, m)
      BY <3>3, <3>4, <3>5, <3>6 DEF Wall!Ask, Wall!Want, Wall!wall
    <3> QED
      BY <3>7 DEF Wall!Next
  (* The two reads of create that succeed are looks at what is on show.       *)
  <2>l. ASSUME NEW r \in Requests, NEW s \in {"candidate", "insert"}, NEW y \in {"world cup", "candidate"},
               Goto(r, s), req[r].pc = IF y = "world cup" THEN "worldCup" ELSE "candidate",
               s = IF y = "world cup" THEN "candidate" ELSE "insert",
               y = "world cup" => public, y = "candidate" => req[r].candidate \in shown,
               UNCHANGED <<rows, owned, told>>
        PROVE  Wall!Next
    <3> DEFINE x == [req[r] EXCEPT !.pc = s]
    <3>1. /\ x \in Request /\ x.pc = s
          /\ x.candidate = req[r].candidate /\ x.member = req[r].member
      <4>1. s \in Steps
        BY DEF Steps
      <4> QED
        BY <2>s, <4>1
    <3>2. Become(r, x)
      BY <2>l DEF Goto
    <3> HIDE DEF x
    <3>3. asked' = [asked EXCEPT ![r] = Wish(x)] /\ seen' = [seen EXCEPT ![r] = Found(x)]
      BY <2>m, <3>1, <3>2
    <3>4. asked[r] = [op |-> "write", what |-> req[r].candidate, member |-> req[r].member]
      BY <2>l, Wishes
    <3>5. Wish(x) = [op |-> "write", what |-> req[r].candidate, member |-> req[r].member]
      BY <3>1, Wishes
    <3>6. asked' = asked
      BY <3>3, <3>4, <3>5
    <3>7. Found(x) = seen[r] \cup {y}
      <4>1. CASE y = "world cup"
        <5>1. seen[r] = {} /\ Found(x) = {"world cup"}
          BY <2>l, <3>1, <4>1, Wishes
        <5> QED
          BY <4>1, <5>1
      <4>2. CASE y = "candidate"
        <5>1. seen[r] = {"world cup"} /\ Found(x) = {"world cup", "candidate"}
          BY <2>l, <3>1, <4>2, Wishes
        <5> QED
          BY <4>2, <5>1
      <4> QED
        BY <4>1, <4>2
    <3>8. post' = post /\ public' = public /\ shown' = shown /\ UNCHANGED <<deleted, removed, told>>
      BY <2>l, <2>u, <2>o DEF rows
    <3>9. seen' = [seen EXCEPT ![r] = @ \cup {y}]
      BY <3>3, <3>7
    <3>10. asked[r].op = "write" /\ asked[r].what = req[r].candidate
      BY <2>l, <2>w
    <3>11. Wall!See(r, y)
      BY <2>l, <3>6, <3>8, <3>9, <3>10 DEF Wall!See, Wall!wall
    <3> QED
      BY <3>11 DEF Wall!Next
  <2>3. ASSUME NEW r \in Requests, FindWorldCup(r) PROVE Wall!Next
    <3>1. CASE public
      BY <2>3, <2>l, <3>1 DEF FindWorldCup
    <3>2. CASE ~public
      BY <2>3, <2>e, <3>2 DEF FindWorldCup
    <3> QED
      BY <3>1, <3>2
  <2>4. ASSUME NEW r \in Requests, FindCandidate(r) PROVE Wall!Next
    <3>1. CASE req[r].candidate \in hidden \cup deleted
      BY <2>4, <2>e, <3>1 DEF FindCandidate
    <3>2. CASE req[r].candidate \notin hidden \cup deleted
      <4>1. req[r].candidate \in shown
        BY <2>4, <2>t, <3>2 DEF FindCandidate, RequestInv
      <4> QED
        BY <2>4, <2>l, <3>2, <4>1 DEF FindCandidate
    <3> QED
      BY <3>1, <3>2
  <2>5. ASSUME NEW r \in Requests, NEW k \in Comments, Insert(r, k) PROVE Wall!Next
    <3>1. asked' = [asked EXCEPT ![r] = Wall!Nothing] /\ seen' = [seen EXCEPT ![r] = {}]
      BY <2>5, <2>m, IdleIsRequest, <1>i DEF Insert
    <3>2. /\ asked[r] = [op |-> "write", what |-> req[r].candidate, member |-> req[r].member]
          /\ seen[r] = {"world cup", "candidate"}
      BY <2>5, Wishes DEF Insert
    <3>3. post[k] = Wall!Blank
      BY <2>5, <2>t DEF Insert, TypeOK, Wall!Blank
    <3>4. post' = [post EXCEPT ![k] = [candidate |-> req[r].candidate, author |-> req[r].member]]
      BY <2>5, <2>t DEF Insert, TypeOK
    <3>5. public' = public /\ shown' = shown /\ UNCHANGED <<deleted, removed, told>>
      BY <2>5, <2>o DEF Insert
    <3>a. asked[r].op = "write" /\ asked[r].what = req[r].candidate /\ asked[r].member = req[r].member
      BY <2>5, <2>w DEF Insert
    <3>6. post' = [post EXCEPT ![k] = [candidate |-> asked[r].what, author |-> asked[r].member]]
      BY <3>4, <3>a
    <3>8. Wall!Post(r, k)
      BY <3>1, <3>2, <3>3, <3>5, <3>6, <3>a DEF Wall!Post, Wall!Want, Wall!Blind
    <3> QED
      BY <3>8 DEF Wall!Next
  (* A comment that was found may be gone at the update: until then nothing   *)
  (* is promised.                                                             *)
  <2>6. ASSUME NEW r \in Requests, FindComment(r) PROVE Wall!Next \/ UNCHANGED Wall!vars
    <3> DEFINE x == [req[r] EXCEPT !.pc = "update"]
    <3>1. CASE Goto(r, "update")
      <4>1. x \in Request /\ x.pc = "update" /\ x.comment = req[r].comment /\ x.member = req[r].member
        BY <2>s DEF Steps
      <4>2. Become(r, x)
        BY <3>1 DEF Goto
      <4> HIDE DEF x
      <4>3. asked' = [asked EXCEPT ![r] = Wish(x)] /\ seen' = [seen EXCEPT ![r] = Found(x)]
        BY <2>m, <4>1, <4>2
      <4>4. Wish(x) = asked[r] /\ Found(x) = seen[r]
        BY <2>6, <4>1, Wishes DEF FindComment
      <4>5. asked' = asked /\ seen' = seen
        BY <4>3, <4>4
      <4>6. post' = post /\ public' = public /\ shown' = shown /\ UNCHANGED <<deleted, removed, told>>
        BY <2>6, <2>u, <2>o DEF FindComment, rows
      <4> QED
        BY <4>5, <4>6 DEF Wall!vars
    <3>2. CASE Become(r, Idle)
      BY <2>6, <2>e, <3>2 DEF FindComment
    <3> QED
      BY <2>6, <3>1, <3>2 DEF FindComment
  <2>7. ASSUME NEW r \in Requests, Update(r) PROVE Wall!Next
    <3> DEFINE k == req[r].comment
               x == [req[r] EXCEPT !.pc = "respond"]
    <3>1. CASE author[k] = req[r].member /\ k \notin removed
      <4>1. x \in Request /\ x.pc = "respond" /\ x.comment = k /\ x.member = req[r].member
        BY <2>s DEF Steps
      <4>2. Become(r, x) /\ removed' = removed \cup {k} /\ UNCHANGED <<about, author, owned, told>>
        BY <2>7, <3>1 DEF Update, Goto
      <4>3. k \in Comments /\ req[r].member \in Members
        BY <2>7, <2>t DEF Update, RequestInv
      <4> HIDE DEF x
      <4>4. asked' = [asked EXCEPT ![r] = Wish(x)] /\ seen' = [seen EXCEPT ![r] = Found(x)]
        BY <2>m, <4>1, <4>2
      <4>5. /\ asked[r] = [op |-> "remove", what |-> k, member |-> req[r].member]
            /\ Found(x) = seen[r]
        BY <2>7, <4>1, Wishes DEF Update
      <4>6. Wish(x) = [op |-> "tell", what |-> k, member |-> req[r].member]
        BY <4>1, Wishes
      <4>7. Wish(x) = [asked[r] EXCEPT !.op = "tell"]
        BY <4>5, <4>6
      <4>8. seen' = seen /\ post' = post /\ public' = public /\ shown' = shown /\ UNCHANGED <<deleted, told>>
        BY <4>2, <4>4, <4>5, <2>o
      <4>9. post[k].author = author[k]
        BY <4>3
      <4>10. asked[r].op = "remove" /\ asked[r].what = k /\ asked[r].member = req[r].member
        BY <4>5
      <4>11. asked' = [asked EXCEPT ![r] = [asked[r] EXCEPT !.op = "tell"]]
        BY <4>4, <4>7
      <4> HIDE DEF asked, seen, post, shown, k
      <4>12. Wall!TakeDown(r)
        BY <3>1, <4>2, <4>3, <4>8, <4>9, <4>10, <4>11 DEF Wall!TakeDown, Wall!Want, asked, seen, post, shown
      <4> QED
        BY <4>12 DEF Wall!Next
    <3>2. CASE ~(author[k] = req[r].member /\ k \notin removed)
      BY <2>7, <2>e, <3>2 DEF Update, rows
    <3> QED
      BY <3>1, <3>2
  <2>8. ASSUME NEW r \in Requests, Respond(r) PROVE Wall!Next
    <3> DEFINE k == req[r].comment
    <3>1. k \in Comments /\ k \in removed /\ r \in Removing(k)
      BY <2>8, <2>t DEF Respond, RequestInv, Removing
    <3>2. told[k] = 0
      BY <2>t, <3>1 DEF ToldOnce
    <3>3. told' = [told EXCEPT ![k] = 1]
      BY <2>8, <3>2 DEF Respond
    <3>4. asked' = [asked EXCEPT ![r] = Wall!Nothing] /\ seen' = [seen EXCEPT ![r] = {}]
      BY <2>8, <2>m, IdleIsRequest, <1>i DEF Respond
    <3>5. asked[r] = [op |-> "tell", what |-> k, member |-> req[r].member] /\ seen[r] = {}
      BY <2>8, Wishes DEF Respond
    <3>6. seen' = seen
      BY <3>4, <3>5
    <3>7. post' = post /\ public' = public /\ shown' = shown /\ UNCHANGED <<deleted, removed>>
      BY <2>8, <2>u, <2>o DEF Respond, rows
    <3>8. asked[r].op = "tell" /\ asked[r].what = k
      BY <3>5
    <3>9. Wall!Tell(r)
      BY <3>2, <3>3, <3>4, <3>6, <3>7, <3>8 DEF Wall!Tell, Wall!Want
    <3> QED
      BY <3>9 DEF Wall!Next
  <2>9. ASSUME NEW r \in Requests, Fail(r) PROVE Wall!Next
    BY <2>9, <2>e DEF Fail
  <2>10. ASSUME UpdateWorldCup \/ (\E c \in Candidates : UpdateCandidate(c) \/ RemoveCandidate(c))
         PROVE  Wall!Next
    <3>1. UNCHANGED <<rows, told, req>>
      BY <2>10 DEF UpdateWorldCup, UpdateCandidate, RemoveCandidate
    <3>2. public' \in BOOLEAN /\ deleted \subseteq deleted'
      BY <2>10, <2>t DEF UpdateWorldCup, UpdateCandidate, RemoveCandidate, TypeOK
    <3>3. shown' \subseteq Candidates \ deleted'
      OBVIOUS
    <3>4. asked' = asked /\ seen' = seen /\ post' = post /\ UNCHANGED <<removed, told>>
      BY <3>1, <2>u DEF rows
    <3>5. Wall!Owner
      BY <3>2, <3>3, <3>4 DEF Wall!Owner, Wall!wall
    <3> QED
      BY <3>5 DEF Wall!Next
  <2>11. CASE UNCHANGED vars
    BY <2>11 DEF vars, Wall!vars
  <2> QED
    BY <2>1, <2>2, <2>3, <2>4, <2>5, <2>6, <2>7, <2>8, <2>9, <2>10, <2>11 DEF Next, Step
<1> QED
  BY <1>1, <1>2, Invariance, PTL DEF Spec, ImplementsCommentWall, Wall!Spec
=============================================================================
