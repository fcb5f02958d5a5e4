------------------------------ MODULE Comments ------------------------------
(* comments.service.ts: comments on the candidates of one world cup, written  *)
(* by members and guests and removed by their authors, while the owner hides  *)
(* the world cup and hides or soft-deletes candidates.                        *)
EXTENDS Naturals, FiniteSets

CONSTANTS Comments,    \* ids the sequence of the comments table will hand out
          Candidates,  \* of the world cup
          Members,
          Requests     \* HTTP requests being served, reused once answered

ASSUME NamesAssumption == /\ "none" \notin Comments \cup Candidates \cup Members
                          /\ "guest" \notin Members

VARIABLES
  about,    \* comments.candidate_id; "none" without a row
  author,   \* comments.member_id, "guest" for NULL; "none" without a row
  removed,  \* the comments with a deletedAt
  public,   \* the visibleType of the world cup
  hidden,   \* the candidates that are PRIVATE
  deleted,  \* the candidates with a deletedAt
  told,     \* how often a removal of the comment was answered with 204
  req       \* the requests in flight

vars == <<about, author, removed, public, hidden, deleted, told, req>>
rows == <<about, author, removed>>
owned == <<public, hidden, deleted>>

Steps == {"idle", "worldCup", "candidate", "insert", "find", "update", "respond"}
Request == [pc : Steps, member : Members \cup {"guest", "none"},
            candidate : Candidates \cup {"none"}, comment : Comments \cup {"none"}]
Idle == [pc |-> "idle", member |-> "none", candidate |-> "none", comment |-> "none"]

(* A row has both a candidate and an author, and only rows are removed. *)
TypeOK == /\ about \in [Comments -> Candidates \cup {"none"}]
          /\ author \in [Comments -> Members \cup {"guest", "none"}]
          /\ \A k \in Comments : about[k] = "none" <=> author[k] = "none"
          /\ removed \subseteq {k \in Comments : about[k] # "none"}
          /\ public \in BOOLEAN
          /\ hidden \subseteq Candidates
          /\ deleted \subseteq Candidates
          /\ told \in [Comments -> Nat]
          /\ req \in [Requests -> Request]

Init == /\ about = [k \in Comments |-> "none"]
        /\ author = [k \in Comments |-> "none"]
        /\ removed = {}
        /\ public \in BOOLEAN
        /\ hidden \in SUBSET Candidates
        /\ deleted = {}
        /\ told = [k \in Comments |-> 0]
        /\ req = [r \in Requests |-> Idle]

Become(r, x) == req' = [req EXCEPT ![r] = x]
Goto(r, s) == Become(r, [req[r] EXCEPT !.pc = s])
-----------------------------------------------------------------------------
(* create: three statements, none of them in a transaction. *)
Create(r, c, m) ==
  /\ req[r].pc = "idle"
  /\ Become(r, [Idle EXCEPT !.pc = "worldCup", !.candidate = c, !.member = m])
  /\ UNCHANGED <<rows, owned, told>>

FindWorldCup(r) ==
  /\ req[r].pc = "worldCup"
  /\ IF public THEN Goto(r, "candidate") ELSE Become(r, Idle)
  /\ UNCHANGED <<rows, owned, told>>

(* Variant: the candidate is not looked up with deletedAt: null. *)
FindAnyCandidate(r) ==
  /\ req[r].pc = "candidate"
  /\ IF req[r].candidate \in hidden THEN Become(r, Idle) ELSE Goto(r, "insert")
  /\ UNCHANGED <<rows, owned, told>>

FindCandidate(r) ==
  /\ req[r].pc = "candidate"
  /\ IF req[r].candidate \in hidden \cup deleted THEN Become(r, Idle) ELSE Goto(r, "insert")
  /\ UNCHANGED <<rows, owned, told>>

(* Variant: the memberId of a guest is not set. *)
InsertUnsigned(r, k) ==
  /\ req[r].pc = "insert"
  /\ about[k] = "none"
  /\ about' = [about EXCEPT ![k] = req[r].candidate]
  /\ author' = [author EXCEPT ![k] = IF req[r].member = "guest" THEN @ ELSE req[r].member]
  /\ Become(r, Idle)
  /\ UNCHANGED <<removed, owned, told>>

Insert(r, k) ==
  /\ req[r].pc = "insert"
  /\ about[k] = "none"
  /\ about' = [about EXCEPT ![k] = req[r].candidate]
  /\ author' = [author EXCEPT ![k] = req[r].member]
  /\ Become(r, Idle)
  /\ UNCHANGED <<removed, owned, told>>

(* remove, for a signed-in member: the row is read, then updated on condition. *)
Remove(r, k, m) ==
  /\ req[r].pc = "idle"
  /\ Become(r, [Idle EXCEPT !.pc = "find", !.comment = k, !.member = m])
  /\ UNCHANGED <<rows, owned, told>>

(* 404 for a missing or removed comment, 403 for another member's or a guest's. *)
FindComment(r) ==
  /\ req[r].pc = "find"
  /\ IF author[req[r].comment] = req[r].member /\ req[r].comment \notin removed
     THEN Goto(r, "update")
     ELSE Become(r, Idle)
  /\ UNCHANGED <<rows, owned, told>>

(* Variant: neither the member nor deletedAt: null is in the update's condition. *)
UpdateById(r) ==
  /\ req[r].pc = "update"
  /\ removed' = removed \cup {req[r].comment}
  /\ Goto(r, "respond")
  /\ UNCHANGED <<about, author, owned, told>>

(* updateMany counts the rows that the member owns and nobody removed yet. *)
Update(r) ==
  /\ req[r].pc = "update"
  /\ IF author[req[r].comment] = req[r].member /\ req[r].comment \notin removed
     THEN removed' = removed \cup {req[r].comment} /\ Goto(r, "respond")
     ELSE UNCHANGED removed /\ Become(r, Idle)
  /\ UNCHANGED <<about, author, owned, told>>

Respond(r) ==
  /\ req[r].pc = "respond"
  /\ told' = [told EXCEPT ![req[r].comment] = @ + 1]
  /\ Become(r, Idle)
  /\ UNCHANGED <<rows, owned>>

(* A database error, the end of the replica or of the connection. *)
Fail(r) ==
  /\ req[r].pc # "idle"
  /\ Become(r, Idle)
  /\ UNCHANGED <<rows, owned, told>>

(* The owner: the world cup and its candidates change under the requests. *)
UpdateWorldCup ==
  /\ public' = ~public
  /\ UNCHANGED <<rows, hidden, deleted, told, req>>

UpdateCandidate(c) ==
  /\ c \notin deleted
  /\ \E h \in {hidden \cup {c}, hidden \ {c}} : hidden' = h
  /\ UNCHANGED <<rows, public, deleted, told, req>>

RemoveCandidate(c) ==
  /\ c \notin deleted
  /\ deleted' = deleted \cup {c}
  /\ UNCHANGED <<rows, public, hidden, told, req>>

Step(r) == \/ FindWorldCup(r) \/ FindCandidate(r) \/ (\E k \in Comments : Insert(r, k))
           \/ FindComment(r) \/ Update(r) \/ Respond(r)

Next == \/ \E r \in Requests :
             \/ \E c \in Candidates, m \in Members \cup {"guest"} : Create(r, c, m)
             \/ \E k \in Comments, m \in Members : Remove(r, k, m)
             \/ Step(r) \/ Fail(r)
        \/ UpdateWorldCup
        \/ \E c \in Candidates : UpdateCandidate(c) \/ RemoveCandidate(c)

Spec == Init /\ [][Next]_vars
-----------------------------------------------------------------------------
Removing(k) == {r \in Requests : req[r].pc = "respond" /\ req[r].comment = k}

(* However many requests to remove a comment overlap, one at most is answered *)
(* with 204, and then the comment is removed.                                 *)
RemovedOnce ==
  \A k \in Comments : told[k] + Cardinality(Removing(k)) <= IF k \in removed THEN 1 ELSE 0

(* Only the member who wrote a comment removes it; guests' comments stay.     *)
RemovedByAuthor ==
  [][\A k \in removed' \ removed :
        \E r \in Requests : /\ req[r].pc = "update"
                            /\ req[r].comment = k
                            /\ req[r].member = author[k]
                            /\ author[k] \in Members]_vars

(* What a request still wants, and what it has found on show.                 *)
Wish(x) ==
  CASE x.pc \in {"worldCup", "candidate", "insert"} ->
         [op |-> "write", what |-> x.candidate, member |-> x.member]
    [] x.pc \in {"find", "update"} -> [op |-> "remove", what |-> x.comment, member |-> x.member]
    [] x.pc = "respond" -> [op |-> "tell", what |-> x.comment, member |-> x.member]
    [] OTHER -> [op |-> "none", what |-> "none", member |-> "none"]
Found(x) == {y \in {"world cup", "candidate"} : \/ x.pc = "insert"
                                                \/ x.pc = "candidate" /\ y = "world cup"}
Wall == INSTANCE CommentWall WITH
          open <- public,
          shown <- Candidates \ (hidden \cup deleted),
          gone <- deleted,
          post <- [k \in Comments |-> [candidate |-> about[k], author |-> author[k]]],
          down <- removed,
          asked <- [r \in Requests |-> Wish(req[r])],
          seen <- [r \in Requests |-> Found(req[r])]

(* Three statements without a transaction post a comment only about a         *)
(* candidate that was on show after the request was sent, in a world cup that *)
(* was public then, however the owner changes both in between, so no request  *)
(* sent after a removal gets through; a read and a conditional update take it *)
(* down once, for its author.                                                 *)
ImplementsCommentWall == Wall!Spec

(* CANDIDATE_DELETION_POLICY.md 3: no new comment on a deleted candidate.     *)
NoCommentOnDeleted ==
  [][\A k \in Comments :
        about[k] = "none" /\ about'[k] # "none" => about'[k] \notin deleted]_vars
=============================================================================
