--------------------------- MODULE CandidateOrder ---------------------------
(* Adding candidates to a world cup: createMany and the transaction of        *)
(* createStaticImage in manage-world-cup-contents.service.ts.  Concurrent     *)
(* requests number their candidates one after another with the help of an     *)
(* advisory lock per world cup and of the unique key (worldCupId, sortOrder). *)
EXTENDS Integers, FiniteSets

CONSTANTS WorldCups,
          Candidates,  \* ids the sequence of the candidates table will hand out
          Requests,    \* HTTP requests being served, reused once answered
          MaxBatch     \* candidates of one request

ASSUME BatchAssumption == MaxBatch \in Nat \ {0}
ASSUME CupAssumption == "none" \notin WorldCups

VARIABLES
  cup,      \* candidates.world_cup_id of the committed rows; "none" without a row
  order,    \* candidates.sort_order of the committed rows
  deleted,  \* the candidates with a deletedAt
  req       \* the requests in flight

vars == <<cup, order, deleted, req>>
table == <<cup, order, deleted>>

Steps == {"idle", "lock", "last", "insert"}
Request == [pc : Steps,
            cup : WorldCups \cup {"none"},
            left : 0..MaxBatch,               \* candidates still to insert
            next : Nat,                       \* sortOrder of the next one
            own : SUBSET Candidates,          \* rows inserted and not committed
            at : [Candidates -> Nat]]         \* their sortOrders
Idle == [pc |-> "idle", cup |-> "none", left |-> 0, next |-> 0,
         own |-> {}, at |-> [c \in Candidates |-> 0]]

(* The committed rows and the open transactions. *)
TypeOK == /\ cup \in [Candidates -> WorldCups \cup {"none"}]
          /\ order \in [Candidates -> Nat]
          /\ deleted \subseteq Candidates
          /\ req \in [Requests -> Request]

Init == /\ cup = [c \in Candidates |-> "none"]
        /\ order = [c \in Candidates |-> 0]
        /\ deleted = {}
        /\ req = [r \in Requests |-> Idle]

Rows(w) == {c \in Candidates : cup[c] = w}
Fresh(c) == cup[c] = "none" /\ \A r \in Requests : c \notin req[r].own

(* Variant: one lock per request, that is, none. *)
FreeAlways(w) == TRUE

(* pg_advisory_xact_lock(namespace, worldCupId): held until the transaction ends. *)
Holds(r, w) == req[r].cup = w /\ req[r].pc \in {"last", "insert"}
Free(w) == \A r \in Requests : ~Holds(r, w)

(* Variant: the last number plus one, or one for the first candidate. *)
IsNextFromOne(w, n) == /\ n > 0
                       /\ \A c \in Rows(w) : order[c] < n
                       /\ n = 1 \/ \E c \in Rows(w) : order[c] = n - 1

(* nextCandidateSortOrder: one past the last row, soft-deleted rows included. *)
IsNext(w, n) == /\ \A c \in Rows(w) : order[c] < n
                /\ n = 0 \/ \E c \in Rows(w) : order[c] = n - 1

(* The key (w, n) is committed, or inserted by another open transaction. *)
Taken(r, w, n) ==
  \/ \E c \in Rows(w) : order[c] = n
  \/ \E q \in Requests \ {r} : req[q].cup = w /\ \E c \in req[q].own : req[q].at[c] = n

Become(r, x) == req' = [req EXCEPT ![r] = x]
-----------------------------------------------------------------------------
(* The owner was checked; the transaction goes on with a batch of n. *)
Create(r, w, n) ==
  /\ req[r].pc = "idle"
  /\ Become(r, [Idle EXCEPT !.pc = "lock", !.cup = w, !.left = n])
  /\ UNCHANGED table

Lock(r) ==
  /\ req[r].pc = "lock"
  /\ Free(req[r].cup)
  /\ Become(r, [req[r] EXCEPT !.pc = "last"])
  /\ UNCHANGED table

ReadLast(r, n) ==
  /\ req[r].pc = "last"
  /\ IsNext(req[r].cup, n)
  /\ Become(r, [req[r] EXCEPT !.pc = "insert", !.next = n])
  /\ UNCHANGED table

(* Variant: the loop over the requests runs once too often. *)
InsertOneMore(r, c) ==
  /\ req[r].pc = "insert"
  /\ Fresh(c)
  /\ ~Taken(r, req[r].cup, req[r].next)
  /\ Become(r, [req[r] EXCEPT !.left = @ - 1, !.next = @ + 1,
                              !.own = @ \cup {c}, !.at = [@ EXCEPT ![c] = req[r].next]])
  /\ UNCHANGED table

(* createCandidate: a row with the next number, visible at commit only. *)
Insert(r, c) ==
  /\ req[r].pc = "insert"
  /\ req[r].left > 0
  /\ Fresh(c)
  /\ ~Taken(r, req[r].cup, req[r].next)
  /\ Become(r, [req[r] EXCEPT !.left = @ - 1, !.next = @ + 1,
                              !.own = @ \cup {c}, !.at = [@ EXCEPT ![c] = req[r].next]])
  /\ UNCHANGED table

(* Variant: a transaction ends with the candidates it has come to. *)
CommitPart(r) ==
  /\ req[r].pc = "insert"
  /\ cup' = [c \in Candidates |-> IF c \in req[r].own THEN req[r].cup ELSE cup[c]]
  /\ order' = [c \in Candidates |-> IF c \in req[r].own THEN req[r].at[c] ELSE order[c]]
  /\ Become(r, Idle)
  /\ UNCHANGED deleted

(* The transaction commits; its end releases the advisory lock. *)
Commit(r) ==
  /\ req[r].pc = "insert"
  /\ req[r].left = 0
  /\ cup' = [c \in Candidates |-> IF c \in req[r].own THEN req[r].cup ELSE cup[c]]
  /\ order' = [c \in Candidates |-> IF c \in req[r].own THEN req[r].at[c] ELSE order[c]]
  /\ Become(r, Idle)
  /\ UNCHANGED deleted

(* An error, a timeout of the transaction or the end of the replica. *)
Fail(r) ==
  /\ req[r].pc # "idle"
  /\ Become(r, Idle)
  /\ UNCHANGED table

(* remove: the row stays, with a deletedAt. *)
Remove(c) ==
  /\ cup[c] # "none"
  /\ c \notin deleted
  /\ deleted' = deleted \cup {c}
  /\ UNCHANGED <<cup, order, req>>

Step(r) == \/ Lock(r)
           \/ \E n \in 0..Cardinality(Candidates) : ReadLast(r, n)
           \/ \E c \in Candidates : Insert(r, c)
           \/ Commit(r)

Next == \/ \E r \in Requests : \/ \E w \in WorldCups, n \in 1..MaxBatch : Create(r, w, n)
                               \/ Step(r) \/ Fail(r)
        \/ \E c \in Candidates : Remove(c)

Spec == Init /\ [][Next]_vars
-----------------------------------------------------------------------------
(* What open transactions rely on: the holder of a lock is alone, and its     *)
(* inserted rows continue the committed ones without a gap.                   *)
LockIsExclusive ==
  \A r, q \in Requests, w \in WorldCups : Holds(r, w) /\ Holds(q, w) => r = q
UncommittedRows ==
  \A r \in Requests :
     /\ req[r].pc # "idle" => req[r].cup \in WorldCups
     /\ req[r].pc # "insert" => req[r].own = {}
     /\ \A c \in req[r].own : cup[c] = "none"
     /\ \A q \in Requests \ {r} : req[r].own \cap req[q].own = {}
Continues(r) ==
  LET x == req[r]
  IN /\ \A c \in Rows(x.cup) : order[c] < x.next /\ \A d \in x.own : order[c] < x.at[d]
     /\ \A d \in x.own : x.at[d] < x.next
     /\ \A d, e \in x.own : x.at[d] = x.at[e] => d = e
     /\ \A n \in 0..(x.next - 1) :
           (\E c \in Rows(x.cup) : order[c] = n) \/ (\E d \in x.own : x.at[d] = n)
(* All of it: what every open transaction of createMany relies on. *)
OpenTransactions ==
  /\ LockIsExclusive
  /\ UncommittedRows
  /\ \A r \in Requests : req[r].pc = "insert" => Continues(r)

(* The unique key never rejects an insert, so that the service needs no P2002 *)
(* handling here: the number a request is about to use is free, committed     *)
(* rows, soft-deleted rows and other open transactions included.              *)
NextOrderIsFree ==
  \A r \in Requests : req[r].pc = "insert" => ~Taken(r, req[r].cup, req[r].next)

(* The numbers of a world cup are 0, 1, 2, ... without a gap and without a    *)
(* repetition, whatever batches overlap, fail or are soft-deleted.            *)
NumberedWithoutGaps ==
  \A c \in Candidates : cup[c] # "none" =>
     /\ \A d \in Candidates : cup[d] = cup[c] /\ order[d] = order[c] => c = d
     /\ \A n \in 0..order[c] : \E d \in Rows(cup[c]) : order[d] = n

(* New candidates always come after every candidate the world cup ever had.   *)
AppendedAtTheEnd ==
  [][\A c, d \in Candidates : cup[c] = "none" /\ cup'[c] # "none" /\ cup[d] = cup'[c]
        => order[d] < order'[c]]_vars

(* The committed rows of a world cup by their numbers, and what a request     *)
(* wants: the rows it has inserted and those it will.                         *)
InOrder(R, o) == [i \in {o[c] + 1 : c \in R} |-> CHOOSE c \in R : o[c] + 1 = i]
Wanted(x) == [cup |-> x.cup, count |-> x.left + Cardinality(x.own)]
Lists == INSTANCE CandidateList WITH
           list <- [w \in WorldCups |-> InOrder(Rows(w), order)],
           hidden <- deleted,
           asked <- [r \in Requests |-> Wanted(req[r])]

(* Lock, read, inserts, failures and removals add up to lists to whose end    *)
(* whole batches are added at once: nobody ever sees a part of a batch, two   *)
(* batches mixed, or a new candidate before an earlier one.                   *)
ImplementsCandidateList == Lists!Spec
=============================================================================
